---------------------------- MODULE Assignment -----------------------------
(***************************************************************************)
(* Who reviews one issue or PR: scripts/reviewer_bot_lib/                  *)
(* assignment_flow.py, and the commands and events that go through it.     *)
(*                                                                         *)
(* Two places say who the reviewer is: GitHub (the assignees of an issue,  *)
(* the requested reviewers of a PR) and the bot's saved state (the tracked *)
(* reviewer).  A run changes GitHub call by call, reads back what GitHub   *)
(* made of it, and saves its conclusion at the end.  Calls fail, take      *)
(* effect although they failed, or have no effect although they succeeded; *)
(* people assign and unassign at any time; runs die.  Where the two places *)
(* may differ a run leaves a repair marker in the state.                   *)
(*                                                                         *)
(* Mutating runs exclude one another (module LeaseLock), so there is one   *)
(* run at a time.  Who is next in the queue (module ReviewerQueue) and who *)
(* may use a command on somebody else's behalf are choices.  GitHub's      *)
(* answers to reads are current.  An edit of the assignees of an issue     *)
(* starts a run; for a PR no workflow is told.                             *)
(***************************************************************************)
EXTENDS Naturals, FiniteSets

CONSTANTS People, NoOne,
          Author,      \* of the item
          Kinds,       \* of items: TRUE for a pull request, FALSE for an issue
          MaxFaults,   \* bound: calls that go wrong, runs that die
          MaxHumans    \* bound: assignments changed by people

ASSUME PeopleAssumption == NoOne \notin People /\ Author \in People \union {NoOne}
ASSUME KindsAssumption == Kinds \subseteq BOOLEAN
ASSUME BoundAssumption == MaxFaults \in Nat /\ MaxHumans \in Nat

VARIABLES isPR,      \* the item is a pull request
          live,      \* assignees or requested reviewers on GitHub
          tracked,   \* current_reviewer in the saved state
          marks,     \* repair markers in the saved state, by what failed
          pending,   \* people changed live (for a PR also by a review while
                     \* others are requested) and no run was started for it
          cut,       \* history: a run died and none has settled things since
          run,       \* the run in progress
          faults, humans

vars == <<isPR, live, tracked, marks, pending, cut, run, faults, humans>>

Marks == {"add", "remove", "confirm"}
Ops == {"none", "assign", "pass", "opened", "lifecycle", "away", "release", "check"}
Phases == {"idle", "read", "remove", "add", "final", "failread",
           "relread", "relremove", "relfinal", "save"}

\* What a run knows: who it is about (target or actor), the reviewers it read
\* first and has still to remove, how its assignment went, its copy of the
\* state, and whether it has read live since it last changed it.
Idle == [pc |-> "idle", op |-> "none", who |-> NoOne, before |-> {}, todo |-> {},
         added |-> "no", tracked |-> NoOne, marks |-> {}, fresh |-> FALSE]

Init == /\ isPR \in Kinds
        /\ live \in {S \in SUBSET People : Cardinality(S) <= 1}
        /\ tracked = NoOne
        /\ marks = {}
        /\ pending = (live # {} /\ ~isPR)
        /\ cut = FALSE
        /\ run = Idle
        /\ faults = 0 /\ humans = 0

Fault == faults < MaxFaults /\ faults' = faults + 1
NoFault == faults' = faults
Saved == <<tracked, marks>>
Outside == <<pending, cut, humans>>

-----------------------------------------------------------------------------
(* A run starts: execute_run has loaded the state *)

Start(op, p) ==
  /\ run.pc = "idle"
  /\ op = "opened" => tracked = NoOne
  /\ op = "check" => tracked # NoOne
  /\ run' = [Idle EXCEPT !.pc = "read", !.op = op, !.who = p,
                         !.tracked = tracked, !.marks = marks]
  /\ pending' = (pending /\ op \notin {"opened", "lifecycle"})
  /\ UNCHANGED <<live, Saved, cut, faults, humans>>

\* The run ends without having anything to save.
Quit == run' = Idle /\ UNCHANGED <<live, Saved, Outside>>

\* The run goes on.
On(r) == run' = r /\ UNCHANGED <<Saved, Outside>>

Read(r) == [r EXCEPT !.fresh = TRUE]
Wrote(r) == [r EXCEPT !.fresh = FALSE]
Mark(r, m) == [r EXCEPT !.marks = @ \union {m}]
Unmark(r, M) == [r EXCEPT !.marks = @ \ M]
To(r, p) == [r EXCEPT !.pc = p]
BadClear(r) == r
Clear(r) == [r EXCEPT !.tracked = NoOne]

-----------------------------------------------------------------------------
(* Reading who is assigned, and deciding what to do *)

\* resolve_reviewer_authority
TrackedConfirmed == IF isPR THEN live = {} \/ run.tracked \in live
                    ELSE live = {run.tracked}

\* confirm_reviewer_assignment, up to its first change
Assign(r, p) ==
  IF p = Author THEN To(Mark(r, "confirm"), "save")
  ELSE IF r.tracked = p /\ live = {p} THEN To(r, "save")
  ELSE To([r EXCEPT !.who = p, !.before = live, !.todo = live \ {p}], "remove")

\* get_next_reviewer found somebody, or did not.
SomebodyElse(p) == {n \in People : n # p /\ n # Author}

Decide(r) ==
  CASE r.op = "assign"  -> {Assign(r, r.who)}
    [] r.op = "pass"    -> IF run.tracked = r.who /\ TrackedConfirmed
                             THEN {Assign(r, n) : n \in SomebodyElse(r.who)} \union {Idle} ELSE {Idle}
    [] r.op = "away"    -> IF live = {r.who}
                             THEN {Assign(r, n) : n \in SomebodyElse(r.who)} \union {To(r, "relread")}
                             ELSE {Idle}
    [] r.op = "release" -> IF run.tracked = r.who /\ TrackedConfirmed THEN {To(r, "relread")} ELSE {Idle}
    [] r.op = "check"   -> {To(IF TrackedConfirmed THEN Unmark(r, {"confirm"}) ELSE Mark(r, "confirm"), "save")}
    [] r.op \in {"opened", "lifecycle"} ->
         IF \E p \in People : live = {p}
           THEN {IF p = Author THEN To(Clear(r), "save") ELSE Assign(r, p) : p \in live}
         ELSE IF live = {} /\ r.op = "opened"
           THEN {Assign(r, n) : n \in SomebodyElse(NoOne)} \union {Idle}
           ELSE {To(Clear(r), "save")}

FirstRead ==
  /\ run.pc = "read"
  /\ \/ \E r \in Decide(Read(run)) : On(r) /\ NoFault
     \/ /\ Fault
        /\ CASE run.op = "check" -> On(To(Mark(run, "confirm"), "save"))
             [] run.op \in {"assign", "pass", "away", "release"} -> Quit
             [] run.op \in {"opened", "lifecycle"} -> FALSE   \* raises: see Dies
  /\ live' = live

-----------------------------------------------------------------------------
(* confirm_reviewer_assignment, from its first change on *)

BadRemoveOne ==
  /\ run.pc = "remove" /\ run.todo # {}
  /\ \E a \in run.todo :
       \/ live' = live \ {a} /\ On(Wrote([run EXCEPT !.todo = @ \ {a}])) /\ NoFault
       \/ Fault /\ live' \in {live, live \ {a}} /\ On(To(Wrote(run), "failread"))

RemoveOne ==
  /\ run.pc = "remove" /\ run.todo # {}
  /\ \E a \in run.todo :
       \/ live' = live \ {a} /\ On(Wrote([run EXCEPT !.todo = @ \ {a}])) /\ NoFault
       \/ Fault /\ live' \in {live, live \ {a}} /\ On(To(Mark(Wrote(run), "remove"), "failread"))

AllRemoved ==
  /\ run.pc = "remove" /\ run.todo = {}
  /\ On(To(run, IF run.who \in run.before THEN "final" ELSE "add"))
  /\ UNCHANGED <<live, faults>>

\* GitHub leaves out, without a word, people it cannot assign.
Add ==
  /\ run.pc = "add"
  /\ \/ live' = live \union {run.who} /\ On(To(Wrote(run), "final")) /\ NoFault
     \/ Fault /\ live' = live /\ On(To(Wrote(run), "final"))
     \/ Fault /\ live' = live /\ On(To(Mark(Wrote([run EXCEPT !.added = "422"]), "add"), "final"))
     \/ /\ Fault /\ live' \in {live, live \union {run.who}}
        /\ On(To(Mark(Wrote([run EXCEPT !.added = "failed"]), "add"), "final"))

\* _read_live_assignees after a removal that failed
ReadAfterFailure ==
  /\ run.pc = "failread"
  /\ \/ On(To(Unmark(Read(run), {"confirm"}), "save")) /\ NoFault
     \/ On(To(Mark(run, "confirm"), "save")) /\ Fault
  /\ live' = live

\* derive_reviewer_assignment_confirmation: may the target be tracked?
BadTrustAdd == TRUE
TrackingAllowed ==
  \/ run.who \in run.before \intersect live
  \/ live = {run.who}
  \/ isPR /\ (run.added = "422" \/ live = {})

FinalRead ==
  /\ run.pc = "final"
  /\ \/ /\ NoFault
        /\ IF TrackingAllowed
             THEN On(To(Read([run EXCEPT !.tracked = run.who, !.marks = {}]), "save"))
             ELSE LET r == To(Mark(Read(run), "confirm"), "save") IN On(IF isPR THEN r ELSE Clear(r))
     \/ Fault /\ On(To(Mark(run, "confirm"), "save"))
  /\ live' = live

-----------------------------------------------------------------------------
(* confirm_reviewer_release *)

ReleaseRead ==
  /\ run.pc = "relread"
  /\ \/ /\ NoFault
        /\ On(To(Unmark(Read(run), {"confirm"}), IF run.who \in live THEN "relremove" ELSE "relfinal"))
     \/ Fault /\ On(To(Mark(run, "confirm"), "save"))
  /\ live' = live

ReleaseRemove ==
  /\ run.pc = "relremove"
  /\ \/ live' = live \ {run.who} /\ On(To(Wrote(run), "relfinal")) /\ NoFault
     \/ Fault /\ live' \in {live, live \ {run.who}} /\ On(To(Mark(Wrote(run), "remove"), "save"))

ReleaseFinal ==
  /\ run.pc = "relfinal"
  /\ \/ /\ NoFault
        /\ IF live = {} THEN On(To(Clear(Unmark(Read(run), {"remove", "confirm"})), "save"))
           ELSE LET r == To(Mark(Read(run), "confirm"), "save") IN
                On(IF Cardinality(live) # 1 \/ (run.tracked # NoOne /\ live # {run.tracked})
                     THEN Clear(r) ELSE r)
     \/ Fault /\ On(To(Mark(run, "confirm"), "save"))
  /\ live' = live

-----------------------------------------------------------------------------
\* The run saves what it concluded.  The scheduled check does not report the
\* markers it changed: they are saved only if it reports something else.
Save ==
  /\ run.pc = "save"
  /\ \/ /\ tracked' = run.tracked /\ marks' = run.marks
        /\ cut' = (cut /\ ~run.fresh)
     \/ run.op = "check" /\ UNCHANGED <<Saved, cut>>
  /\ run' = Idle
  /\ UNCHANGED <<live, pending, faults, humans>>

\* A call is denied and raises, the save fails, or the run is killed.
Dies ==
  /\ run.pc # "idle"
  /\ Fault
  /\ run' = Idle
  /\ cut' = TRUE
  /\ UNCHANGED <<live, Saved, pending, humans>>

\* People change the assignment; a review that is given takes its reviewer off
\* the requested reviewers of a PR.
Human ==
  /\ humans < MaxHumans
  /\ humans' = humans + 1
  /\ \E p \in People : live' \in {live \union {p}, live \ {p}} \ {live}
  /\ pending' = TRUE
  /\ UNCHANGED <<Saved, cut, run, faults>>

ReviewGiven ==
  /\ isPR /\ tracked \in live
  /\ live' = live \ {tracked}
  /\ pending' = (pending \/ live' # {})
  /\ UNCHANGED <<Saved, cut, humans, run, faults>>

RunStep == \/ FirstRead \/ RemoveOne \/ AllRemoved \/ Add \/ ReadAfterFailure \/ FinalRead
           \/ ReleaseRead \/ ReleaseRemove \/ ReleaseFinal \/ Save

StartSome == \/ \E p \in People, op \in {"assign", "pass", "away", "release"} : Start(op, p)
             \/ \E op \in {"opened", "lifecycle", "check"} : Start(op, NoOne)

Next == (RunStep \/ StartSome \/ Dies \/ Human \/ ReviewGiven) /\ UNCHANGED isPR

Spec == Init /\ [][Next]_vars

\* A run goes on, and GitHub starts the run for an assignment that changed.
FairSpec == Spec /\ WF_vars(RunStep /\ UNCHANGED isPR)
                 /\ SF_vars(pending /\ ~isPR /\ Start("lifecycle", NoOne) /\ UNCHANGED isPR)

-----------------------------------------------------------------------------
(* Properties *)

AssignmentTypeOK ==
  /\ isPR \in BOOLEAN /\ live \subseteq People
  /\ tracked \in People \union {NoOne}
  /\ marks \subseteq Marks
  /\ {pending, cut} \subseteq BOOLEAN
  /\ run \in [pc : Phases, op : Ops, who : People \union {NoOne}, before : SUBSET People,
              todo : SUBSET People, added : {"no", "422", "failed"},
              tracked : People \union {NoOne}, marks : SUBSET Marks, fresh : BOOLEAN]
  /\ faults \in 0..MaxFaults /\ humans \in 0..MaxHumans

\* The two places agree: the tracked reviewer is the only assignee, or one of
\* the requested reviewers if there are any.
Agree == tracked # NoOne => IF isPR THEN live = {} \/ tracked \in live ELSE live = {tracked}

\* Between runs the saved state names somebody GitHub does not only if it says
\* so with a repair marker, or a run for the change is still to come: whichever
\* call fails, and whatever people do meanwhile.  (A run that dies leaves no
\* marker; the next one that reads back what it did settles it.)
MismatchMarked == AssignmentTypeOK /\ (run.pc = "idle" /\ ~pending /\ ~cut => Agree \/ marks # {})

\* On an issue nobody becomes the tracked reviewer who was not assigned on
\* GitHub, unless people intervened after the run had looked.
NewReviewerIsLive ==
  [][~isPR /\ tracked' \notin {tracked, NoOne} => tracked' \in live \/ pending]_vars

\* When nothing fails and people stop changing the assignees of an issue, the
\* two places agree for good between runs, whatever commands come.
AgreeInTheEnd == ~isPR /\ [](faults = 0) => <>[](run.pc = "idle" => Agree)
=============================================================================
