------------------------------ MODULE Deferred ------------------------------
(***************************************************************************)
(* What happens on one open pull request and is not handled on the spot    *)
(* (scripts/reviewer_bot_lib: reconcile.py, sweeper.py,                    *)
(* deferred_gap_bookkeeping.py, reconcile_payloads.py, and the policies    *)
(* they use in scripts/reviewer_bot_core).                                 *)
(*                                                                         *)
(* A comment or review starts an observer run, which may wait for an       *)
(* approval, fail, or leave an artifact.  Its end starts a reconcile run:  *)
(* that replays the event from the artifact and from what GitHub shows     *)
(* now, or notes a gap.  The sweeper lists what GitHub shows since a floor *)
(* and notes a gap for whatever the saved row knows nothing of.  Runs take *)
(* turns (module LeaseLock), so a run is a step; its reads fail, its save  *)
(* is lost, and an operator runs it again.                                 *)
(***************************************************************************)
EXTENDS Naturals, FiniteSets, Functions, Artifact

CONSTANTS Comments,     \* plain comments of the author
          Commands,     \* commands
          Reviews,      \* reviews of the reviewer, and dismissals of reviews
          Flawed,       \* artifacts to look at beside what the observers make today
          Overlap,      \* DEFERRED_DISCOVERY_OVERLAP_SECONDS
          MissingAfter, \* 24 hours: can_mark_observer_run_missing
          Correlation,  \* 30 minutes: correlate_candidate_observer_runs, window_end
          Window,       \* DEFERRED_DISCOVERY_BOOTSTRAP_WINDOW_SECONDS
          Retention,    \* retention-days of the artifacts
          MaxTime,      \* bound: the clock
          MaxEvents,    \* bound: events that happen
          MaxFaults,    \* bound: reads and saves that fail, events that change, runs that are late
          MaxReruns     \* bound: runs that an operator starts again

Events == Comments \union Commands \union Reviews

ASSUME DeferredAssumption ==
  /\ Flawed \subseteq Artifacts \ {Exact}
  /\ Comments \intersect Commands = {} /\ (Comments \union Commands) \intersect Reviews = {}
  /\ {Overlap, MissingAfter, Correlation, Window, Retention, MaxTime, MaxEvents, MaxFaults, MaxReruns} \subseteq Nat
  /\ Correlation < MissingAfter
  /\ 0 < Overlap /\ Overlap <= MissingAfter /\ MissingAfter <= Window /\ Window <= MaxTime

VARIABLES clock,
          made,     \* when an event happened; Never if it has not
          shown,    \* events that GitHub lists
          live,     \* what GitHub shows of an event against the artifact
          run,      \* the observer run of an event
          started,  \* when that run was created; Never if it was not
          artifact, \* what it left
          due,      \* events whose reconcile run is still to come
          saved,    \* the row of the pull request
          swept,    \* when a sweep last went well
          faults, reruns,
          answered, \* history: commands that ran to their end with nothing to change
          missed    \* history: events withdrawn before the row knew of them

vars == <<clock, made, shown, live, run, started, artifact, due, saved, swept, faults, reruns,
          answered, missed>>

Never == MaxTime + 1
Surfaces == {"comments", "reviews"}
SurfaceOf(e) == IF e \in Reviews THEN "reviews" ELSE "comments"

\* "empty": a success without an artifact
Over == {"good", "empty", "failed"}
RunStates == {"none", "waiting"} \union Over

Waiting == {"awaiting_observer_run", "observer_in_progress"}
\* "artifact" stands for artifact_missing, _invalid and _expired.
Reasons == Waiting \union {"observer_run_missing", "observer_state_unknown", "observer_failed",
                           "artifact", "reconcile_failed_closed"}

Init ==
  /\ clock = Window /\ made = [e \in Events |-> Never] /\ shown = {}
  /\ live = [e \in Events |-> "same"] /\ run = [e \in Events |-> "none"]
  /\ started = [e \in Events |-> Never]
  /\ artifact = [e \in Events |-> Exact] /\ due = {}
  \* seen: keys accepted in a channel; closed: reconciled_source_events;
  \* receipts: of replayed commands whose save was required; applied: how
  \* often a command's effect is in the state; safe: last_safe_event_time
  /\ saved = [seen |-> {}, gaps |-> <<>>, closed |-> {}, receipts |-> {},
              applied |-> [c \in Commands |-> 0], safe |-> [s \in Surfaces |-> Never]]
  /\ swept = Window /\ faults = 0 /\ reruns = 0 /\ answered = {} /\ missed = {}

-----------------------------------------------------------------------------
(* The row *)

\* record_deferred_gap_diagnostic keeps the fields it does not set.
Gap(s, e, reason) ==
  LET scanned == e \in DOMAIN s.gaps /\ s.gaps[e].scanned
  IN  [s EXCEPT !.gaps = [k \in DOMAIN @ \union {e} |->
                            IF k = e THEN [reason |-> reason, scanned |-> scanned] ELSE @[k]]]
Cleared(s, e) == [s EXCEPT !.gaps = Restrict(@, DOMAIN @ \ {e})]
Close(s, e) == [Cleared(s, e) EXCEPT !.closed = @ \union {e}]
See(s, e) == [s EXCEPT !.seen = @ \union {e}]

\* What a row knows of.
Known(s) == s.seen \union s.closed \union DOMAIN s.gaps

-----------------------------------------------------------------------------
(* Reconcile: one event replayed *)

Failed(s, e) == Gap(s, e, "reconcile_failed_closed")

\* _reconcile_deferred_comment, plain text: what the artifact says of it counts
\* even where GitHub no longer shows it; only a command is ever marked as done.
CommentReplayed(s, e, readable) ==
  IF readable /\ live[e] = "same" THEN See(s, e) ELSE Failed(See(s, e), e)

\* The same for a command: a receipt of an execution whose save was required
\* closes the event when it is found again; an execution that changes nothing
\* closes it at once; one that breaks off leaves a gap and no receipt.
BadCommandReplayed(s, e, readable, does) ==
  CASE ~readable \/ live[e] # "same" -> Failed(s, e)
    [] does = "changes" -> [s EXCEPT !.applied[e] = @ + 1, !.receipts = @ \union {e}]
    [] does = "answers" -> Close(s, e)
    [] OTHER -> Failed(s, e)
CommandReplayed(s, e, readable, does) ==
  CASE ~readable \/ live[e] # "same" -> Failed(s, e)
    [] readable /\ live[e] = "same" /\ e \in s.receipts -> Close(s, e)
    [] OTHER -> CASE does = "changes" -> [s EXCEPT !.applied[e] = @ + 1, !.receipts = @ \union {e}]
                  [] does = "answers" -> Close(s, e)
                  [] OTHER -> Failed(s, e)

\* _handle_review_submitted_workflow_run, _handle_review_dismissed_workflow_run:
\* the live review must still be of the reviewer and of the head, the time of a
\* dismissal exact; what was accepted stays if the rebuild fails.
ReviewReplayed(s, e, readable) ==
  CASE live[e] # "same" -> Failed(s, e)
    [] live[e] = "same" /\ readable -> Close(See(s, e), e)
    [] OTHER -> Failed(See(s, e), e)

\* classify_artifact_gap_reason
Expired(e) == clock >= started[e] + Retention

\* load_deferred_payload
Loaded(e) == run[e] \in {"good", "failed"} /\ ~Expired(e)
Parsed(e) == Parses(artifact[e], e \notin Reviews)

\* Of a run that did not succeed nothing is replayed.
NotSuccess(s, e) == IF Recovers(artifact[e]) THEN Gap(s, e, "observer_failed") ELSE s

\* What cannot be parsed leaves a gap if it tells of which event it is.
NotParsed(s, e, fails) ==
  CASE ~(Recovers(artifact[e]) /\ OfRun(artifact[e])) -> s
    [] "pr" \in fails /\ Recovers(artifact[e]) /\ OfRun(artifact[e]) -> Failed(s, e)
    [] OTHER -> Gap(s, e, "artifact")

\* _workflow_run_handler_for_payload: each first asks whose artifact it is.
Handled(s, e, readable, does) ==
  CASE ~OfRun(artifact[e]) -> Failed(s, e)
    [] OfRun(artifact[e]) /\ e \in Comments -> CommentReplayed(s, e, readable)
    [] OfRun(artifact[e]) /\ e \in Commands -> CommandReplayed(s, e, readable, does)
    [] OTHER -> ReviewReplayed(s, e, readable)

\* handle_workflow_run_event_result.  "pr" and "event" cannot be read if they
\* are among the fails; "save": nothing is saved.
Replayed(s, e, fails, does) ==
  CASE ~Loaded(e) -> s
    [] Loaded(e) /\ run[e] = "failed" -> NotSuccess(s, e)
    [] Loaded(e) /\ run[e] = "good" /\ ~Parsed(e) -> NotParsed(s, e, fails)
    [] OTHER -> CASE "pr" \in fails -> Failed(s, e)
                  [] "pr" \notin fails /\ ~Admitted(artifact[e]) -> Gap(s, e, "artifact")
                  [] OTHER -> Handled(s, e, "event" \notin fails, does)

Executes(e, fails) ==
  /\ e \in Commands \ saved.receipts /\ live[e] = "same" /\ {"pr", "event"} \intersect fails = {}
  /\ run[e] = "good" /\ Loaded(e) /\ Parsed(e) /\ Admitted(artifact[e]) /\ OfRun(artifact[e])

Outcomes == {"changes", "answers", "breaks"}
Fail(fails) == faults + Cardinality(fails) <= MaxFaults /\ faults' = faults + Cardinality(fails)

Reconcile(e, fails, does) ==
  /\ e \in due /\ Fail(fails)
  /\ e \in Commands \/ does = "answers"
  /\ due' = due \ {e}
  /\ saved' = IF "save" \in fails THEN saved ELSE Replayed(saved, e, fails, does)
  /\ answered' = IF Executes(e, fails) /\ does = "answers" THEN answered \union {e} ELSE answered
  /\ UNCHANGED <<clock, made, shown, live, run, started, artifact, swept, reruns, missed>>

-----------------------------------------------------------------------------
(* The sweeper *)

\* begin_observer_surface_scan
BadFloor(s, surface) == IF s.safe[surface] = Never THEN clock - Window ELSE s.safe[surface]
Floor(s, surface) ==
  LET bootstrap == clock - Window
      overlap == IF s.safe[surface] = Never THEN 0 ELSE s.safe[surface] - Overlap
  IN  IF overlap > bootstrap THEN overlap ELSE bootstrap
\* A deleted comment is no longer listed, and a dismissed review is left out.
Discovered(s, surface) ==
  {e \in shown : live[e] # "gone" /\ SurfaceOf(e) = surface /\ made[e] >= Floor(s, surface)}

\* _should_skip_discovered_key
Skipped(s, e) == e \in s.closed \/ (e \notin DOMAIN s.gaps /\ e \in s.seen)

\* correlate_candidate_observer_runs: the run of the event, if the runs can be
\* read and it was created in time; one created later is no candidate.
Correlated(e, readable) ==
  CASE ~readable -> "unreadable"
    [] readable /\ run[e] # "none" /\ started[e] <= made[e] + Correlation -> run[e]
    [] OTHER -> "none"

\* correlate_run_artifacts_exact
HasArtifact(e) == run[e] = "good" /\ Loaded(e) /\ Matches(artifact[e])

\* can_mark_observer_run_missing: long enough ago, and not on the first look.
BadRunMissing(s, e) == e \in DOMAIN s.gaps /\ s.gaps[e].scanned
RunMissing(s, e) ==
  clock >= made[e] + MissingAfter /\ e \in DOMAIN s.gaps /\ s.gaps[e].scanned

\* evaluate_deferred_gap_state
Reason(s, e, readable) ==
  CASE Correlated(e, readable) = "unreadable" -> "observer_state_unknown"
    [] Correlated(e, readable) = "none" ->
         IF RunMissing(s, e) THEN "observer_run_missing"
         ELSE IF clock < made[e] + MissingAfter THEN "awaiting_observer_run" ELSE "observer_state_unknown"
    [] Correlated(e, readable) = "waiting" -> "observer_in_progress"
    [] Correlated(e, readable) = "failed" -> "observer_failed"
    [] OTHER -> IF HasArtifact(e) THEN "observer_state_unknown" ELSE "artifact"

\* sweep_deferred_gaps: all that was listed is diagnosed, then the safe time is
\* that of the last event listed; a surface that cannot be listed is left alone.
Swept(s, fails) ==
  LET surfaces == Surfaces \ fails
      noted == {e \in UNION {Discovered(s, f) : f \in surfaces} : ~Skipped(s, e)}
      newest(f) == CHOOSE t \in {made[e] : e \in Discovered(s, f)} :
                     \A e \in Discovered(s, f) : made[e] <= t
  IN  [s EXCEPT
        !.gaps = [e \in DOMAIN @ \union noted |->
                    IF e \in noted THEN [reason |-> Reason(s, e, "runs" \notin fails),
                                         scanned |-> "runs" \notin fails]
                    ELSE @[e]],
        !.safe = [f \in Surfaces |-> IF f \in surfaces /\ Discovered(s, f) # {} THEN newest(f) ELSE @[f]]]

Sweep(fails) ==
  /\ Fail(fails)
  /\ saved' = IF "save" \in fails THEN saved ELSE Swept(saved, fails)
  /\ swept' = IF fails \intersect {"save", "comments", "reviews"} = {} THEN clock ELSE swept
  /\ UNCHANGED <<clock, made, shown, live, run, started, artifact, due, reruns, answered, missed>>

-----------------------------------------------------------------------------
(* GitHub and people *)

Happen(e) == /\ made[e] = Never /\ Cardinality({k \in Events : made[k] # Never}) < MaxEvents
             /\ made' = [made EXCEPT ![e] = clock]

\* The event is for an observer run, which may be late, or never start.
Occur(e) == /\ Happen(e)
            /\ UNCHANGED <<clock, shown, live, run, started, artifact, due, saved, swept, faults, reruns, answered, missed>>

\* The direct job of the router: handled at once; there is nothing to reconcile.
Direct(e, fails) ==
  /\ e \notin Reviews /\ Happen(e) /\ Fail(fails)
  /\ run' = [run EXCEPT ![e] = "empty"] /\ started' = [started EXCEPT ![e] = clock]
  /\ saved' = CASE "save" \in fails -> saved
                [] "save" \notin fails /\ e \in Comments -> See(saved, e)
                [] OTHER -> [saved EXCEPT !.applied[e] = @ + 1]
  /\ UNCHANGED <<clock, shown, live, artifact, due, swept, reruns, answered, missed>>

Appear(e) == /\ made[e] # Never /\ e \notin shown /\ shown' = shown \union {e}
             /\ UNCHANGED <<clock, made, live, run, started, artifact, due, saved, swept, faults, reruns, answered, missed>>

\* Edited, or of a head that is no longer the head; or withdrawn: a comment that
\* is deleted, a review that is dismissed.
Fade(e) == /\ made[e] # Never /\ Fail({e})
           /\ \E l \in {"other", "gone"} :
                /\ live[e] = "same" \/ (live[e] = "other" /\ l = "gone")
                /\ live' = [live EXCEPT ![e] = l]
                /\ missed' = IF l = "gone" /\ e \notin Known(saved) THEN missed \union {e} ELSE missed
           /\ UNCHANGED <<clock, made, shown, run, started, artifact, due, saved, swept, reruns, answered>>

\* GitHub may create the run at any time after the event.
Start(e) == /\ run[e] = "none" /\ made[e] # Never
            /\ run' = [run EXCEPT ![e] = "waiting"] /\ started' = [started EXCEPT ![e] = clock]
            /\ Fail({k \in {e} : clock > made[k] + Correlation})
            /\ UNCHANGED <<clock, made, shown, live, artifact, due, saved, swept, reruns, answered, missed>>

End(e) == /\ run[e] = "waiting"
          /\ \E r \in Over, a \in {Exact} \union Flawed :
               /\ r = "empty" => a = Exact
               /\ run' = [run EXCEPT ![e] = r] /\ artifact' = [artifact EXCEPT ![e] = a]
               /\ Fail({a} \ {Exact})
               /\ due' = IF r = "empty" THEN due ELSE due \union {e}
          /\ UNCHANGED <<clock, made, shown, live, started, saved, swept, reruns, answered, missed>>

\* The operator runs a reconcile again.
Rerun(e) == /\ run[e] = "good" /\ e \notin due /\ reruns < MaxReruns
            /\ reruns' = reruns + 1 /\ due' = due \union {e}
            /\ UNCHANGED <<clock, made, shown, live, run, started, artifact, saved, swept, faults, answered, missed>>

\* GitHub lists an event before the overlap has passed, and the sweeps go well
\* often enough for the window.
Tick == /\ clock < MaxTime /\ clock + 1 + Overlap <= swept + Window
        /\ \A e \in Events \ shown : clock < made[e] + Overlap
        /\ clock' = clock + 1
        /\ UNCHANGED <<made, shown, live, run, started, artifact, due, saved, swept, faults, reruns, answered, missed>>

World == \/ Tick
         \/ \E e \in Events : Occur(e) \/ Appear(e) \/ Fade(e) \/ Start(e) \/ End(e) \/ Rerun(e)
Bot == \/ \E e \in Events, fails \in SUBSET {"save"} : Direct(e, fails)
       \/ \E e \in Events, fails \in SUBSET {"pr", "event", "save"}, does \in Outcomes :
            Reconcile(e, fails, does)
       \/ \E fails \in SUBSET {"comments", "reviews", "runs", "save"} : Sweep(fails)
Next == World \/ Bot
Spec == Init /\ [][Next]_vars

-----------------------------------------------------------------------------
(* Properties *)

DeferredTypeOK ==
  /\ clock \in Window .. MaxTime /\ made \in [Events -> 0 .. Never] /\ shown \subseteq Events
  /\ live \in [Events -> {"same", "other", "gone"}] /\ run \in [Events -> RunStates]
  /\ started \in [Events -> 0 .. Never] /\ due \subseteq Events
  /\ artifact \in [Events -> {Exact} \union Flawed]
  /\ saved.seen \subseteq Events /\ saved.closed \subseteq Events /\ saved.receipts \subseteq Commands
  /\ DOMAIN saved.gaps \subseteq Events
  /\ \A e \in DOMAIN saved.gaps : saved.gaps[e].reason \in Reasons /\ saved.gaps[e].scanned \in BOOLEAN
  /\ saved.applied \in [Commands -> 0 .. MaxReruns + 1]
  /\ saved.safe \in [Surfaces -> 0 .. Never]
  /\ swept \in Window .. clock /\ faults \in 0 .. MaxFaults /\ reruns \in 0 .. MaxReruns
  /\ answered \subseteq Commands /\ missed \subseteq Events

\* However often its run is repeated, and whatever saves were lost, the effect
\* of a command is in the state at most once.
AppliedOnce == DeferredTypeOK /\ \A c \in Commands : saved.applied[c] <= 1

\* What the row says is so.  What it has as reconciled was done: a review was
\* accepted; a command ran to its end, with its effect in the state or nothing to
\* change.  And it never calls an observer run missing that GitHub created in
\* time, however long after the look that said so: one that it calls missing does
\* not exist, or was created too late to be correlated with its event.
RowIsTrue ==
  /\ \A e \in saved.closed : /\ e \notin Comments
                             /\ e \in Reviews => e \in saved.seen
                             /\ e \in Commands => saved.applied[e] = 1 \/ e \in answered
  /\ \A e \in DOMAIN saved.gaps : saved.gaps[e].reason = "observer_run_missing" =>
       run[e] = "none" \/ started[e] > made[e] + Correlation

\* Nothing is lost that GitHub still shows, or showed until the row knew of it:
\* what happened, even if GitHub lists it late and runs and saves are lost, is
\* taken in, done, or noted as a gap, at the latest by the first good sweep after
\* the overlap, and stays so when it is withdrawn later.
Accounted == \A e \in Events : made[e] + Overlap < swept => e \in Known(saved) \union missed

\* What a reconcile run takes in, or does, is of an event that was handed to it
\* by an artifact of that event, of today's observer, of the very run that it
\* followed; legacy and foreign artifacts are never replayed.
TakenIn(e) ==
  \/ e \in (saved'.seen \union saved'.closed) \ (saved.seen \union saved.closed)
  \/ e \in Commands /\ saved'.applied[e] # saved.applied[e]
TakenFromItsRun ==
  [][\A e \in Events : TakenIn(e) /\ made[e] # Never =>
       /\ run[e] = "good" /\ artifact[e].version = 3
       /\ Aspects \ {"told"} \subseteq artifact[e].right]_vars
=============================================================================
