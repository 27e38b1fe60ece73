------------------------------ MODULE Artifact ------------------------------
(***************************************************************************)
(* The artifact of an observer run: what makes it fit for a replay         *)
(* (scripts/reviewer_bot_lib: reconcile_payloads.py, reconcile.py,         *)
(* sweeper_observer_correlation.py).  It is abstracted to its version and  *)
(* to what is right about it.                                              *)
(***************************************************************************)

\* fits:     payload_kind is known, and of the event's name and action
\* complete: all that the kind requires is there and well formed
\* keyed:    source_event_key is that of the object in it
\* told:     event, pull request, object, actor and time can be made out
\* source:   workflow and artifact have the names of the contract
\* attempt:  it is of the run, and the attempt, that was awaited
Aspects == {"fits", "complete", "keyed", "told", "source", "attempt"}
Versions == {2, 3}
Artifacts == [version : Versions, right : SUBSET Aspects]

\* What the observer workflows make today.
Exact == [version |-> 3, right |-> Aspects]

\* _build_deferred_identity, _validate_identity_contract: version 2 told no
\* kind, and was for comments only.
Identified(a, comment) == IF a.version = 2 THEN comment ELSE "fits" \in a.right

\* _validate_deferred_..._artifact
Complete(a, comment) == "complete" \in a.right /\ (a.version = 2 => comment)

\* _validate_identity_object_key, _canonical_source_event_key
Keyed(a) == "keyed" \in a.right

\* parse_deferred_context_payload
Parses(a, comment) == Identified(a, comment) /\ Complete(a, comment) /\ Keyed(a)

\* recover_deferred_payload_identity
Recovers(a) == Keyed(a) /\ "told" \in a.right

\* validate_triggering_run_identity
OfRun(a) == "attempt" \in a.right

\* derive_deferred_artifact_source_authority
Authority(a) ==
  CASE a.version = 2 -> "trusted_legacy_identity"
    [] a.version = 3 /\ "source" \notin a.right -> "blocked_source_mismatch"
    [] OTHER -> "trusted_exact_identity"

\* build_workflow_run_replay_admission
BadAdmitted(a) == Authority(a) # "blocked_source_mismatch"
Admitted(a) == Authority(a) = "trusted_exact_identity"

\* _matching_payload: the sweeper looks for no more than that.
Matches(a) == {"keyed", "told", "attempt"} \subseteq a.right
=============================================================================
