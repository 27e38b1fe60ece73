----------------------------- MODULE Privileged -----------------------------
(***************************************************************************)
(* The command /accept-no-fls-changes on one FLS audit issue: the comment  *)
(* leaves a pending record in the bot's state, and a workflow a person     *)
(* dispatches looks at the issue again, repeats the audit, updates         *)
(* src/spec.lock, pushes a branch and opens a pull request. Between any    *)
(* two of its steps the FLS may be deployed anew, guidelines merged, the   *)
(* label removed or the permission withdrawn.                              *)
(***************************************************************************)
EXTENDS Naturals, FiniteSets, SpecLock

CONSTANTS
    Keys,           \* the comments that give the command
    MaxDay,         \* bound: the last day
    MaxMoves,       \* bound: deployments of the FLS
    MaxFaults,      \* bound: calls that fail and saves that are lost
    FirstDoc,       \* the FLS at the start
    FirstCites      \* the ids the guidelines cite at the start

VARIABLES
    live,           \* the FLS: its document and its deployment
    main,           \* the default branch: its lock and the ids it cites
    issue,          \* the issue: is it open, and is the command allowed on
                    \* it: the label is there, the author has the permission
    today,
    saved,          \* the saved record of each command
    recorded,       \* the commands that were recorded at least once
    branch,         \* the bot's branch of each day
    pulls,          \* the pull requests for these branches
    phase,          \* the privileged run: where it is,
    key,            \*   the command it was dispatched for,
    tree,           \*   the tree it checked out,
    audited,        \*   the document its audit saw,
    draft,          \*   the lock it wrote,
    day,            \*   the date in its branch's name,
    entitled,       \*   what the issue and the permission said at its start,
    outcome,        \*   the record it is about to save
    torn,           \* commands with a run that did not save what it did
    faults

world == <<live, main, issue, today>>
records == <<saved, recorded, torn>>
remote == <<branch, pulls>>
run == <<phase, key, tree, audited, draft, day, entitled, outcome>>
vars == <<world, records, remote, run, faults>>

Days == 0..MaxDay
Deployments == 0..MaxMoves
Locks == [doc : Documents, at : Deployments \cup {None}, before : Deployments \cup {None}]
Trees == [lock : Locks, cites : SUBSET Ids]
Results == {"opened_pull_request", "already_up_to_date", "authorization",
            "audit_reported_guideline_impact", "audit_failed", "update_failed",
            "branch_or_push_failed", "pull_request_creation_failed"}
Records == [status : {"pending", "executed", "failed_closed"},
            result : Results \cup {None}, pull : Days \cup {None}]
Branches == [lock : Locks, base : Locks, key : Keys]
Pulls == [day : Days, key : Keys, by : {"bot", "person"},
          state : {"open", "merged"}]
Phases == {"idle", "checkout", "audit", "update", "push", "pull", "save"}

ASSUME PrivilegedAssumption ==
    /\ FirstDoc \in Documents
    /\ FirstCites \in SUBSET Ids
    /\ MaxDay \in Nat /\ MaxMoves \in Nat /\ MaxFaults \in Nat
    /\ None \notin Results

PrivilegedTypeOK ==
    /\ live \in [doc : Documents, at : Deployments]
    /\ main \in Trees
    /\ issue \in [open : BOOLEAN, allowed : BOOLEAN]
    /\ today \in Days
    /\ saved \in [Keys -> Records \cup {None}]
    /\ recorded \in SUBSET Keys
    /\ branch \in [Days -> Branches \cup {None}]
    /\ pulls \in SUBSET Pulls
    /\ phase \in Phases
    /\ key \in Keys \cup {None}
    /\ tree \in Trees \cup {None}
    /\ audited \in Documents \cup {None}
    /\ draft \in Locks \cup {None}
    /\ day \in Days
    /\ entitled \in BOOLEAN
    /\ outcome \in Records \cup {None}
    /\ torn \in SUBSET Keys
    /\ faults \in 0..MaxFaults

FirstLock == [doc |-> FirstDoc, at |-> 0, before |-> None]

AtRest ==
    /\ phase = "idle"   /\ key = None     /\ tree = None  /\ audited = None
    /\ draft = None     /\ day = 0        /\ entitled = FALSE
    /\ outcome = None

Init ==
    /\ live = [doc |-> FirstDoc, at |-> 0]
    /\ main = [lock |-> FirstLock, cites |-> FirstCites]
    /\ issue = [open |-> TRUE, allowed |-> TRUE]
    /\ today = 0
    /\ saved = [k \in Keys |-> None]
    /\ recorded = {} /\ torn = {}
    /\ branch = [d \in Days |-> None]
    /\ pulls = {}
    /\ AtRest
    /\ faults = 0

OpenPull(d) == {p \in pulls : p.day = d /\ p.state = "open"}

-----------------------------------------------------------------------------
(* What the world does.                                                    *)

\* One paragraph is written, rewritten or removed, or one section comes or
\* goes, and the FLS is deployed; a deployment may also change nothing.
Edits(doc) ==
    {d \in Documents :
        /\ Known(d) # {}
        /\ Cardinality(Differing(d, doc)
              \cup (d.sections \ doc.sections) \cup (doc.sections \ d.sections)) <= 1}

Deploy ==
    /\ live.at < MaxMoves
    /\ \E doc \in Edits(live.doc) : live' = [doc |-> doc, at |-> live.at + 1]
    /\ UNCHANGED <<main, issue, today, records, remote, run, faults>>

Tomorrow ==
    /\ today < MaxDay
    /\ today' = today + 1
    /\ UNCHANGED <<live, main, issue, records, remote, run, faults>>

\* The label or the permission is given or taken away.
Allow ==
    /\ issue' = [issue EXCEPT !.allowed = ~ @]
    /\ UNCHANGED <<live, main, today, records, remote, run, faults>>

\* A person closes the issue; nobody opens it again.
CloseIssue ==
    /\ issue.open
    /\ issue' = [issue EXCEPT !.open = FALSE]
    /\ UNCHANGED <<live, main, today, records, remote, run, faults>>

\* A person merges a guideline, alone or with a lock brought up to date; the
\* build of its pull request checks the ids it cites against the live FLS.
MergeGuideline ==
    /\ \E id \in Known(live.doc) \ main.cites,
          lock \in {main.lock, Updated(live.doc, live.at, main.lock)} :
           LET merged == [lock |-> lock, cites |-> main.cites \cup {id}] IN
           /\ Builds("nonblocking", live.doc, merged)
           /\ main' = merged
    /\ UNCHANGED <<live, issue, today, records, remote, run, faults>>

\* A pull request is merged, which closes the issue it names, unless the lock
\* has changed meanwhile; the branch may be deleted.
MergePull(d) ==
    /\ OpenPull(d) # {}
    /\ main.lock = branch[d].base
    /\ main' = [main EXCEPT !.lock = branch[d].lock]
    /\ issue' = [issue EXCEPT !.open = FALSE]
    /\ pulls' = {IF p \in OpenPull(d) THEN [p EXCEPT !.state = "merged"] ELSE p : p \in pulls}
    /\ branch' \in {branch, [branch EXCEPT ![d] = None]}
    /\ UNCHANGED <<live, today, records, run, faults>>

\* A person opens one for the branch the run has just pushed.
OpenByHand ==
    /\ phase = "pull" /\ branch[day] # None /\ OpenPull(day) = {}
    /\ pulls' = pulls \cup {[day |-> day, key |-> key, by |-> "person", state |-> "open"]}
    /\ UNCHANGED <<world, records, branch, run, faults>>

-----------------------------------------------------------------------------
(* The bot's ordinary runs, which wait while the privileged run has the    *)
(* lease.                                                                  *)

Pending == [status |-> "pending", result |-> None, pull |-> None]

LeaseFree == phase \in {"idle", "checkout"}

\* A check that trusts what was allowed when the command was recorded.
BadAllowed == TRUE

Allowed == issue.allowed

\* The comment is handled, or its workflow is run again: the record is put
\* whatever was there.
RecordCommand(k) ==
    /\ LeaseFree
    /\ issue.open
    /\ Allowed
    /\ saved' = [saved EXCEPT ![k] = Pending]
    /\ recorded' = recorded \cup {k}
    /\ torn' = IF k \in recorded THEN torn \cup {k} ELSE torn
    /\ UNCHANGED <<world, remote, run, faults>>

\* The event of the closed issue removes its row, with the records.
ForgetIssue ==
    /\ LeaseFree
    /\ ~ issue.open
    /\ saved' = [k \in Keys |-> None]
    /\ UNCHANGED <<world, recorded, torn, remote, run, faults>>

-----------------------------------------------------------------------------
(* The privileged run.                                                     *)

Fault == faults < MaxFaults /\ faults' = faults + 1
NoFault == UNCHANGED faults

Dispatch(k) ==
    /\ phase = "idle"
    /\ phase' = "checkout" /\ key' = k /\ tree' = main
    /\ UNCHANGED <<world, records, remote, audited, draft, day, entitled, outcome, faults>>

\* What the run no longer needs.
Forgotten == tree' = None /\ audited' = None /\ draft' = None /\ entitled' = FALSE

\* The run ends and leaves nothing behind.
RunEnds == phase' = "idle" /\ key' = None /\ Forgotten /\ day' = 0 /\ outcome' = None

\* The run has its result and goes on to save it.
Settles(status, result, pull) ==
    /\ phase' = "save"
    /\ outcome' = [status |-> status, result |-> result, pull |-> pull]
    /\ Forgotten /\ day' = 0 /\ UNCHANGED key

Fails(result) == Settles("failed_closed", result, None)

BadExecutable(k) == saved[k] # None

\* A record that is missing is an error, one that is settled is left alone.
Executable(k) == saved[k] # None /\ saved[k].status = "pending"

\* The lease is taken, the state loaded, and the issue and the permission
\* looked at again; an answer that does not come fails the command as well.
Check ==
    /\ phase = "checkout"
    /\ \/ ~ Executable(key) /\ RunEnds /\ NoFault
       \/ Executable(key) /\ (Fails("authorization") /\ (IF Allowed THEN Fault ELSE NoFault))
       \/ /\ Executable(key) /\ Allowed
          /\ phase' = "audit" /\ entitled' = issue.allowed
          /\ UNCHANGED <<key, tree, audited, draft, day, outcome>>
          /\ NoFault
    /\ UNCHANGED <<world, records, remote>>

\* fls_audit.py --summary-only --fail-on-impact on the tree checked out.
Audit ==
    /\ phase = "audit"
    /\ \/ Fails("audit_failed") /\ Fault
       \/ /\ Affected(live.doc, tree.lock.doc, tree.cites) # {}
          /\ Fails("audit_reported_guideline_impact") /\ NoFault
       \/ /\ Affected(live.doc, tree.lock.doc, tree.cites) = {}
          /\ phase' = "update" /\ audited' = live.doc
          /\ UNCHANGED <<key, tree, draft, day, entitled, outcome>>
          /\ NoFault
    /\ UNCHANGED <<world, records, remote>>

\* make.py --update-spec-lock-file: the FLS is read once more.
Update ==
    /\ phase = "update"
    /\ \/ Fails("update_failed") /\ Fault
       \/ \E deployment \in {live.at, None} :
             LET lock == Updated(live.doc, deployment, tree.lock) IN
             /\ IF deployment = None THEN Fault ELSE NoFault
             /\ IF lock = tree.lock
                THEN Settles("executed", "already_up_to_date", None)
                ELSE /\ phase' = "push" /\ draft' = lock /\ day' = today
                     /\ UNCHANGED <<key, tree, audited, entitled, outcome>>
    /\ UNCHANGED <<world, records, remote>>

\* A branch of that name that is there already is another history: the push
\* is rejected.
Push ==
    /\ phase = "push"
    /\ \/ /\ Fails("branch_or_push_failed")
          /\ IF branch[day] # None THEN NoFault ELSE Fault
          /\ UNCHANGED branch
       \/ /\ branch[day] = None
          /\ branch' = [branch EXCEPT ![day] =
                 [lock |-> draft, base |-> tree.lock, key |-> key]]
          /\ phase' = "pull"
          /\ Forgotten /\ UNCHANGED <<key, day, outcome>>
          /\ NoFault
    /\ UNCHANGED <<world, records, pulls>>

Opened == [day |-> day, key |-> key, by |-> "bot", state |-> "open"]

\* The branch is there and has something that is not merged.
Proposable ==
    branch[day] # None /\ ~ \E p \in pulls : p.day = day /\ p.key = key /\ p.state = "merged"

\* A pull request whose creation is not looked at.
BadPull ==
    /\ phase = "pull"
    /\ \/ /\ OpenPull(day) # {}
          /\ Settles("executed", "opened_pull_request", day)
          /\ NoFault /\ UNCHANGED <<pulls, torn>>
       \/ /\ OpenPull(day) = {}
          /\ pulls' \in {pulls, pulls \cup {Opened}}
          /\ Settles("executed", "opened_pull_request", day)
          /\ UNCHANGED torn
          /\ IF pulls' = pulls THEN Fault ELSE NoFault
    /\ UNCHANGED <<world, saved, recorded, branch>>

\* An open pull request for the branch is taken over. When that cannot be
\* found out the run raises and saves nothing; the answer to the creation may
\* be lost although the pull request was made.
Pull ==
    /\ phase = "pull"
    /\ \/ /\ RunEnds /\ Fault
          /\ torn' = torn \cup {key} /\ UNCHANGED pulls
       \/ /\ OpenPull(day) # {}
          /\ Settles("executed", "opened_pull_request", day)
          /\ NoFault /\ UNCHANGED <<pulls, torn>>
       \/ /\ OpenPull(day) = {} /\ Proposable
          /\ pulls' = pulls \cup {Opened}
          /\ \/ Settles("executed", "opened_pull_request", day) /\ NoFault /\ UNCHANGED torn
             \/ Fails("pull_request_creation_failed") /\ Fault /\ torn' = torn \cup {key}
       \/ /\ OpenPull(day) = {}
          /\ Fails("pull_request_creation_failed")
          /\ IF Proposable THEN Fault ELSE NoFault
          /\ UNCHANGED <<pulls, torn>>
    /\ UNCHANGED <<world, saved, recorded, branch>>

\* The state is saved at the end of the run, or the save is lost.
Save ==
    /\ phase = "save"
    /\ \/ /\ saved' = [saved EXCEPT ![key] = outcome]
          /\ NoFault /\ UNCHANGED torn
       \/ Fault /\ UNCHANGED saved /\ torn' = torn \cup {key}
    /\ RunEnds
    /\ UNCHANGED <<world, recorded, remote>>

Next ==
    \/ Deploy \/ Tomorrow \/ Allow \/ CloseIssue \/ MergeGuideline
    \/ \E d \in Days : MergePull(d)
    \/ \E k \in Keys : RecordCommand(k) \/ Dispatch(k)
    \/ OpenByHand \/ ForgetIssue
    \/ Check \/ Audit \/ Update \/ Push \/ Pull \/ Save

Spec == Init /\ [][Next]_vars

-----------------------------------------------------------------------------
(* What the command promises.                                              *)

\* No cited paragraph of the old lock is gone or different in the new one.
Intact(old, new, cites) ==
    \A id \in cites \cap DOMAIN old.paragraphs :
        /\ id \in DOMAIN new.paragraphs
        /\ new.paragraphs[id] = old.paragraphs[id]

\* The lock a run is about to push leaves every paragraph the guidelines of its
\* tree cite as it was, unless the FLS was deployed between the audit and the
\* update, which read it separately (automation.py:247 and :270).
UnaffectedUnlessMoved ==
    phase = "push" /\ draft.doc = audited =>
        Intact(tree.lock.doc, draft.doc, tree.cites)

\* A command that is recorded as executed with a pull request has one: the
\* record names a pull request that was opened for the bot's branch of the day
\* it was executed (automation.py:128).
ExecutedIsTrue ==
    \A k \in Keys : saved[k] # None /\ saved[k].result = "opened_pull_request" =>
        \E p \in pulls : p.key = k /\ p.day = saved[k].pull

\* Unless a run did not save what it did, or the record was put back by
\* running the comment's workflow again, a command opens at most one pull
\* request however often it is dispatched, and none if it is recorded as
\* failed (maintenance_privileged.py:22).
SettledOnce ==
    \A k \in Keys \ torn :
        LET own == {p \in pulls : p.key = k /\ p.by = "bot"} IN
        /\ Cardinality(own) <= 1
        /\ saved[k] # None /\ saved[k].status = "failed_closed" => own = {}

\* No branch is pushed by a run that did not itself find the label on the
\* issue and the permission granted: what held when the command was recorded
\* is not enough (privileged_command_policy.py:382).
PushesAreEntitled ==
    [][\A d \in Days : branch'[d] \notin {None, branch[d]} => entitled]_vars
=============================================================================
