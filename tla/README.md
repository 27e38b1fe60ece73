# Formal models of the coding-guidelines tooling

TLA+ models of the programs kept beside the Safety-Critical Rust coding
guidelines: above all the *reviewer bot* (`src/scripts/reviewer_bot_lib`,
`src/scripts/reviewer_bot_core`), a program without a server.  Every event on
GitHub starts a workflow run; every run is a fresh process; all they share is
what is on GitHub.  What makes it hard is not the amount of state but that
nothing it talks to is transactional.

## The system

| Component | State it keeps | Operations | Model |
|---|---|---|---|
| Lease lock (`lease_lock.py`, `lock_codec.py`) | commits on a git ref: holder, token, expiry; the run's `ACTIVE_LEASE_CONTEXT` | acquire, confirm, check freshness, renew, release | `Lease`, `LeaseLock`, `BotRunProofs` |
| State store and run (`state_store.py`, `app.py`) | body of the state issue; a run's copy and `loaded_epoch` | load, revalidate epoch, handle, save with retries, failure receipt, reload, project labels, release | `BotRun`, `BotRunProofs` |
| Reviewer queue (`queue.py`, `members.py`, queue commands of `commands.py`) | `queue`, `current_index`, `pass_until`, per item `current_reviewer`, `assignment_method`, `skipped` | next reviewer, reposition, restore, sync with members.md; `/pass`, `/away`, `/release`, `/claim`, `/r?` | `ReviewerQueue`, `ReviewerProofs` |
| Assignment flow (`assignment_flow.py`, `repair_records.py`) | assignees or requested reviewers on GitHub; tracked reviewer and repair markers in the state | resolve authority, confirm an assignment, confirm a release, mark and unmark | `Assignment`, `ReviewerProofs` |
| Lifecycle events (`lifecycle.py`) | as above and below | opened, labeled, assigned, unassigned, reopened, closed; edited, synchronize | partly, in six modules |
| Review state machine (`review_state_machine.py`, `comment_freshness_policy.py`, ...) | per item: channels of accepted events, cycle, handoff, completion | accept an event, reset the cycle, repair from the live reviews | `ReviewTurn`, `ReviewTurnProofs` |
| Response, approval and status policies (`reviewer_response_policy.py`, `approval_policy.py`, ...) | none of their own | derive whose turn it is, and the completion | `ReviewPolicy`; labels and board not |
| Overdue reviews and reminders (`overdue.py`, `reminder_comments.py`, `maintenance_schedule.py`) | times of warning and notice, scope of a warning | find overdue, warn, post the notice, backfill from comments | `ReminderPromise`, `Reminders`, `RemindersProofs` |
| Deferred events (`reconcile*.py`, `sweeper*.py`, `deferred_gap_*.py`) | gaps, reconciled keys, safe times, replay receipts; artifacts of observer runs | observe, replay, sweep, diagnose, close a gap | `Artifact`, `Deferred`, `DeferredProofs` |
| Comment commands and routing (`event_inputs.py`, `comment_*.py`) | the row of an item | route, authorize, apply directly, replay | `Comments`, `CommentsProofs` |
| Privileged commands (`automation.py`, `maintenance_privileged.py`, `privileged_command_policy.py`) | pending records, branch, pull request | hand off, revalidate, execute, record | `Privileged`, `PrivilegedProofs` |
| FLS audit issue (`fls_audit_issue_lib`) | state in the body of an issue, transition comments, open or closed | find or create the campaign's issue, announce a transition, write the body, close, verify | `AuditIssue`, `AuditIssueProofs` |
| FLS audit report (`fls_audit.py`), spec.lock in the Sphinx extension (`fls_checks.py`, `fls_diff.py`), the builder | `spec.lock` | diff of the lock and the live FLS, affected guidelines, update of the lock | `SpecLock`; rendering not |
| Transport, retries, runtime wiring | none | HTTP with retries | its outcomes are the nondeterminism of the models |
| Maintenance, state health | none | previews, one-off repairs | not modelled: operator tools |
| Guideline scripts, other checks of the extension | none | one-shot text transformation, document checks | not modelled: no interleaving, no persistent state |
| Workflows (`.github/workflows`) | none | start runs, upload artifacts | assumptions of Init and fairness; steps in `Artifact`, `Privileged` |

How the parts interact.  A workflow starts `execute_run`.  A mutating run takes
the lease, loads the state issue, restores whoever is back and syncs the queue,
lets the handler of its event change GitHub call by call and the state in
memory, writes the whole body back if anything was reported as changed,
projects status labels, and releases the lease.  No workflow of the bot has a
`concurrency:` group, so runs really do run side by side; the lease is all that
keeps them apart.  An event on a pull request that must not meet a run with
write permission is put into an artifact by an observer run; its end starts a
reconcile run, and a sweeper looks for events that none of this reached.
People, meanwhile, assign, comment, edit members.md and, at times, the state
issue itself, and ask nobody.

Behaviours that are hard:
* **concurrency**: runs race for the lease; people race with runs;
* **failure**: a call may fail though it took effect, or succeed without effect;
  a run may be killed between any two calls;
* **ordering**: side effects precede the save that records them; events
  arrive late, twice and out of order through the sweeper;
* **staleness**: what was true of a comment, a permission or the FLS when it was
  looked at may have changed when it is acted on;
* **time**: leases run out, writes are retried for longer than that, absences
  end, reminders fall due once a day or never;
* **index arithmetic** of a ring whose members come and go.

`PROJECT.json` lists these as hazards, each at its line.

## Modules

`Lease` is the abstract promise: a lock that at most one run holds; a run that
believes it holds it does.  `LeaseLock` is the protocol of `lease_lock.py` and
is checked and proved to implement it.  `BotRun` EXTENDS `LeaseLock` with
`execute_run`, `load_state` and `save_state`.  The other modules of the bot look at
one run at a time, which is what the first two justify.  `ReviewTurn` EXTENDS
`ReviewPolicy`, `Deferred` EXTENDS `Artifact` and `Privileged` EXTENDS `SpecLock`:
in each pair the second is the state machine and the first the functions it asks.
`ReminderPromise` is the promise that `Reminders` implements.  `MC...` modules hold
values for TLC, nothing else.

What one module leaves to choice another takes apart.  `ReviewerQueue` knows who is
next and lets an assignment succeed or fail; `Assignment` takes that assignment apart
call by call and lets anybody be next; `Comments` decides who may ask for it.
`Deferred` decides whether an event is replayed, `Comments` what a replayed
comment does, and `ReviewTurn` what the order of replayed events does.

### LeaseLock

`ref` is the sequence of values the lock ref has had; a commit is its position
in it, so "parent is the head" is `q.parent = Len(ref)` (`force: False`, GitHub
refuses anything but a fast forward).  The lock's metadata keeps holder and
expiry: token and owner triple both identify the run.  `phase` says where a run
stands in `acquire_`, `renew_` or `release_state_issue_lease_lock`; `sent` is
the commit it is about to publish, `ctxExp` the expiry in `ACTIVE_LEASE_CONTEXT`.
A read and the commit built on it are a step, the ref update another, so every
other run fits between.  Reads may miss the last `Lag` updates.  A failed
update stays on the `wire` and may be applied at any later time, after its run
has moved on or died.  A missing ref is created at the head of a branch whose
commit is no lock metadata (`Foreign`), after which every read raises: the
lock does not recover from that by itself, as in the code (`lock_codec.py:33-43`).

What it relies on: all runs read one clock (the runners' clocks are taken to be
in step; a skew above the renewal window would void the lease), and uuids differ.

### BotRun

The state issue is the set of updates it contains and its epoch.  `pc` walks
`execute_run`; `saves` counts attempts of `save_state`.  The code asks for a
fresh lease, then reads the issue with retries and sleeps, then PATCHes
unconditionally, and nothing ties the PATCH to the lease any more
(`state_store.py:369-380`).  So between the answer (phase "fresh") and `Write` any
time passes and any run may take over; and a PATCH whose run was told of an error, or
died, may be on its way (`posts`) and take effect later still (`LatePatch`).  An update
can be lost in that way.  What the properties say is where the protection ends:
`stored` is what was ever in the issue, `stray` that a PATCH took effect after the ref
had gone to another run or its own run had left that save, and `NoLostUpdate` that
updates are lost only after one of those.  `vouched` is when the lease was last
checked or its renewal built; `WrittenUnderLease` says that a PATCH sent within the
renewal window of that still lies under its run's own lock.  `NoSilentSuccess` says
without exception that a run that succeeds has had its change stored.

### ReviewerQueue

`roster` is the queue, the 0-based cursor and the absences; each action is one run
from `load_state` to `save_state`, `Prepared` being what `execute_run` does
before the handler (restore, then sync, or no sync if members.md cannot be
fetched).  `Report` has the rule that decides whether anything is written:
the handler reported a change, or the preparation had made one.  Loops over a list are
recursive functions (`Among` is the list comprehension, `Restored` the loop over
the absences), so that they can be proved about.

### Assignment

`live` and `tracked` are the two places that say who reviews; `run` is the one
mutating run, with what it read first (`before`), what it has still to remove
(`todo`) and its copy of the state.  Each call to GitHub is a step with its
outcomes: done, failed without effect, failed with effect, refused (422),
silently ignored.  `Human` and `ReviewGiven` may fall between any two of them.
`fresh` and `cut` are history variables for the properties.

### AuditIssue

Not part of the bot: a daily workflow of its own, with a concurrency group, so one
run at a time.  `issues[i]` has the state in the managed part of the body
(`body`), the transition comments (`log`) and the notices; `run` is what
`reconcile` holds between its calls, `start` the state it read and `next` the one it
is about to write.  `Write` has the outcomes of a POST or PATCH: answered; an
error with or without effect; an error with an effect still to come (`wire`).  A
drift stands for the digest of the items, a text for the rest of the report, so a
report may change without a transition.  People close, rename and damage the
issue, and save edit forms that hold an older body (`draft`).  `claim`, `stray` and
`hurt` are history variables: what the last run vouches for, whether a POST took
effect after its run, whether a marker was damaged.

### ReviewPolicy and ReviewTurn

`ReviewPolicy` has what the policies compute from a row and the live reviews: which of
two events of a channel is newer, the review that counts, the completion, and
`Response`, the answer to "whose turn is it".  `ReviewTurn` has the row
(`row.chan` are the channels, `row.handoff` a `/feedback`), what happened on
GitHub (`events`, `reviews`, `head`) and what the bot was told of it (`told`).  An
event may be told at any later time, in any order and again.  Times are
seconds; two events may share one, where the code falls back on keys.

### ReminderPromise and Reminders

`ReminderPromise` says what a reviewer may count on: one warning for a lapse, a
notice only after a warning and a whole period, and no second one to somebody
silent, unless the first is out of the bot's sight (`unseen`).  `Reminders` has the comments as GitHub shows them, with their age in
days, and the saved times and receipts; one scheduled run is a step with four things
that go wrong each on its own: the read of the comments from which the backfill
restores the timer; the reads of the check, which without comments decides all the
same and without the item or its assignees leaves it alone (`Checks`); the post, which
is made, not made, or made without the run knowing; and the save.  The check leaves
out items that are `completed` or whose reviewer GitHub does not confirm (`shown`); the
backfill does not, nor does it ask whether the reminders are exhausted.  Ages stop
counting where nothing depends on them any more.

### Artifact and Deferred

`Artifact` abstracts an observer's artifact to its version and to six aspects that
are right or wrong about it, and has the checks that accept it.  `Deferred` has the
observer run of each event, its artifact, the reconcile runs still to come, and the
row: accepted keys (`seen`), `gaps`, reconciled keys (`closed`), `receipts` and how
often a command's effect is in the state (`applied`).  `Reconcile(e, fails, does)` is
one run with the reads that fail in it; `Sweep(fails)` one sweep.  Simplifications:
"artifact" stands for missing, invalid and expired ones; a run that dies before its
save is one whose save fails; a run handled directly acts at the moment of its event;
GitHub lists an event before the overlap is over (`Tick`); runs of other
events in the same half hour are no candidates; the missing row of a pull request is not
reconstructed.  An observer run is created at any time after its event (`started`);
the sweeper correlates it only up to `Correlation` later (30 minutes in the code), and
calls one that came after that missing although it exists.  An event may be edited
("other") or withdrawn ("gone": a deleted comment, a dismissed review), after which
the sweeper no longer finds it; `missed` are those withdrawn before the row knew of
them.  `missed` and `answered` are history variables.

### Comments

One item, its row, and comments that are posted, routed, handled, or
deferred and replayed.  A body is what the parsers make of it: commands on lines
of their own, commands within text, text, and what a code block holds.
Simplifications: pull requests of forks and of dependabot are one kind; GitHub's
assignment calls succeed and who is next is a choice (`ReviewerQueue`,
`Assignment`); saves and repeated runs are `Deferred`'s and `BotRun`'s; the reads of
an item fail together (`readable`); commands without an effect on the
modelled state are one, "other".

### SpecLock and Privileged

`SpecLock` has the FLS as a set of documents and their versions of paragraphs, the
lock, the guidelines' citations, which of them a difference affects, and what a build
makes of the lock in each mode.  `Privileged` takes `/accept-no-fls-changes` from the
comment to its record: `saved` are the pending records, `run` what the executor has in
hand at its phase, `branch` and `pulls` GitHub.  Between its phases the FLS is
deployed, guidelines are merged, permission or label are withdrawn and a person opens the
pull request.  `torn` are the keys whose record a lost save or a repeated workflow
has put out of step; `entitled` that this run found the permission.
Simplifications: label and permission are one (`allowed`); the issue is closed once
and a pull request is never closed unmerged; citations are of paragraphs.

## Runs

| Run | Shows |
|---|---|
| `lease_lock` | with 2 runs, one failed call of any kind, reads one update behind, late updates, crashes, a clock past a lease: the lease is exclusive, never stolen, release is final, `Lease` is implemented |
| `lease_liveness` | a lock left behind runs out and a waiting run gets it |
| `bot_run` | with PATCHes that take effect at any later time: an update is lost only after one was overtaken, no success without the change stored, a PATCH within the renewal window lies under its lease |
| `reviewer_queue` | index arithmetic, no duplicates, nobody lost, passes move on, absences end in time |
| `assignment` | for issues and pull requests, state and GitHub differ between runs only where a marker says so; a new reviewer really is live; for issues, without failures, the two agree in the end |
| `audit_issue` | the comments of an audit issue tell its drift without gap or repetition, one issue per campaign, success means recorded, the issue catches up |
| `review_turn` | the newest event of a channel wins in whatever order events come; whose turn it is on an issue; nothing of the contributor is hidden on a pull request; `/rectify` leaves what GitHub shows |
| `review_silenced` (violation) | a review that only comments stops the reminders for good |
| `reminders` | the saved times are true, the promise is kept, a silent reviewer is escalated unless a completion, the assignees or the first page of comments keep the run from it |
| `deferred` | a command takes effect once, the row is true, nothing is lost without a gap that was not withdrawn first, an artifact is taken only as what it is |
| `privileged` | cited paragraphs untouched unless the FLS moved in between, records true, one pull request per command, no push on an old permission |
| `comments` | a handoff is the reviewer's and never goes back, entitlement is asked when a run acts, a replay runs what was posted, the two paths agree |

The first conjunct of `NoSilentSuccess`, `QueueSound`, `MismatchMarked`, `HistorySound`,
`NewestWins`, `SavedIsTrue` and `AppliedOnce` is the type invariant of its module; they are
proved (below).

**Bounds.**  *Lease*: TTL 2, window 0 or 1, waits of a few ticks: what matters is the order
of expiries and steps, and each of "before the window", "within it" and "expired"
occurs.  Two runs suffice for every race on one ref update, and a run may take over again;
any number of runs is what the proofs are for.  `bot_run`: time 2, in which a lease expires and is taken over and another is
renewed, so that a PATCH can be overtaken: without the exception of `stray`, TLC finds the lost update.  One fault in the safety run:
the mechanism (an update on the wire) persists for the rest of the
behaviour, and the proofs have no bound at all.  *Queue*: three reviewers
are the fewest for which removing one leaves an order to disturb; one edit of
members.md, one day to be away.  *Assignment*: three people (tracked, next,
author), two faults and two interferences.  *Audit issue*: two baselines, so that
the second supersedes the first and the first comes back; a drift that comes and
goes, since a transition is a difference from the state before, whichever it was;
two changes, the first lost half way and the second to catch up with; one fault
and one edit, each at any step of any run.
*Review turn*: two seconds, three heads, three events and one reassignment: enough for two
events of one channel with one of the other between them, in every order of time
and of arrival, equal times included.  *Reminders*: a deadline and a period of two
days, a page of two comments, three acts of people, three faults: a lapse warned of, answered and lapsed
again, with reads, a post and a save lost in it, and reminders on and beyond the first
page, which one or two comments fill.  `Escalates` is violated without any one of its three
exceptions, and `PromiseKept` if `unseen` were always false, so each of those cases occurs.  *Deferred*: a plain comment, a command and a
review of which two happen; window 2, overlap 1, two ticks; one fault, where an
artifact with something wrong (five kinds), an event that is edited or withdrawn and an observer
run that is late count as one; `Correlation` 0, the tick of the event, and `MissingAfter` 1, so that
a run can come after it was called missing; one run repeated.
*Privileged*: one command, two days, one cited paragraph with two contents and a section;
one move (of people or of the FLS) and one fault, each between any two phases.  *Comments*: three people (author, reviewer,
maintainer), two comments, one change at any moment, on four kinds of item.

**Fairness.**  *Lease*: a run is a sequential program that goes on: weak fairness on its
steps and on time; strong fairness on a read that sees the head, since lag is
finite; a run that works under the lock comes to release it.  GitHub owes
nothing: no fairness on late updates, and crashes may always or never happen.
*Assignment*: a run goes on, and GitHub starts a run for an
issue whose assignees changed.
*Audit issue*: a run every day, and a run goes on.
*Reminders*: days pass, and now and then a scheduled run
(`reviewer-bot-sweeper-repair.yml` starts one every hour) finds GitHub answering, to all its calls:
strong fairness on `Run(TRUE, "all", "made", FALSE)`, which is always possible.
The other modules state no fairness, and no liveness.

**Deadlock** is checked where a system may not stop and switched off (in the
cfg) where all runs may have ended or bounds are used up.

## Proofs

`BotRunProofs` proves, first, of `LeaseLock!Spec`, for any set of runs, any `TTL`,
`Window < TTL`, any lag and any number of faults: type correctness (`Typed`),
the inductive invariant (`InvariantHolds`), and from it `Exclusive`,
`ReleasesFinal`, `NeverStolen`, `RenewalsUnbroken` and `Implements` (every step is
a step of `Lease` or a stutter).  Assumptions are those of the module: `NoRun`
and `NoLock` are no runs, the times are naturals, `Window < TTL`, at least one try.

Why an invariant is needed.  `LeaseExclusive` is not inductive: what makes
it true is that the head of the ref backs every unexpired context (`Backed`), and
that in turn depends on what may still arrive there.  `LeaseInvariant` says, of
each run: an update that may still reach the ref was built on a commit that
named its own run or was not valid, and locks for no less long (`UpdatesSound`);
renewals and releases build on their own commit (`OwnParent`); a waiting run's
valid lock is never buried below the head (`NotBuried`), so a lagging read of the
own token is not a stale one; a confirmed update was really made, and no older
one of the run can come after it (`Confirmable`); a run that lost the ref, or
released it, cannot get it back (`NoComeback`, `Gone`).

It then proves of `BotSpec`, which works under that lock, for any runs, times, lag and faults,
and with nothing assumed of when a PATCH takes effect: `SavedBeforeSuccess`, `UpdatesKept`,
`WritesUnderLease`.
A step of a run at the lease is a step of `LeaseLock`, and one
at the state issue leaves what the lease's invariant speaks of alone (`LeaseKept`).
`NoLostUpdate` then needs that, as long as no PATCH came too late, the copy of a run the ref names
has all the state issue has (`CopyCurrent`).  That survives the PATCHes of others because one
that takes effect while another run is named is what `stray` records, and one
that does not puts there what its run has (`LandsInTime`).  `WritesUnderLease` rests on what the answer
"fresh" leaves: more than the renewal window from the time that vouches for it (`Vouched`), so
that within the window the lock is still the head and unexpired (`CoveredWrite`).
`NoSilentSuccess` needs where a change is at each stage (`Persisted`).

`PrivilegedProofs` proves of `Privileged!Spec`, for any documents, paragraphs, citations,
commands, days, moves and faults: `Typed`, `Unaffected`, `RecordsTrue`, `Once` and `Entitled`.
`SettledOnce` needs to know what a run in progress has found: that a branch or a
pull request of the command exists only if the run, the record, or a torn key
accounts for it (`RunSound`, `BranchesSound`, `OnceSound`), and that what an executor
holds at a phase is what GitHub showed at the phases before (`FindingsHold`,
`RecordsSound`, `OutcomesTrue`).  That an audit without a finding leaves
the cited paragraphs as they were is a lemma about the functions of `SpecLock`
(`UnaffectedIsIntact`); numbers of pull requests use the library's facts about
cardinality.

`CommentsProofs` proves of `Comments!Spec`, for any people, bodies, numbers of
comments and of changes: `Typed`, `HandoffOwned`, `HandoffsOnlyAdvance`,
`OnlyTheEntitled`, `DirectTrusted`, `ReplaysRunAsPosted` and `ReplayIsDirect`.  Its centre
is `RowStep`: what one run may make of the row, whatever the comment, on whichever path;
each command is shown to be such a step, a sequence of two again, and the first theorems
are read off it.  The last two compare the paths.  They differ in that the replay freshens
the row before it runs the commands and the direct path does not; so each command is shown
to have the same effect on two rows that differ only in what freshening changes
(`ReplayedAgrees`).  Freshening an item that has no row would not be that harmless, which
is why they need a second invariant: an open item has its row (`TrackedWhileOpen`).

`DeferredProofs` proves of `Deferred!Spec`, for any events and artifacts, any overlap, window and
waiting times in the order `DeferredAssumption` names, any number of faults and reruns:
`TypesHold`, `Once`, `RowTrue`, `NothingLost` and `OfItsRun`.  None of these is inductive.
A receipt must be known to stand for an effect, and an effect without one to be the direct
job's, which leaves nothing to replay (`EffectsSound`); nothing is known or listed of
an event before it happens, and GitHub lists it within the overlap (`EventsSound`);
a run that was called missing can, since the correlation window is shorter than the wait
before anything is called so, only be created outside of it (`MissingSound`); and
nothing older than a surface's safe time by more than the overlap is unknown, nor
anything older than the last good sweep by as much, unless it was withdrawn before (`SweepsSound`), so that what lies
below the floor of the next sweep was seen by an earlier one (`ListedOrKnown`).  What a
reconcile run may make of the row is one of eight outcomes (`Outcome`, `ReplayedOutcome`);
that the events listed have a last one follows from the library's fact that the naturals
are well-founded (`Greatest`).

`ReviewerProofs` has two parts.  The first proves of `Assignment!Spec`, for any people, kinds of items, faults and
interventions: `MismatchesAreMarked` and `TrackedOnlyIfLive`.  `MismatchMarked` speaks of the
state between runs; what makes it so is that a run about to save agrees with GitHub or
carries a marker (`Conclusive`), which in turn rests on whom it has still to remove
(`Clearing`), on a failed removal being marked at once (`Marked`), and on the saved state
being good wherever a run may end without saving (`SavedStateGood`).

The second part proves of `ReviewerQueue!QueueSpec`, for any members, items and authors, dates
and edits of members.md: `QueueSoundHolds`, `LineKeptHolds`, `PassesMoveOn`, `NobodyIsForgotten`
and `EveryoneReturnsInTime`.  `QueueSound` is inductive; the work is in the data.  *Loops*: the
library's induction theorems cannot be used, but it knows the naturals to be well-founded, which
is a statement about sets, so what holds before a loop and is kept by each turn holds
after it (`Turns`: T is the set of the numbers of turns after which it holds).
With this `AmongLoop` and `RestoredLoop` show that the recursive functions exist, `AmongIs` that
a filter keeps order and nothing else, and `RestoredIs` that the loop over the absences brings
back exactly those whose date has come, and nobody twice.  *Index*: the
k-th in line stands at `Spot(n, c, k)`, one subtraction instead of a remainder;
`SpotTakenOut` and `SpotPutFirst` are the arithmetic of a removal before, at and after the
index, and of an insertion at it, and `LineTakenOut` and `LineRepositioned` carry it
to sequences.  *Runs*: whatever a handler gets is `Savable` (`PreparedIs`): sound, with no Producer
lost since the load (`Stays`) and no absence at its end (`InTime`).  Each operation keeps
that, so every action that saves is a `Step`, from which the action properties are read off.

`AuditIssueProofs` proves of `AuditIssue!Spec`, for any campaigns, drifts, texts, changes, faults
and edits: `CommentsTellTheDrift`, `OneIssueEach`, `SuccessIsRecorded`.  A body and a list of
comments change in separate calls, either may be late or lost, and a person may save an older
body; so the invariant says of every body there is - in an issue, in a form, on the wire, in a
run's hands - that it is a state the comments lead to (`StateOf`), and that a run about to add
a comment, a notice or an issue will not find it there (`AddsOnce`).  What is on GitHub only
grows (`Grows`), which keeps such a statement true while others act.  Success is vouched
for from the verification to the end of a run that saw no one interfere (`Vouches`).

`RemindersProofs` proves of `Reminders!Spec`, for any people, deadline, period, page size, deeds
and faults: `SavedRowTrue`, and `PromiseIsKept`, that `Reminders` implements `ReminderPromise`.
The mapping gives the promise the scopes warned of (`WarnedOf`), the age of each reviewer's
oldest warning (`Since`) and what the silent have had (`Stage`), all read off the comments.
The invariant: reminders stand in the order of their ages (`InOrder`), those since the reviewer
was last heard or changed are to the reviewer of now (`OnlyTo`), a scope dates from a deed that
was done (`Dated`), so that a new one was never warned of, and a receipt for the scope of now
without a timer is older than the last sign of life (`NoWarningSince`).  Then a run warns only of a scope without
a warning, and gives notice only when the warning it goes by is a period old, which the oldest
is as well; a second notice for one warning needs a timer that was lost and not restored, and a
first notice beyond the first page (`NoticeIsFound`, `NoticeThere`).  The least and greatest positions of a set, which the code finds by
scanning, exist because the library knows finite sets to be well-founded (`LeastIs`, `MostIs`).

`ReviewTurnProofs` proves of `ReviewTurn!Spec`, for any people, heads, times, events and
reassignments: `NewestWinsHolds`, `IssueTurnHolds`, `NotHiddenHolds`, `RectifyAgreesHolds`.
`TurnInvariant` says of the row what the bot was told makes it: a channel of words holds the
newest of those told and the keys of all of them, so a second telling changes nothing
(`WordsGood`); on an issue no `/feedback` is forgotten before the author has spoken
again (`HandoffGood`); and the accepted revision is never older than the live head's
push, once that was told (`RevisionGood`), which needs that pushes are told apart by second and
head (`Straight`).  A run on a pull request either keeps the revisions or observes the live head
(`Repairs`).  Turns are then read off the row; that a newest word, a last and a first
review exist is `FiniteTop`.  Without `Straight`, `NotHidden` does not hold (see "Seen while
modelling"); TLC shows that with three heads.

Model-checked only: liveness (`WaiterServed`, `AgreeInTheEnd`, `CatchesUp`, `Escalates`), which
is beyond the prover.  Every other property of a run that passes is proved.

## Findings

`review_silenced`: any review of the assigned reviewer at the current head, one that
only comments included, is stored as the completion of the review
(`approval_policy.py:92-154`), and the overdue pass leaves out what is completed
(`overdue.py:931`).  When the contributor answers, it is the reviewer's turn again and nobody
reminds them.  REVIEWING.md:187 has such a review restart the timer, and only an
approval stop the reminders.  `Escalates` excepts items that stay completed in that way.  (A push whose rebuild fails leaves the completion of the
old head behind as well.)

Seen while modelling, with a promise in the repository that they strain but
without a run here:
* *State store.*  `save_state` asks for a fresh lease, then reads with retry
  sleeps, then PATCHes without asking again (`state_store.py:370`, asserted once at
  `:306-308`): a PATCH that is late enough takes away what another run saved meanwhile
  and has reported as success.  The epoch is compared before a PATCH that overwrites it (`app.py:517`,
  `:184-186`).
* *Queue.*  A sync does not move the cursor back for members removed before it
  (`queue.py:52`; `/away` does, `commands.py:342-344`; REVIEWING.md:21).  A second passer
  is put in front of the one who "remains next in queue" (`commands.py:253`, `:259`).
* *Overdue check.*  Its mismatch marker is not counted as a change and is lost
  (`maintenance_schedule.py:153`; `test_overdue.py:199-202`).  The backfill takes the
  oldest warning to the same reviewer for the warning of any scope
  (`overdue.py:224-299`): a second lapse is noticed without a new warning, and a reviewer
  assigned again may never be warned (REVIEWING.md:191-197).  A notice is searched for only from a saved
  timer (`overdue.py:1065`): where the saves that held the timer were lost, the backfill's read
  fails and the check's does not, a notice that lies beyond the first page of comments is
  posted again.  Reminders beyond that page do not count as exhausted, so such
  an item may never be projected as in need of another reviewer (`overdue.py:695`).
* *Sweeper.*  An observer run created more than half an hour after its event is called
  missing once a day has passed (`deferred_gap_diagnosis.py:52-63`, `:123-133`).  A deleted
  comment or a dismissed review that nobody had taken in by then leaves no gap
  (`sweeper.py:320`, `:360`).  A gap that waits for its observer run is not looked at again once a
  later event lies more than the overlap after it (`deferred_gap_bookkeeping.py:259`;
  runbook:13).  An invalid artifact is reported as a missing one, since the
  reasons are renamed on the way (`sweeper_observer_correlation.py`,
  `deferred_gap_diagnosis.py:258`).
* *FLS.*  Eight of the guidelines cite sections, whose changes `--fail-on-impact` does not
  see (`fls_diff.py:17`; docs/fls-audit.md:135-137).  The audit and the update of the
  lock read the FLS separately (`automation.py:247`, `:270`).

Seen while modelling, without such a promise:
* releases and returns reorder the queue although REVIEWING.md:21 speaks of `/pass`
  only; an assignment that fails still moves the cursor if anything else is saved; a pull
  request's reviewer is tracked although the request failed with a 5xx
  (`state_tracked_without_live_request`); an issue whose target was already among
  several assignees is taken as assigned; duplicate rows of members.md are queued
  twice; the reply that confirms a command precedes the save;
* the key of a push is its head (`lifecycle.py:510`), so a push back to a former head is taken for
  the one before, and of two pushes of the same second the one with the greater key stands: a
  `/feedback` that arrives late may then count as the answer to a head the reviewer never saw;
* a late `synchronize` clears a newer `/feedback` (`comment_application.py:409`); events of
  the same second are ordered by their keys, across channels not transitively; a
  reviewer who is reassigned back may be answered for by a late comment of the first
  time; the cadence scan reads the first page of comments only; an approval
  by another reviewer that is superseded later still counts;
* a replayed plain comment is never marked as reconciled and never closes an
  earlier gap; commands handled directly leave a permanent gap of a missing artifact, and
  have no protection against a repeated workflow; a command that changes the state is closed
  only by a later replay; artifacts of a first attempt do not match after the observer
  was run again; the sweep overwrites `reconcile_failed_closed`;
* a deferred comment with a code block is never replayed, since the observer and the
  replay classify it differently (`comment_routing.py:82`, `reconcile.py:829`); a plain
  comment that mentions a command within a line is neither recorded nor executed
  on the direct path; a run handled after closing recreates the row; a
  deferred comment of the author with nothing but commands clears the handoff, a direct
  one does not; `/label +sign-off: create pr` asks for no permission;
* a lost save of an executed command leads to a second pull request the next day;
  a lost answer of the POST to a failed record with an open pull request; a repeated
  workflow puts a settled record back to pending; a passing failure to read the
  permission fails closed for good; the executor does not look whether the issue is open.

## Not modelled

* *Maintenance and state health*: previews and one-off repairs by operators.
* *Transport and wiring*: HTTP, retries and the construction of the runtime; their
  outcomes are the nondeterminism above.
* *Guideline scripts, and the extension's checks of documents*: text in, text out, one
  process, no state kept.
* *Projections*: status labels, the project board, the mandatory approver's
  escalation (which no handler calls), replies, guidance and reactions.
* In the modelled components: parsing and rendering of the state issue and of older
  state formats, read-only runs, `recent_assignments`, the grammar of
  commands, the reconstruction of a missing row, the completion that a privileged run
  records (`maintenance_privileged.py:54`), a push of a branch that fails and takes effect.

## Plan

Models to come: the
reconstruction of a missing row (with `Deferred`), and the mandatory approver (with
`ReviewPolicy`).
