----------------------------- MODULE AuditIssue -----------------------------
(***************************************************************************)
(* The rolling issue of the FLS audit:                                     *)
(* scripts/fls_audit_issue_lib/reconcile.py and state.py.                  *)
(*                                                                         *)
(* A committed spec.lock is a campaign; what the live FLS differs in from  *)
(* it is the drift.  A daily run compares the drift with what the          *)
(* campaign's issue says.  If it is another one the run posts a comment    *)
(* with the transition and then writes the new state into the issue's      *)
(* body; it reopens or closes the issue, closes the issues of older        *)
(* campaigns, and reads everything back.  Each call is a step that may     *)
(* fail, fail although it took effect, or take effect only later; a run    *)
(* may die at any step.  People close, rename and edit issues meanwhile.   *)
(*                                                                         *)
(* The workflow's concurrency group allows one run at a time, and what a   *)
(* run wrote is visible to the reads that follow.  A drift stands for the  *)
(* digest of its items, a text for the rest of the report.  Size limits,   *)
(* rendering and the text of people around the managed part are left out.  *)
(***************************************************************************)
EXTENDS Naturals, Sequences, FiniteSets

CONSTANTS Campaigns,
          Drifts, Clean,   \* Clean is the empty drift
          Texts, Plain,    \* Plain is the report of no drift
          MaxChanges,      \* bound: changes of spec.lock and of the live FLS
          MaxFaults,       \* bound: calls that go wrong, runs that die
          MaxEdits         \* bound: edits by people

ASSUME DriftAssumption == Clean \in Drifts /\ Plain \in Texts
ASSUME BoundAssumption == {MaxChanges, MaxFaults, MaxEdits} \subseteq Nat

VARIABLES issues,   \* of the bot, in the order of their numbers
          world,    \* the report an audit would make now
          run,      \* the run in progress
          wire,     \* writes whose answer was lost and that may yet take effect
          draft,    \* the body somebody has open in an edit form
          claim,    \* history: the report the last run vouches for, if nothing
                    \* happened on GitHub since it looked
          stray,    \* history: a POST took effect after it had been given up
          changes, faults, edits

vars == <<issues, world, run, wire, draft, claim, stray, changes, faults, edits>>

Applied == [drift : Drifts, text : Texts]
Report  == {rep \in [campaign : Campaigns, drift : Drifts, text : Texts] :
              rep.drift = Clean => rep.text = Plain}
NoReport == [campaign |-> "none"]
ToApply(rep) == [drift |-> rep.drift, text |-> rep.text]

\* make_state: the state in the managed part of a body.  Its marker may have
\* been damaged ("broken": parse_state raises) or taken out ("none").
State(n, o, a) == [marker |-> "sound", seq |-> n, origin |-> o, applied |-> a]
NoState == [marker |-> "none"]
NewIssue(rep) == [campaign |-> rep.campaign, open |-> TRUE, titled |-> TRUE, hurt |-> FALSE,
                  body |-> State(0, rep.drift, ToApply(rep)), log |-> <<>>, notices |-> <<>>]

\* A transition comment; batch_id depends on all but the text it leads to.
Comment(n, d, a) == [seq |-> n, prev |-> d, to |-> a]
Batch(m) == <<m.seq, m.prev, m.to.drift>>

\* n: the number of the campaign's issue, 0 if there is none; open and titled as
\* last read; start: the state read at first; next: the state to write, and
\* prev the drift before it; posts: there is a transition to announce; back: states were recovered from
\* comments; todo: open issues of other campaigns; calm: nobody else touched
\* GitHub since the run began (or since it verified the issues).
Idle == [pc |-> "idle", rep |-> NoReport, n |-> 0, open |-> FALSE, titled |-> FALSE,
         start |-> NoState, next |-> NoState, prev |-> Clean, posts |-> FALSE, back |-> FALSE, todo |-> {}, calm |-> FALSE]

Init == /\ issues = <<>>
        /\ world \in Report
        /\ run = Idle
        /\ wire = {}
        /\ draft = <<>>
        /\ claim = NoReport
        /\ stray = FALSE
        /\ changes = 0 /\ faults = 0 /\ edits = 0

-----------------------------------------------------------------------------
(* Reading issues and comments *)

Sound(i) == issues[i].body.marker = "sound"

\* audit_issues: those with a state, and those whose title says so.
Listed(i) == Sound(i) \/ issues[i].titled
ListRaises == \E i \in DOMAIN issues : issues[i].body.marker = "broken"

\* find_campaign
Matches(c) == {i \in DOMAIN issues : Sound(i) /\ issues[i].campaign = c}
Ambiguous(c) == Cardinality(Matches(c)) > 1

\* Open issues that look like the bot's and have no state.
Damaged == {i \in DOMAIN issues : Listed(i) /\ ~Sound(i) /\ issues[i].open}
Others(c) == {i \in DOMAIN issues : Sound(i) /\ issues[i].open /\ issues[i].campaign # c}

Twice(s) == \E j, k \in DOMAIN s : j # k /\ s[j] = s[k]
\* comment_markers raises
Duplicates(i) == Twice([k \in DOMAIN issues[i].log |-> Batch(issues[i].log[k])]) \/ Twice(issues[i].notices)

\* recover_from_comments: the comments after the state of the body, which must
\* continue it without a gap; the last of them is the state.
Beyond(log, b) == {k \in DOMAIN log : log[k].seq > b.seq}
Continues(log, k, b) ==
  \/ log[k].seq = b.seq + 1 /\ log[k].prev = b.applied.drift
  \/ \E j \in Beyond(log, b) : log[j].seq + 1 = log[k].seq /\ log[j].to.drift = log[k].prev
RecoveryRaises(i, b) ==
  LET log == issues[i].log
  IN \/ Duplicates(i)
     \/ \E j, k \in DOMAIN log : j # k /\ log[j].seq = log[k].seq
     \/ \E k \in DOMAIN log : log[k].seq = b.seq /\ log[k].to.drift # b.applied.drift
     \/ \E k \in Beyond(log, b) : ~Continues(log, k, b)
BadRecovered(log, b) == b
Recovered(log, b) ==
  IF Beyond(log, b) = {} THEN b
  ELSE LET last == CHOOSE k \in Beyond(log, b) : \A j \in Beyond(log, b) : log[j].seq <= log[k].seq
       IN [b EXCEPT !.seq = log[last].seq, !.applied = log[last].to]

\* verify_comment_history
Complete(i, b) ==
  LET log == issues[i].log
  IN /\ Len(log) = b.seq
     /\ \A k \in DOMAIN log : /\ log[k].seq = k
                              /\ log[k].prev = IF k = 1 THEN b.origin ELSE log[k-1].to.drift
     /\ b.seq > 0 => log[b.seq].to.drift = b.applied.drift

-----------------------------------------------------------------------------
(* Calls.  A request is <<what, issue, value>>. *)

Effect(q, s) ==
  CASE q[1] = "create"  -> Append(s, q[3])
    [] q[1] = "title"   -> [s EXCEPT ![q[2]].titled = TRUE]
    [] q[1] = "open"    -> [s EXCEPT ![q[2]].open = q[3]]
    [] q[1] = "body"    -> [s EXCEPT ![q[2]].body = q[3]]
    [] q[1] = "comment" -> [s EXCEPT ![q[2]].log = Append(@, q[3])]
    [] q[1] = "notice"  -> [s EXCEPT ![q[2]].notices = Append(@, q[3])]

Fault == faults < MaxFaults /\ faults' = faults + 1
World == <<world, changes>>
People == <<draft, edits>>

At(p) == run.pc = p
Go(r, p) == run' = [r EXCEPT !.pc = p]

\* AuditIssueError: the run exits with 1.  The next one knows nothing of it.
Fail == run' = Idle

\* A read, and what the run makes of it.
Reads == UNCHANGED <<issues, wire, faults>>

\* A write: done is what follows an answer, lost what follows an error, which
\* says nothing about whether the write took effect, or will.
Write(q, done, lost) ==
  \/ /\ issues' = Effect(q, issues)
     /\ done
     /\ UNCHANGED <<wire, faults>>
  \/ /\ Fault
     /\ lost
     /\ \/ issues' \in {issues, Effect(q, issues)} /\ wire' = wire
        \/ issues' = issues /\ wire' = wire \union {q}

-----------------------------------------------------------------------------
(* reconcile: find the campaign's issue *)

\* The workflow begins; the report is the world of this moment.
Start == /\ At("idle")
         /\ Go([Idle EXCEPT !.rep = world, !.calm = TRUE], "list")
         /\ claim' = NoReport
         /\ Reads

List ==
  /\ At("list")
  /\ LET c == run.rep.campaign
         r == [run EXCEPT !.todo = Others(c)]
     IN IF ListRaises \/ Ambiguous(c) \/ Damaged # {} THEN Fail
        ELSE IF Matches(c) = {}
          THEN Go(r, IF run.rep.drift = Clean THEN "others" ELSE "create")
          ELSE \E i \in Matches(c) :
                 Go([r EXCEPT !.n = i, !.open = issues[i].open, !.titled = issues[i].titled,
                              !.start = issues[i].body], "identity")
  /\ Reads

\* refresh_issue_identity; the answer to a PATCH is the issue as it is now.
Identity ==
  /\ At("identity")
  /\ IF run.titled THEN Go(run, "reopen") /\ Reads
     ELSE Write(<<"title", run.n, TRUE>>, Go([run EXCEPT !.open = issues[run.n].open], "reopen"), Fail)

BadReopen == At("reopen") /\ Go(run, "comments") /\ Reads
Reopen ==
  /\ At("reopen")
  /\ IF run.open \/ run.rep.drift = Clean THEN Go(run, "comments") /\ Reads
     ELSE Write(<<"open", run.n, TRUE>>, Go([run EXCEPT !.open = TRUE], "comments"), Fail)

\* create_issue_safely: after an error the issue is looked for.
Found(i, issue) == Go([run EXCEPT !.n = i, !.open = issue.open, !.start = issue.body], "comments")
Create ==
  /\ At("create")
  /\ Write(<<"create", 0, NewIssue(run.rep)>>, Found(Len(issues) + 1, NewIssue(run.rep)), Go(run, "look"))
BadLook == At("look") /\ Go(run, "create") /\ Reads
Look ==
  /\ At("look")
  /\ LET c == run.rep.campaign
     IN IF ListRaises \/ Ambiguous(c) \/ Matches(c) = {} THEN Fail
        ELSE \E i \in Matches(c) : Found(i, issues[i])
  /\ Reads

-----------------------------------------------------------------------------
(* reconcile_campaign: the comment first, then the body *)

NextState(old, rep) ==
  [old EXCEPT !.seq = IF old.applied.drift = rep.drift THEN @ ELSE @ + 1, !.applied = ToApply(rep)]

Comments ==
  /\ At("comments")
  /\ LET old == Recovered(issues[run.n].log, run.start)
         new == NextState(old, run.rep)
     IN IF RecoveryRaises(run.n, run.start) THEN Fail
        ELSE Go([run EXCEPT !.next = new, !.prev = old.applied.drift,
                            !.back = old.seq # run.start.seq, !.posts = new.seq # old.seq],
                IF new.seq # old.seq THEN "post" ELSE "latest")
  /\ Reads

Announcement == Comment(run.next.seq, run.prev, run.next.applied)
Seen(i) == /\ ~Duplicates(i)
           /\ \E k \in DOMAIN issues[i].log : Batch(issues[i].log[k]) = Batch(Announcement)

\* post_comment_once: after an error the comment is looked for.
Post == /\ At("post")
        /\ Write(<<"comment", run.n, Announcement>>, Go(run, "latest"), Go(run, "confirm"))
Confirm == /\ At("confirm")
           /\ IF Seen(run.n) THEN Go(run, "latest") ELSE Fail
           /\ Reads

\* The body is read again: it must still be what the run began with, or be
\* what it is about to write.
Latest ==
  /\ At("latest")
  /\ LET i == issues[run.n]
     IN IF i.body \notin {run.start, run.next} THEN Fail
        ELSE IF run.posts \/ run.back \/ i.body # run.next THEN Go(run, "body")
        ELSE Go([run EXCEPT !.open = i.open], "settle")
  /\ Reads

Body ==
  /\ At("body")
  /\ Write(<<"body", run.n, run.next>>, Go([run EXCEPT !.open = issues[run.n].open], "settle"), Fail)

\* An issue without drift is closed.
Settle ==
  /\ At("settle")
  /\ IF run.rep.drift = Clean /\ run.open
       THEN Write(<<"open", run.n, FALSE>>, Go(run, "others"), Fail)
       ELSE Go(run, "others") /\ Reads

-----------------------------------------------------------------------------
(* close_old_campaigns, in the order of the issues' numbers *)

Oldest == CHOOSE i \in run.todo : \A j \in run.todo : i <= j
Notified(i) == \E k \in DOMAIN issues[i].notices : issues[i].notices[k] = run.rep.campaign

OthersRead ==
  /\ At("others")
  /\ IF run.todo = {} THEN Go(run, "verify")
     ELSE IF Duplicates(Oldest) THEN Fail
     ELSE Go(run, IF Notified(Oldest) THEN "close" ELSE "notice")
  /\ Reads

Notice == /\ At("notice")
          /\ Write(<<"notice", Oldest, run.rep.campaign>>, Go(run, "close"), Go(run, "notified"))
ConfirmNotice == /\ At("notified")
                 /\ IF ~Duplicates(Oldest) /\ Notified(Oldest) THEN Go(run, "close") ELSE Fail
                 /\ Reads
Close == /\ At("close")
         /\ Write(<<"open", Oldest, FALSE>>, Go([run EXCEPT !.todo = @ \ {Oldest}], "others"), Fail)

-----------------------------------------------------------------------------
(* verify_reconciliation: the issues, then the comments *)

IssuesVerified ==
  LET c == run.rep.campaign
  IN /\ ~ListRaises /\ ~Ambiguous(c)
     /\ Others(c) = {} /\ Damaged = {}
     /\ IF run.n = 0 THEN Matches(c) = {}
        ELSE /\ issues[run.n].body = run.next
             /\ issues[run.n].titled
             /\ issues[run.n].open = (run.rep.drift # Clean)

Verify ==
  /\ At("verify")
  /\ IF IssuesVerified THEN Go([run EXCEPT !.calm = TRUE], "history") ELSE Fail
  /\ Reads

BadVerifyHistory ==
  /\ At("history")
  /\ Fail
  /\ claim' = IF run.calm THEN run.rep ELSE NoReport
  /\ Reads
VerifyHistory ==
  /\ At("history")
  /\ Fail
  /\ claim' = IF run.calm /\ (run.n = 0 \/ (~Duplicates(run.n) /\ Complete(run.n, run.next)))
                THEN run.rep ELSE NoReport
  /\ Reads

Dies == /\ ~At("idle")
        /\ Fault
        /\ Fail
        /\ UNCHANGED <<issues, wire>>

-----------------------------------------------------------------------------
(* Everything else that happens to the issues and the report *)

LateWrite(q) ==
  /\ q \in wire
  /\ issues' = Effect(q, issues)
  /\ wire' = wire \ {q}
  /\ stray' = (stray \/ q[1] \in {"create", "comment", "notice"})
  /\ run' = [run EXCEPT !.calm = FALSE]
  /\ claim' = NoReport
  /\ UNCHANGED <<World, faults, People>>

Edit == edits < MaxEdits /\ edits' = edits + 1
Edited(s) == issues' = s /\ run' = [run EXCEPT !.calm = FALSE] /\ claim' = NoReport

\* People close, reopen and rename the issue; they damage the managed part or
\* take it out; they save an edit form that has been open for a while.
CloseByHand(i) == Edit /\ Edited([issues EXCEPT ![i].open = ~@]) /\ UNCHANGED draft
Rename(i) == Edit /\ Edited([issues EXCEPT ![i].titled = FALSE]) /\ UNCHANGED draft
Damage(i) == /\ Edit
             /\ \E how \in {"broken", "none"} :
                  Edited([issues EXCEPT ![i].body.marker = how, ![i].hurt = TRUE])
             /\ UNCHANGED draft
OpenForm(i) == /\ Edit /\ draft = <<>>
               /\ draft' = <<i, issues[i].body>>
               /\ UNCHANGED <<issues, run, claim>>
SaveForm == /\ draft # <<>>
            /\ draft' = <<>>
            /\ Edited([issues EXCEPT ![draft[1]].body = draft[2]])
            /\ UNCHANGED edits

\* spec.lock is committed, the live FLS moves.
Change == /\ changes < MaxChanges
          /\ changes' = changes + 1
          /\ world' \in Report \ {world}
          /\ UNCHANGED <<issues, run, wire, People, claim, stray, faults>>

-----------------------------------------------------------------------------
Reconcile == \/ List \/ Identity \/ Reopen \/ Create \/ Look \/ Comments \/ Post \/ Confirm
             \/ Latest \/ Body \/ Settle \/ OthersRead \/ Notice \/ ConfirmNotice \/ Close \/ Verify
RunStep == /\ (Reconcile /\ UNCHANGED claim) \/ VerifyHistory
           /\ UNCHANGED <<World, People, stray>>
Begin == Start /\ UNCHANGED <<World, People, stray>>
Killed == Dies /\ UNCHANGED <<World, People, stray, claim>>
ByHand == /\ (\E i \in DOMAIN issues : CloseByHand(i) \/ Rename(i) \/ Damage(i) \/ OpenForm(i)) \/ SaveForm
          /\ UNCHANGED <<World, wire, stray, faults>>

Next == \/ Begin \/ RunStep \/ Killed \/ ByHand \/ Change
        \/ \E q \in wire : LateWrite(q)

Spec == Init /\ [][Next]_vars

\* The schedule starts a run every day; a run goes on to its end.
FairSpec == Spec /\ WF_vars(Begin) /\ WF_vars(RunStep)

-----------------------------------------------------------------------------
(* Properties *)

Bodies == {b \in [marker : {"sound", "broken", "none"}, seq : Nat, origin : Drifts, applied : Applied] :
             b.seq = 0 => b.origin = b.applied.drift}
Marker == [seq : Nat \ {0}, prev : Drifts, to : Applied]
Issue == [campaign : Campaigns, open : BOOLEAN, titled : BOOLEAN, hurt : BOOLEAN,
          body : Bodies, log : Seq(Marker), notices : Seq(Campaigns)]

\* Every state a body or a comment of the bot holds passes validate_state and
\* parse_batch_marker.
AuditTypeOK ==
  /\ issues \in Seq(Issue)
  /\ world \in Report
  /\ run.rep \in Report \union {NoReport}
  /\ run.n \in 0..Len(issues) /\ run.todo \subseteq DOMAIN issues
  /\ {run.start, run.next} \subseteq Bodies \union {NoState}
  /\ At("idle") => run = Idle
  /\ claim \in Report \union {NoReport}
  /\ changes \in 0..MaxChanges /\ faults \in 0..MaxFaults /\ edits \in 0..MaxEdits

\* docs/fls-audit.md, "one comment listing every newly active, updated, and
\* resolved drift item since its last successful update": whatever call fails
\* and whoever edits the body, the comments of an issue tell its drift from the
\* origin on without gap or repetition, and the body is at one of their states.
\* Only a POST that takes effect after its run has given it up spoils this.
HistorySound ==
  AuditTypeOK /\ (stray \/ \A i \in DOMAIN issues :
    LET log == issues[i].log
        body == issues[i].body
    IN /\ ~Duplicates(i)
       /\ \A k \in DOMAIN log :
            /\ log[k].seq = k
            /\ log[k].prev = IF k = 1 THEN body.origin ELSE log[k-1].to.drift
            /\ log[k].to.drift # log[k].prev
       /\ body.seq <= Len(log)
       /\ body.seq > 0 => log[body.seq].to.drift = body.applied.drift)

\* find_campaign: as long as nobody damages their markers, a campaign has one issue.
OneIssuePerCampaign ==
  stray \/ \A i, j \in DOMAIN issues :
    i # j /\ issues[i].campaign = issues[j].campaign => issues[i].hurt \/ issues[j].hurt

\* Everything GitHub shows is as rep wants it.
Recorded(rep) ==
  /\ ~ListRaises /\ ~Ambiguous(rep.campaign)
  /\ Others(rep.campaign) = {} /\ Damaged = {}
  /\ rep.drift = Clean \/ Matches(rep.campaign) # {}
  /\ \A i \in Matches(rep.campaign) :
       /\ issues[i].body.applied = ToApply(rep)
       /\ issues[i].titled
       /\ issues[i].open = (rep.drift # Clean)
       /\ ~Duplicates(i) /\ Complete(i, issues[i].body)

\* A run that ends well and saw nobody interfere since it began to verify leaves
\* the report it made on GitHub: issue, state, status and history, however many
\* calls went astray before.
SuccessMeansRecorded == claim # NoReport => Recorded(claim)

\* When the failures and edits are over, and left no duplicate and no damaged
\* marker behind, the issue shows the drift of the day.
CatchesUp == [](~stray /\ \A i \in DOMAIN issues : ~issues[i].hurt) => <>[]Recorded(world)
=============================================================================
