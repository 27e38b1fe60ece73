-------------------------- MODULE AuditIssueProofs --------------------------
(***************************************************************************)
(* Proofs about AuditIssue, for any campaigns, drifts, report texts, and   *)
(* numbers of changes, failures and edits.                                 *)
(***************************************************************************)
EXTENDS AuditIssue, TLAPS, FiniteSetTheorems, SequenceTheorems

-----------------------------------------------------------------------------
(* The inductive invariant *)

\* A run has not yet settled the state it will write; it is about the
\* campaign's issue; it is done with that issue.
Early == {"idle", "list", "create", "look", "identity", "reopen", "comments"}
Chosen == {"identity", "reopen", "comments", "post", "confirm", "latest", "body", "settle"}
Ending == {"others", "notice", "notified", "close", "verify", "history"}
Phases == Early \union Chosen \union Ending

RunRecord ==
  [pc : Phases, rep : Report \union {NoReport}, n : Nat, open : BOOLEAN, titled : BOOLEAN,
   start : Bodies \union {NoState}, next : Bodies \union {NoState}, prev : Drifts,
   posts : BOOLEAN, back : BOOLEAN, todo : SUBSET Nat, calm : BOOLEAN]

SoundBody == {b \in Bodies : b.marker = "sound"}

\* The comments of issue x tell its drift from the origin on.
ToldIn(x) ==
  /\ ~Twice(x.notices)
  /\ \A k \in DOMAIN x.log :
       /\ x.log[k].seq = k
       /\ x.log[k].prev = IF k = 1 THEN x.body.origin ELSE x.log[k-1].to.drift
       /\ x.log[k].to.drift # x.log[k].prev

\* b is a state that the comments of x lead to.
StateOf(x, b) ==
  /\ b.origin = x.body.origin
  /\ b.seq <= Len(x.log)
  /\ b.seq > 0 => x.log[b.seq].to.drift = b.applied.drift

\* The drift after all the comments of x.
LastDrift(x) == IF x.log = <<>> THEN x.body.origin ELSE x.log[Len(x.log)].to.drift

IssuesGood ==
  /\ issues \in Seq(Issue)
  /\ \A i \in DOMAIN issues : ~issues[i].hurt => Sound(i)
  /\ ~stray => \A i \in DOMAIN issues : ToldIn(issues[i]) /\ StateOf(issues[i], issues[i].body)
  /\ OneIssuePerCampaign

\* A write that may yet take effect.
RequestGood(q) ==
  /\ q[1] \in {"create", "title", "open", "body", "comment", "notice"}
  /\ q[1] # "create" => q[2] \in DOMAIN issues
  /\ q[1] = "create"  => q[3] \in Issue /\ q[3].body \in SoundBody
  /\ q[1] = "open"    => q[3] \in BOOLEAN
  /\ q[1] = "body"    => q[3] \in SoundBody /\ (~stray => StateOf(issues[q[2]], q[3]))
  /\ q[1] = "comment" => q[3] \in Marker
  /\ q[1] = "notice"  => q[3] \in Campaigns
WireGood == \A q \in wire : RequestGood(q)

DraftGood ==
  draft # <<>> => /\ draft[1] \in DOMAIN issues /\ draft[2] \in Bodies
                  /\ ~issues[draft[1]].hurt => draft[2] \in SoundBody
                  /\ ~stray => StateOf(issues[draft[1]], draft[2])

\* What a run knows about the campaign's issue, and what it is about to write.
RunTyped(r) ==
  /\ r \in RunRecord
  /\ r.n \in 0..Len(issues) /\ r.todo \subseteq DOMAIN issues
  /\ r.pc = "idle" => r = Idle
  /\ r.pc # "idle" => r.rep \in Report
  /\ r.pc \in {"notice", "notified", "close"} => r.todo # {}
Knows(r) ==
  /\ r.pc \in {"list", "create", "look"} => r.n = 0
  /\ r.pc \in Chosen => r.n # 0
  /\ r.pc \in Ending /\ r.n = 0 => r.rep.drift = Clean
  /\ r.n # 0 => /\ issues[r.n].campaign = r.rep.campaign
                /\ r.start \in SoundBody
                /\ ~stray => StateOf(issues[r.n], r.start)
Plans(r) ==
  r.n # 0 /\ r.pc \notin Early =>
    /\ r.next \in SoundBody /\ r.next.applied = ToApply(r.rep)
    /\ r.pc \in {"post", "confirm"} => r.next.seq > 0
    /\ ~stray => IF r.pc \in {"post", "confirm"} THEN r.next.origin = issues[r.n].body.origin
                 ELSE StateOf(issues[r.n], r.next)
First(S) == CHOOSE i \in S : \A j \in S : i <= j
NoticedBy(r) == \E k \in DOMAIN issues[First(r.todo)].notices :
                  issues[First(r.todo)].notices[k] = r.rep.campaign

\* What a run is about to add is not there yet.
AddsOnce(r) ==
  ~stray =>
    /\ r.pc = "post" => LET x == issues[r.n]
                        IN /\ r.next.seq = Len(x.log) + 1
                           /\ r.prev = LastDrift(x) /\ r.next.applied.drift # r.prev
    /\ r.pc = "notice" => ~NoticedBy(r)
    /\ r.pc = "create" => \A i \in DOMAIN issues : issues[i].campaign = r.rep.campaign => issues[i].hurt
RunGood == RunTyped(run) /\ Knows(run) /\ Plans(run) /\ AddsOnce(run)

Vouches ==
  /\ ~At("idle") => claim = NoReport
  /\ At("history") /\ run.calm => IssuesVerified
  /\ SuccessMeansRecorded

CountersGood == /\ world \in Report /\ claim \in Report \union {NoReport} /\ stray \in BOOLEAN
                /\ changes \in 0..MaxChanges /\ faults \in 0..MaxFaults /\ edits \in 0..MaxEdits

AuditInvariant == CountersGood /\ IssuesGood /\ WireGood /\ DraftGood /\ RunGood /\ Vouches

-----------------------------------------------------------------------------
(* What a change of the issues may do *)

Keeps(x, y) == y.campaign = x.campaign /\ (x.hurt => y.hurt)
Prolongs(x, y) == /\ y.body.origin = x.body.origin
                  /\ Len(x.log) <= Len(y.log)
                  /\ \A k \in 1..Len(x.log) : y.log[k] = x.log[k]
Grows == /\ Len(issues) <= Len(issues')
         /\ \A i \in DOMAIN issues : /\ Keeps(issues[i], issues'[i])
                                     /\ ~stray' => Prolongs(issues[i], issues'[i])

\* Nothing is added: no comment, no notice, no issue.
Adds == ~(/\ Len(issues') = Len(issues)
          /\ \A i \in DOMAIN issues : /\ issues'[i].log = issues[i].log
                                      /\ issues'[i].notices = issues[i].notices)

LEMMA Types ==
  /\ Clean \in Drifts /\ Plain \in Texts
  /\ \A rep \in Report : rep.campaign \in Campaigns /\ rep.drift \in Drifts /\ ToApply(rep) \in Applied
                         /\ ToApply(rep).drift = rep.drift
  /\ \A b \in Bodies : /\ b.marker \in {"sound", "broken", "none"} /\ b.seq \in Nat /\ b.origin \in Drifts
                       /\ b.applied \in Applied /\ b.applied.drift \in Drifts
                       /\ b.seq = 0 => b.origin = b.applied.drift
  /\ \A m \in Marker : m.seq \in Nat \ {0} /\ m.prev \in Drifts /\ m.to \in Applied /\ m.to.drift \in Drifts
  /\ \A x \in Issue : /\ x.campaign \in Campaigns /\ x.open \in BOOLEAN /\ x.titled \in BOOLEAN
                      /\ x.hurt \in BOOLEAN /\ x.body \in Bodies
                      /\ x.log \in Seq(Marker) /\ x.notices \in Seq(Campaigns)
BY DriftAssumption DEF Report, ToApply, Applied, Bodies, Marker, Issue

LEMMA IssueTypes ==
  ASSUME issues \in Seq(Issue)
  PROVE  /\ Len(issues) \in Nat /\ DOMAIN issues = 1..Len(issues)
         /\ \A i \in DOMAIN issues :
              /\ issues[i] \in Issue
              /\ Len(issues[i].log) \in Nat /\ DOMAIN issues[i].log = 1..Len(issues[i].log)
              /\ \A k \in 1..Len(issues[i].log) : issues[i].log[k] \in Marker
BY Types

LEMMA NoStateNoBody == NoState \notin Bodies
<1>1. \A b \in Bodies : b = [b EXCEPT !.marker = b.marker] /\ DOMAIN b = {"marker", "seq", "origin", "applied"}
  BY DEF Bodies
<1>2. DOMAIN NoState = {"marker"}
  BY DEF NoState
<1> QED BY <1>1, <1>2

\* One issue changes.
LEMMA OneChanges ==
  ASSUME issues \in Seq(Issue), NEW i \in DOMAIN issues, NEW x \in Issue,
         issues' = [issues EXCEPT ![i] = x]
  PROVE  /\ issues' \in Seq(Issue) /\ Len(issues') = Len(issues) /\ DOMAIN issues' = DOMAIN issues
         /\ issues'[i] = x
         /\ \A j \in DOMAIN issues : j # i => issues'[j] = issues[j]
BY ExceptSeq, IssueTypes

LEMMA ChangeGrows ==
  ASSUME IssuesGood, stray => stray', NEW i \in DOMAIN issues, NEW x \in Issue,
         issues' = [issues EXCEPT ![i] = x],
         Keeps(issues[i], x), ~x.hurt => x.body.marker = "sound",
         ~stray' => Prolongs(issues[i], x) /\ ToldIn(x) /\ StateOf(x, x.body)
  PROVE  IssuesGood' /\ Grows
<1>1. issues \in Seq(Issue) /\ (~stray' => ~stray)
  BY DEF IssuesGood
<1>2. /\ issues' \in Seq(Issue) /\ Len(issues') = Len(issues) /\ DOMAIN issues' = DOMAIN issues
      /\ issues'[i] = x
      /\ \A j \in DOMAIN issues : j # i => issues'[j] = issues[j]
  BY <1>1, OneChanges
<1>3. \A j \in DOMAIN issues : Keeps(issues[j], issues'[j])
  <2>1. \A y : Keeps(y, y)
    BY DEF Keeps
  <2> QED BY <1>2, <2>1
<1>4. \A j \in DOMAIN issues : ~stray' => Prolongs(issues[j], issues'[j])
  <2>1. \A j \in DOMAIN issues : Prolongs(issues[j], issues[j])
    BY <1>1, IssueTypes DEF Prolongs
  <2> QED BY <1>2, <2>1
<1>5. Grows
  BY <1>1, <1>2, <1>3, <1>4, IssueTypes DEF Grows
<1>6. \A j \in DOMAIN issues' : ~issues'[j].hurt => issues'[j].body.marker = "sound"
  BY <1>2 DEF IssuesGood, Sound
<1>7. ~stray' => \A j \in DOMAIN issues' : ToldIn(issues'[j]) /\ StateOf(issues'[j], issues'[j].body)
  BY <1>1, <1>2 DEF IssuesGood
<1>8. OneIssuePerCampaign'
  BY <1>1, <1>2, <1>3 DEF IssuesGood, OneIssuePerCampaign, Keeps
<1> QED BY <1>2, <1>5, <1>6, <1>7, <1>8 DEF IssuesGood, Sound

\* What a change of the issues leaves of what refers to them.
LEMMA StateOfKept ==
  ASSUME NEW x \in Issue, NEW y \in Issue, Prolongs(x, y), NEW b \in Bodies, StateOf(x, b)
  PROVE  StateOf(y, b)
<1>1. Len(x.log) \in Nat /\ Len(y.log) \in Nat /\ b.seq \in Nat
  BY Types
<1> QED BY <1>1 DEF Prolongs, StateOf

LEMMA ReferencesKept ==
  ASSUME IssuesGood, IssuesGood', Grows, stray => stray'
  PROVE  /\ \A i \in DOMAIN issues : i \in DOMAIN issues'
         /\ \A i \in DOMAIN issues, b \in Bodies : ~stray' /\ StateOf(issues[i], b) => StateOf(issues'[i], b)
         /\ \A i \in DOMAIN issues : issues'[i].campaign = issues[i].campaign
                                     /\ (issues[i].hurt => issues'[i].hurt)
         /\ \A i \in DOMAIN issues : ~stray' => issues'[i].body.origin = issues[i].body.origin
<1>1. /\ DOMAIN issues = 1..Len(issues) /\ DOMAIN issues' = 1..Len(issues')
      /\ Len(issues) \in Nat /\ Len(issues') \in Nat /\ Len(issues) <= Len(issues')
      /\ (\A i \in DOMAIN issues : issues[i] \in Issue) /\ (\A i \in DOMAIN issues' : issues'[i] \in Issue)
  <2>1. issues \in Seq(Issue) /\ issues' \in Seq(Issue)
    BY DEF IssuesGood
  <2> QED BY <2>1 DEF Grows
<1>2. \A i \in DOMAIN issues : i \in DOMAIN issues'
  BY <1>1
<1> QED BY <1>1, <1>2, StateOfKept DEF Grows, Keeps, Prolongs

LEMMA RequestKept ==
  ASSUME IssuesGood, IssuesGood', Grows, stray => stray', NEW q, RequestGood(q)
  PROVE  RequestGood(q)'
<1>1. /\ \A i \in DOMAIN issues : i \in DOMAIN issues'
      /\ \A i \in DOMAIN issues, b \in Bodies : ~stray' /\ StateOf(issues[i], b) => StateOf(issues'[i], b)
  BY ReferencesKept
<1>2. ASSUME q[1] = "body" PROVE q[3] \in SoundBody /\ (~stray' => StateOf(issues'[q[2]], q[3]))
  BY <1>1, <1>2 DEF RequestGood, SoundBody
<1> QED BY <1>1, <1>2 DEF RequestGood

LEMMA DraftKept ==
  ASSUME IssuesGood, IssuesGood', Grows, stray => stray', DraftGood, draft' = draft
  PROVE  DraftGood'
<1>1. /\ \A i \in DOMAIN issues : i \in DOMAIN issues'
      /\ \A i \in DOMAIN issues, b \in Bodies : ~stray' /\ StateOf(issues[i], b) => StateOf(issues'[i], b)
      /\ \A i \in DOMAIN issues : issues[i].hurt => issues'[i].hurt
  BY ReferencesKept
<1> QED BY <1>1 DEF DraftGood

LEMMA KnowledgeKept ==
  ASSUME IssuesGood, IssuesGood', Grows, stray => stray',
         NEW r, RunTyped(r), Knows(r), Plans(r)
  PROVE  RunTyped(r)' /\ Knows(r)' /\ Plans(r)'
<1>1. /\ \A i \in DOMAIN issues : i \in DOMAIN issues'
      /\ \A i \in DOMAIN issues, b \in Bodies : ~stray' /\ StateOf(issues[i], b) => StateOf(issues'[i], b)
      /\ \A i \in DOMAIN issues : issues'[i].campaign = issues[i].campaign
      /\ \A i \in DOMAIN issues : ~stray' => issues'[i].body.origin = issues[i].body.origin
  BY ReferencesKept
<1>2. Len(issues) \in Nat /\ Len(issues') \in Nat /\ Len(issues) <= Len(issues')
      /\ DOMAIN issues = 1..Len(issues)
  <2>1. issues \in Seq(Issue) /\ issues' \in Seq(Issue)
    BY DEF IssuesGood
  <2> QED BY <2>1 DEF Grows
<1>3. RunTyped(r)'
  BY <1>1, <1>2 DEF RunTyped
<1>4. r.n # 0 => r.n \in DOMAIN issues
  BY <1>2 DEF RunTyped
<1>5. Knows(r)'
  BY <1>1, <1>4 DEF Knows, SoundBody
<1>6. Plans(r)'
  BY <1>1, <1>4 DEF Plans, SoundBody
<1> QED BY <1>3, <1>5, <1>6

-----------------------------------------------------------------------------
(* The calls *)

LEMMA EffectForms ==
  ASSUME NEW q
  PROVE  LET i == q[2]
         IN /\ q[1] = "create"  => Effect(q, issues) = Append(issues, q[3])
            /\ q[1] = "title"   => Effect(q, issues) = [issues EXCEPT ![i] = [issues[i] EXCEPT !.titled = TRUE]]
            /\ q[1] = "open"    => Effect(q, issues) = [issues EXCEPT ![i] = [issues[i] EXCEPT !.open = q[3]]]
            /\ q[1] = "body"    => Effect(q, issues) = [issues EXCEPT ![i] = [issues[i] EXCEPT !.body = q[3]]]
            /\ q[1] = "comment" => Effect(q, issues) =
                 [issues EXCEPT ![i] = [issues[i] EXCEPT !.log = Append(issues[i].log, q[3])]]
            /\ q[1] = "notice"  => Effect(q, issues) =
                 [issues EXCEPT ![i] = [issues[i] EXCEPT !.notices = Append(issues[i].notices, q[3])]]
BY DEF Effect

\* A call that adds nothing.
LEMMA FieldChanges ==
  ASSUME IssuesGood, stray => stray', NEW i \in DOMAIN issues, NEW x \in Issue,
         issues' = [issues EXCEPT ![i] = x],
         x.campaign = issues[i].campaign, issues[i].hurt => x.hurt,
         x.log = issues[i].log, x.notices = issues[i].notices,
         ~x.hurt => x.body.marker = "sound",
         ~stray' => StateOf(issues[i], x.body)
  PROVE  IssuesGood' /\ Grows /\ ~Adds
<1>1. issues \in Seq(Issue) /\ (~stray' => ~stray)
  BY DEF IssuesGood
<1>2. /\ issues' \in Seq(Issue) /\ Len(issues') = Len(issues) /\ DOMAIN issues' = DOMAIN issues
      /\ issues'[i] = x
      /\ \A j \in DOMAIN issues : j # i => issues'[j] = issues[j]
  BY <1>1, OneChanges
<1>3. ~Adds
  BY <1>2 DEF Adds
<1>4. Keeps(issues[i], x)
  BY DEF Keeps
<1>5. ~stray' => Prolongs(issues[i], x) /\ ToldIn(x) /\ StateOf(x, x.body)
  BY <1>1, IssueTypes DEF IssuesGood, Prolongs, ToldIn, StateOf
<1> QED BY <1>3, <1>4, <1>5, ChangeGrows

LEMMA CallChangesField ==
  ASSUME IssuesGood, stray => stray', NEW q, RequestGood(q), q[1] \in {"title", "open", "body"},
         issues' = Effect(q, issues)
  PROVE  IssuesGood' /\ Grows /\ ~Adds
<1> DEFINE i == q[2]
<1>1. i \in DOMAIN issues /\ issues[i] \in Issue /\ issues[i].hurt \in BOOLEAN
  BY IssueTypes, Types DEF RequestGood, IssuesGood
<1>3. /\ ~issues[i].hurt => issues[i].body.marker = "sound"
      /\ ~stray' => StateOf(issues[i], issues[i].body)
  BY <1>1 DEF IssuesGood, Sound
<1>4. CASE q[1] = "title"
  <2> DEFINE x == [issues[i] EXCEPT !.titled = TRUE]
  <2>1. issues' = [issues EXCEPT ![i] = x]
    BY <1>4, EffectForms
  <2>2. x \in Issue /\ x.campaign = issues[i].campaign /\ x.hurt = issues[i].hurt
        /\ x.log = issues[i].log /\ x.notices = issues[i].notices /\ x.body = issues[i].body
    BY <1>1 DEF Issue
  <2> HIDE DEF x
  <2> QED BY <1>1, <1>3, <2>1, <2>2, FieldChanges
<1>5. CASE q[1] = "open"
  <2> DEFINE x == [issues[i] EXCEPT !.open = q[3]]
  <2>1. issues' = [issues EXCEPT ![i] = x]
    BY <1>5, EffectForms
  <2>2. x \in Issue /\ x.campaign = issues[i].campaign /\ x.hurt = issues[i].hurt
        /\ x.log = issues[i].log /\ x.notices = issues[i].notices /\ x.body = issues[i].body
    BY <1>1, <1>5 DEF Issue, RequestGood
  <2> HIDE DEF x
  <2> QED BY <1>1, <1>3, <2>1, <2>2, FieldChanges
<1>6. CASE q[1] = "body"
  <2> DEFINE x == [issues[i] EXCEPT !.body = q[3]]
  <2>1. issues' = [issues EXCEPT ![i] = x]
    BY <1>6, EffectForms
  <2>2. q[3] \in Bodies /\ q[3].marker = "sound" /\ (~stray' => StateOf(issues[i], q[3]))
    BY <1>6 DEF RequestGood, SoundBody
  <2>3. x \in Issue /\ x.campaign = issues[i].campaign /\ x.hurt = issues[i].hurt
        /\ x.log = issues[i].log /\ x.notices = issues[i].notices /\ x.body = q[3]
    BY <1>1, <2>2 DEF Issue
  <2> HIDE DEF x
  <2> QED BY <1>1, <2>1, <2>2, <2>3, FieldChanges
<1> QED BY <1>4, <1>5, <1>6

\* A comment or a notice is new to its issue, an issue to its campaign.
Fits(q) ==
  /\ q[1] = "comment" => LET x == issues[q[2]]
                         IN q[3].seq = Len(x.log) + 1 /\ q[3].prev = LastDrift(x)
                            /\ q[3].to.drift # q[3].prev
  /\ q[1] = "notice" => \A k \in DOMAIN issues[q[2]].notices : issues[q[2]].notices[k] # q[3]
  /\ q[1] = "create" => /\ ToldIn(q[3]) /\ StateOf(q[3], q[3].body)
                        /\ \A i \in DOMAIN issues : issues[i].campaign = q[3].campaign => issues[i].hurt

LEMMA CommentFits ==
  ASSUME NEW x \in Issue, ToldIn(x), StateOf(x, x.body), NEW m \in Marker,
         m.seq = Len(x.log) + 1, m.prev = LastDrift(x), m.to.drift # m.prev,
         NEW y \in Issue, y.log = Append(x.log, m), y.notices = x.notices, y.body = x.body
  PROVE  Prolongs(x, y) /\ ToldIn(y) /\ StateOf(y, y.body)
<1>1. x.log \in Seq(Marker) /\ x.body.seq \in Nat
  BY Types
<1> DEFINE n == Len(x.log)
<1>2. /\ n \in Nat /\ Len(y.log) = n + 1 /\ DOMAIN y.log = 1..(n+1) /\ y.log[n+1] = m
      /\ \A k \in 1..n : y.log[k] = x.log[k]
      /\ DOMAIN x.log = 1..n
      /\ n = 0 <=> x.log = <<>>
  BY <1>1, AppendProperties
<1>3. Prolongs(x, y)
  BY <1>2 DEF Prolongs
<1>4. StateOf(y, y.body)
  BY <1>1, <1>2 DEF StateOf
<1>5. ASSUME NEW k \in DOMAIN y.log
      PROVE  /\ y.log[k].seq = k
             /\ y.log[k].prev = IF k = 1 THEN y.body.origin ELSE y.log[k-1].to.drift
             /\ y.log[k].to.drift # y.log[k].prev
  <2>1. CASE k \in 1..n
    <3>1. y.log[k] = x.log[k] /\ (k # 1 => y.log[k-1] = x.log[k-1])
      BY <1>2, <2>1
    <3> QED BY <1>2, <2>1, <3>1 DEF ToldIn
  <2>2. CASE k = n + 1
    <3>1. m.prev = IF n = 0 THEN x.body.origin ELSE x.log[n].to.drift
      BY <1>2 DEF LastDrift
    <3>2. n # 0 => y.log[k-1] = x.log[n]
      BY <1>2, <2>2
    <3> QED BY <1>2, <2>2, <3>1, <3>2
  <2> QED BY <1>2, <1>5, <2>1, <2>2
<1> QED BY <1>3, <1>4, <1>5 DEF ToldIn

LEMMA NoticeFits ==
  ASSUME NEW x \in Issue, ToldIn(x), StateOf(x, x.body), NEW c \in Campaigns,
         \A k \in DOMAIN x.notices : x.notices[k] # c,
         NEW y \in Issue, y.notices = Append(x.notices, c), y.log = x.log, y.body = x.body
  PROVE  Prolongs(x, y) /\ ToldIn(y) /\ StateOf(y, y.body)
<1>1. x.notices \in Seq(Campaigns) /\ Len(x.log) \in Nat
  BY Types
<1>2. /\ Len(x.notices) \in Nat /\ DOMAIN x.notices = 1..Len(x.notices)
      /\ DOMAIN y.notices = 1..(Len(x.notices) + 1) /\ y.notices[Len(x.notices) + 1] = c
      /\ \A k \in 1..Len(x.notices) : y.notices[k] = x.notices[k]
  BY <1>1, AppendProperties
<1>3. ~Twice(y.notices)
  BY <1>2 DEF ToldIn, Twice
<1> QED BY <1>1, <1>3 DEF ToldIn, StateOf, Prolongs

LEMMA CallAdds ==
  ASSUME IssuesGood, stray => stray', NEW q, RequestGood(q), q[1] \in {"comment", "notice", "create"},
         ~stray' => Fits(q), issues' = Effect(q, issues)
  PROVE  IssuesGood' /\ Grows
<1> DEFINE i == q[2]
<1>0. /\ issues \in Seq(Issue) /\ (~stray' => ~stray)
      /\ q[1] # "create" => i \in DOMAIN issues
  BY DEF IssuesGood, RequestGood
<1>1. \A j \in DOMAIN issues :
        /\ issues[j] \in Issue /\ issues[j].hurt \in BOOLEAN
        /\ ~issues[j].hurt => issues[j].body.marker = "sound"
        /\ ~stray' => ToldIn(issues[j]) /\ StateOf(issues[j], issues[j].body)
  BY <1>0, IssueTypes, Types DEF IssuesGood, Sound
<1>2. CASE q[1] = "comment"
  <2> DEFINE s == Append(issues[i].log, q[3])
             x == [issues[i] EXCEPT !.log = s]
  <2>1. issues' = [issues EXCEPT ![i] = x]
    BY <1>2, EffectForms
  <2>2. q[3] \in Marker /\ issues[i].log \in Seq(Marker)
    BY <1>0, <1>1, <1>2, Types DEF RequestGood
  <2>3. x \in Issue /\ x.campaign = issues[i].campaign /\ x.hurt = issues[i].hurt
        /\ x.log = Append(issues[i].log, q[3]) /\ x.notices = issues[i].notices /\ x.body = issues[i].body
    <3>1. s \in Seq(Marker) /\ issues[i] \in Issue
      BY <1>0, <1>1, <1>2, <2>2, AppendProperties
    <3> HIDE DEF s
    <3>2. x \in Issue /\ x.campaign = issues[i].campaign /\ x.hurt = issues[i].hurt
          /\ x.log = s /\ x.notices = issues[i].notices /\ x.body = issues[i].body
      BY <3>1 DEF Issue
    <3> QED BY <3>2 DEF s
  <2> HIDE DEF x
  <2>4. ~stray' => Prolongs(issues[i], x) /\ ToldIn(x) /\ StateOf(x, x.body)
    BY <1>0, <1>1, <1>2, <2>2, <2>3, CommentFits DEF Fits
  <2>5. i \in DOMAIN issues /\ Keeps(issues[i], x)
    BY <1>0, <1>2, <2>3 DEF Keeps
  <2>6. ~x.hurt => x.body.marker = "sound"
    BY <1>1, <2>3, <2>5
  <2> QED BY <2>1, <2>3, <2>4, <2>5, <2>6, ChangeGrows
<1>3. CASE q[1] = "notice"
  <2> DEFINE s == Append(issues[i].notices, q[3])
             x == [issues[i] EXCEPT !.notices = s]
  <2>1. issues' = [issues EXCEPT ![i] = x]
    BY <1>3, EffectForms
  <2>2. q[3] \in Campaigns /\ issues[i].notices \in Seq(Campaigns)
    BY <1>0, <1>1, <1>3, Types DEF RequestGood
  <2>3. x \in Issue /\ x.campaign = issues[i].campaign /\ x.hurt = issues[i].hurt
        /\ x.notices = Append(issues[i].notices, q[3]) /\ x.log = issues[i].log /\ x.body = issues[i].body
    <3>1. s \in Seq(Campaigns) /\ issues[i] \in Issue
      BY <1>0, <1>1, <1>3, <2>2, AppendProperties
    <3> HIDE DEF s
    <3>2. x \in Issue /\ x.campaign = issues[i].campaign /\ x.hurt = issues[i].hurt
          /\ x.notices = s /\ x.log = issues[i].log /\ x.body = issues[i].body
      BY <3>1 DEF Issue
    <3> QED BY <3>2 DEF s
  <2> HIDE DEF x
  <2>4. ~stray' => Prolongs(issues[i], x) /\ ToldIn(x) /\ StateOf(x, x.body)
    BY <1>0, <1>1, <1>3, <2>2, <2>3, NoticeFits DEF Fits
  <2>5. i \in DOMAIN issues /\ Keeps(issues[i], x)
    BY <1>0, <1>3, <2>3 DEF Keeps
  <2>6. ~x.hurt => x.body.marker = "sound"
    BY <1>1, <2>3, <2>5
  <2> QED BY <2>1, <2>3, <2>4, <2>5, <2>6, ChangeGrows
<1>4. CASE q[1] = "create"
  <2> DEFINE n == Len(issues)
  <2>1. issues' = Append(issues, q[3])
    BY <1>4, EffectForms
  <2>2. q[3] \in Issue /\ q[3].body.marker = "sound"
    BY <1>4 DEF RequestGood, SoundBody
  <2>3. /\ issues' \in Seq(Issue) /\ n \in Nat /\ Len(issues') = n + 1
        /\ DOMAIN issues = 1..n /\ DOMAIN issues' = 1..(n+1) /\ issues'[n+1] = q[3]
        /\ \A j \in 1..n : issues'[j] = issues[j]
    BY <1>0, <2>1, <2>2, AppendProperties
  <2> HIDE DEF n
  <2>4. Grows
    <3>1. \A j \in DOMAIN issues : Len(issues[j].log) \in Nat
      BY <1>0, IssueTypes
    <3> QED BY <2>3, <3>1 DEF Grows, Keeps, Prolongs, n
  <2>5. \A j \in DOMAIN issues' :
          /\ ~issues'[j].hurt => issues'[j].body.marker = "sound"
          /\ ~stray' => ToldIn(issues'[j]) /\ StateOf(issues'[j], issues'[j].body)
    BY <1>1, <1>4, <2>2, <2>3 DEF Fits
  <2>6. OneIssuePerCampaign'
    BY <1>0, <1>4, <2>3 DEF IssuesGood, OneIssuePerCampaign, Fits
  <2> QED BY <2>3, <2>4, <2>5, <2>6 DEF IssuesGood, Sound
<1> QED BY <1>2, <1>3, <1>4

-----------------------------------------------------------------------------
(* What happens to the issues besides the run *)

LEMMA FirstIsIn ==
  ASSUME NEW S \in SUBSET Nat, S # {}
  PROVE  First(S) \in S
<1> DEFINE Below(i) == S \cap 0..i
           F == {Below(i) : i \in S}
<1>1. F # {} /\ F \subseteq FiniteSubsetsOf(Nat)
  <2>1. ASSUME NEW i \in S PROVE Below(i) \in SUBSET Nat /\ IsFiniteSet(Below(i))
    <3>1. IsFiniteSet(0..i) /\ Below(i) \in SUBSET (0..i)
      BY FS_Interval
    <3> QED BY <3>1, FS_Subset
  <2> QED BY <2>1 DEF FiniteSubsetsOf
<1>2. PICK B \in F : \A C \in F : <<C, B>> \notin StrictSubsetOrdering(Nat)
  <2>1. IsWellFoundedOn(StrictSubsetOrdering(Nat), FiniteSubsetsOf(Nat))
    BY FS_StrictSubsetOrderingWellFounded
  <2> HIDE DEF F
  <2> QED BY <1>1, <2>1, WFMin
<1>3. PICK x \in S : B = Below(x)
  OBVIOUS
<1>4. ASSUME NEW y \in S, y < x PROVE FALSE
  <2>1. Below(y) \subseteq Below(x) /\ x \in Below(x) /\ x \notin Below(y)
    BY <1>4
  <2> HIDE DEF Below
  <2> QED BY <1>2, <1>3, <1>1, <2>1 DEF StrictSubsetOrdering, FiniteSubsetsOf
<1>5. \A y \in S : x <= y
  BY <1>4
<1> QED BY <1>5 DEF First

LEMMA AddsOnceKept ==
  ASSUME IssuesGood, IssuesGood', Grows, stray => stray', ~stray' => ~Adds,
         NEW r, RunTyped(r), Knows(r), AddsOnce(r)
  PROVE  AddsOnce(r)'
<1> SUFFICES ASSUME ~stray' PROVE AddsOnce(r)'
  BY DEF AddsOnce
<1>1. /\ issues \in Seq(Issue) /\ issues' \in Seq(Issue) /\ ~stray /\ Len(issues) \in Nat
      /\ DOMAIN issues = 1..Len(issues) /\ DOMAIN issues' = DOMAIN issues
      /\ \A i \in DOMAIN issues : /\ issues'[i].log = issues[i].log
                                  /\ issues'[i].notices = issues[i].notices
                                  /\ issues'[i].campaign = issues[i].campaign
                                  /\ issues'[i].body.origin = issues[i].body.origin
                                  /\ issues[i].hurt => issues'[i].hurt
  BY ReferencesKept DEF IssuesGood, Adds
<1>2. r.pc = "post" => /\ r.next.seq = Len(issues'[r.n].log) + 1
                       /\ r.prev = LastDrift(issues'[r.n]) /\ r.next.applied.drift # r.prev
  <2> SUFFICES ASSUME r.pc = "post"
               PROVE  /\ r.next.seq = Len(issues'[r.n].log) + 1
                      /\ r.prev = LastDrift(issues'[r.n]) /\ r.next.applied.drift # r.prev
    OBVIOUS
  <2>1. r.n \in DOMAIN issues
    BY <1>1 DEF RunTyped, Knows, Chosen
  <2> QED BY <1>1, <2>1 DEF AddsOnce, LastDrift
<1>3. r.pc = "notice" => ~NoticedBy(r)'
  <2> SUFFICES ASSUME r.pc = "notice" PROVE ~NoticedBy(r)'
    OBVIOUS
  <2>1. First(r.todo) \in DOMAIN issues
    <3>1. r.todo \in SUBSET Nat /\ r.todo # {} /\ r.todo \subseteq DOMAIN issues
      BY <1>1 DEF RunTyped
    <3> QED BY <3>1, FirstIsIn
  <2> QED BY <1>1, <2>1 DEF AddsOnce, NoticedBy
<1> QED BY <1>1, <1>2, <1>3 DEF AddsOnce

LEMMA Assembled ==
  ASSUME NEW r, run' = r, RunTyped(r)', Knows(r)', Plans(r)', AddsOnce(r)'
  PROVE  RunGood'
BY DEF RunGood, RunTyped, Knows, Plans, AddsOnce, NoticedBy

LEMMA Bystander ==
  ASSUME IssuesGood, RunGood, IssuesGood', Grows, stray => stray', ~stray' => ~Adds,
         run' \in {run, [run EXCEPT !.calm = FALSE]}
  PROVE  RunGood'
<1>1. PICK r : r = run
  OBVIOUS
<1>2. RunTyped(r) /\ Knows(r) /\ Plans(r) /\ AddsOnce(r)
  BY <1>1 DEF RunGood
<1>3. RunTyped(r)' /\ Knows(r)' /\ Plans(r)' /\ AddsOnce(r)'
  BY <1>2, KnowledgeKept, AddsOnceKept
<1>4. CASE run' = run
  BY <1>1, <1>3, <1>4, Assembled
<1>5. CASE run' = [run EXCEPT !.calm = FALSE]
  <2>1. PICK s : s = run'
    OBVIOUS
  <2>2. /\ r \in RunRecord /\ s = [r EXCEPT !.calm = FALSE] /\ s \in RunRecord
        /\ s.pc = r.pc /\ s.rep = r.rep /\ s.n = r.n /\ s.start = r.start /\ s.next = r.next
        /\ s.prev = r.prev /\ s.todo = r.todo
    BY <1>1, <1>2, <1>5, <2>1 DEF RunTyped, RunRecord
  <2>3. RunTyped(s)'
    <3>1. r.pc = "idle" => s = Idle
      <4> SUFFICES ASSUME r.pc = "idle" PROVE s = Idle
        OBVIOUS
      <4>1. r = Idle
        BY <1>2 DEF RunTyped
      <4> QED BY <2>2, <4>1 DEF Idle
    <3> QED BY <1>3, <2>2, <3>1 DEF RunTyped
  <2>4. Knows(s)' /\ Plans(s)'
    BY <1>3, <2>2 DEF Knows, Plans
  <2>5. AddsOnce(s)'
    BY <1>3, <2>2 DEF AddsOnce, NoticedBy
  <2> QED BY <2>1, <2>3, <2>4, <2>5, Assembled
<1> QED BY <1>4, <1>5

\* Somebody else touches the issues: the run goes on as it is, and no report is
\* vouched for.
LEMMA TouchedByOthers ==
  ASSUME AuditInvariant, IssuesGood', Grows, stray => stray', ~stray' => ~Adds,
         CountersGood', WireGood', DraftGood',
         run' = [run EXCEPT !.calm = FALSE], claim' = NoReport
  PROVE  AuditInvariant'
<1>1. RunGood'
  BY Bystander DEF AuditInvariant
<1>2. run \in RunRecord
  BY DEF AuditInvariant, RunGood, RunTyped
<1>3. run'.calm = FALSE
  BY <1>2 DEF RunRecord
<1>4. Vouches'
  BY <1>3 DEF Vouches, SuccessMeansRecorded
<1> QED BY <1>1, <1>4 DEF AuditInvariant

LEMMA LateWriteKeeps ==
  ASSUME AuditInvariant, NEW q \in wire, LateWrite(q)
  PROVE  AuditInvariant'
<1>1. /\ issues' = Effect(q, issues) /\ wire' = wire \ {q} /\ claim' = NoReport
      /\ run' = [run EXCEPT !.calm = FALSE] /\ UNCHANGED <<world, changes, faults, draft, edits>>
      /\ stray' = (stray \/ q[1] \in {"create", "comment", "notice"})
  BY DEF LateWrite, World, People
<1>2. IssuesGood /\ RequestGood(q) /\ (stray => stray') /\ stray' \in BOOLEAN
  BY <1>1 DEF AuditInvariant, WireGood, CountersGood
<1>3. IssuesGood' /\ Grows /\ (~stray' => ~Adds)
  <2>1. CASE q[1] \in {"title", "open", "body"}
    BY <1>1, <1>2, <2>1, CallChangesField
  <2>2. CASE q[1] \in {"create", "comment", "notice"}
    BY <1>1, <1>2, <2>2, CallAdds
  <2> QED BY <1>2, <2>1, <2>2 DEF RequestGood
<1>4. WireGood'
  <2>1. \A p \in wire' : RequestGood(p)'
    BY <1>1, <1>2, <1>3, RequestKept DEF AuditInvariant, WireGood
  <2> QED BY <2>1 DEF WireGood
<1>5. DraftGood'
  BY <1>1, <1>2, <1>3, DraftKept DEF AuditInvariant
<1>6. CountersGood'
  BY <1>1, <1>2 DEF AuditInvariant, CountersGood
<1> QED BY <1>1, <1>2, <1>3, <1>4, <1>5, <1>6, TouchedByOthers

\* Somebody changes a field of an issue by hand.
LEMMA EditKeeps ==
  ASSUME AuditInvariant, NEW i \in DOMAIN issues, NEW x \in Issue,
         Edited([issues EXCEPT ![i] = x]),
         x.campaign = issues[i].campaign, issues[i].hurt => x.hurt,
         x.log = issues[i].log, x.notices = issues[i].notices,
         ~x.hurt => x.body.marker = "sound",
         ~stray => StateOf(issues[i], x.body),
         draft' \in {draft, <<>>}, edits' \in 0..MaxEdits,
         UNCHANGED <<world, changes, wire, stray, faults>>
  PROVE  AuditInvariant'
<1>1. /\ issues' = [issues EXCEPT ![i] = x] /\ claim' = NoReport /\ run' = [run EXCEPT !.calm = FALSE]
  BY DEF Edited
<1>2. IssuesGood
  BY DEF AuditInvariant
<1>3. IssuesGood' /\ Grows /\ ~Adds
  BY <1>1, <1>2, FieldChanges
<1>4. WireGood'
  <2>1. \A p \in wire' : RequestGood(p)'
    BY <1>2, <1>3, RequestKept DEF AuditInvariant, WireGood
  <2> QED BY <2>1 DEF WireGood
<1>5. DraftGood'
  <2>1. CASE draft' = draft
    BY <1>2, <1>3, <2>1, DraftKept DEF AuditInvariant
  <2>2. CASE draft' = <<>>
    BY <2>2 DEF DraftGood
  <2> QED BY <2>1, <2>2
<1>6. CountersGood'
  BY <1>1 DEF AuditInvariant, CountersGood
<1> QED BY <1>1, <1>3, <1>4, <1>5, <1>6, TouchedByOthers

LEMMA ByHandKeeps ==
  ASSUME AuditInvariant, ByHand
  PROVE  AuditInvariant'
<1>0. UNCHANGED <<world, changes, wire, stray, faults>>
  BY DEF ByHand, World
<1>1. \A i \in DOMAIN issues :
        /\ issues[i] \in Issue /\ issues[i].body \in Bodies /\ issues[i].hurt \in BOOLEAN
        /\ issues[i].open \in BOOLEAN
        /\ ~issues[i].hurt => issues[i].body.marker = "sound"
        /\ ~stray => StateOf(issues[i], issues[i].body)
  BY IssueTypes, Types DEF AuditInvariant, IssuesGood, Sound
<1>2. ASSUME Edit PROVE edits' \in 0..MaxEdits
  BY <1>2, BoundAssumption DEF Edit, AuditInvariant, CountersGood
<1>3. ASSUME NEW i \in DOMAIN issues, CloseByHand(i) PROVE AuditInvariant'
  <2> DEFINE x == [issues[i] EXCEPT !.open = ~@]
  <2>1. Edited([issues EXCEPT ![i] = x]) /\ Edit /\ draft' = draft
    BY <1>3 DEF CloseByHand
  <2>2. x \in Issue /\ x.campaign = issues[i].campaign /\ x.hurt = issues[i].hurt
        /\ x.log = issues[i].log /\ x.notices = issues[i].notices /\ x.body = issues[i].body
    BY <1>1 DEF Issue
  <2> HIDE DEF x
  <2> QED BY <1>0, <1>1, <1>2, <2>1, <2>2, EditKeeps
<1>4. ASSUME NEW i \in DOMAIN issues, Rename(i) PROVE AuditInvariant'
  <2> DEFINE x == [issues[i] EXCEPT !.titled = FALSE]
  <2>1. Edited([issues EXCEPT ![i] = x]) /\ Edit /\ draft' = draft
    BY <1>4 DEF Rename
  <2>2. x \in Issue /\ x.campaign = issues[i].campaign /\ x.hurt = issues[i].hurt
        /\ x.log = issues[i].log /\ x.notices = issues[i].notices /\ x.body = issues[i].body
    BY <1>1 DEF Issue
  <2> HIDE DEF x
  <2> QED BY <1>0, <1>1, <1>2, <2>1, <2>2, EditKeeps
<1>5. ASSUME NEW i \in DOMAIN issues, Damage(i) PROVE AuditInvariant'
  <2>1. PICK how \in {"broken", "none"} :
          Edited([issues EXCEPT ![i].body.marker = how, ![i].hurt = TRUE])
    BY <1>5 DEF Damage
  <2> DEFINE b == [issues[i].body EXCEPT !.marker = how]
             x == [issues[i] EXCEPT !.body = b, !.hurt = TRUE]
  <2>2. b \in Bodies /\ b.origin = issues[i].body.origin /\ b.seq = issues[i].body.seq
        /\ b.applied = issues[i].body.applied
    BY <1>1 DEF Bodies
  <2>3. [issues EXCEPT ![i].body.marker = how, ![i].hurt = TRUE] = [issues EXCEPT ![i] = x]
    BY <1>1 DEF AuditInvariant, IssuesGood, Issue
  <2>4. Edited([issues EXCEPT ![i] = x]) /\ Edit /\ draft' = draft
    BY <1>5, <2>1, <2>3 DEF Damage
  <2> HIDE DEF b
  <2>5. x \in Issue /\ x.campaign = issues[i].campaign /\ x.hurt
        /\ x.log = issues[i].log /\ x.notices = issues[i].notices /\ x.body = b
    BY <1>1, <2>2 DEF Issue
  <2> HIDE DEF x
  <2>6. ~stray => StateOf(issues[i], x.body)
    BY <1>1, <2>2, <2>5 DEF StateOf
  <2> QED BY <1>0, <1>1, <1>2, <2>4, <2>5, <2>6, EditKeeps
<1>6. ASSUME NEW i \in DOMAIN issues, OpenForm(i) PROVE AuditInvariant'
  <2>1. draft' = <<i, issues[i].body>> /\ UNCHANGED <<issues, run, claim>> /\ edits' \in 0..MaxEdits
    BY <1>2, <1>6 DEF OpenForm
  <2>2. DraftGood'
    BY <1>0, <1>1, <2>1 DEF DraftGood, SoundBody
  <2> QED BY <1>0, <2>1, <2>2 DEF AuditInvariant, CountersGood, IssuesGood, OneIssuePerCampaign, Sound,
            WireGood, RequestGood, RunGood, RunTyped, Knows, Plans, AddsOnce, NoticedBy,
            Vouches, SuccessMeansRecorded, At, IssuesVerified, Recorded, ListRaises, Ambiguous, Others,
            Damaged, Matches, Listed, Duplicates, Complete
<1>7. ASSUME SaveForm PROVE AuditInvariant'
  <2> DEFINE i == draft[1]
             x == [issues[i] EXCEPT !.body = draft[2]]
  <2>1. draft # <<>> /\ draft' = <<>> /\ edits' = edits
        /\ Edited([issues EXCEPT ![i] = x])
    BY <1>7 DEF SaveForm
  <2>2. /\ i \in DOMAIN issues /\ draft[2] \in Bodies
        /\ ~issues[i].hurt => draft[2].marker = "sound"
        /\ ~stray => StateOf(issues[i], draft[2])
    BY <2>1 DEF AuditInvariant, DraftGood, SoundBody
  <2>3. x \in Issue /\ x.campaign = issues[i].campaign /\ x.hurt = issues[i].hurt
        /\ x.log = issues[i].log /\ x.notices = issues[i].notices /\ x.body = draft[2]
    BY <1>1, <2>2 DEF Issue
  <2>4. edits' \in 0..MaxEdits
    BY <2>1 DEF AuditInvariant, CountersGood
  <2> HIDE DEF x
  <2> QED BY <1>0, <1>1, <2>1, <2>2, <2>3, <2>4, EditKeeps
<1> QED BY <1>3, <1>4, <1>5, <1>6, <1>7 DEF ByHand

-----------------------------------------------------------------------------
(* The steps of a run *)

LEMMA IdleKnows ==
  ASSUME issues \in Seq(Issue)
  PROVE  RunTyped(Idle) /\ Knows(Idle) /\ Plans(Idle) /\ AddsOnce(Idle)
<1>1. Idle \in RunRecord
  BY Types DEF Idle, RunRecord, Phases, Early
<1>2. Len(issues) \in Nat
  OBVIOUS
<1> QED BY <1>1, <1>2 DEF Idle, RunTyped, Knows, Plans, AddsOnce, Chosen, Ending, Early

\* A run that is in progress reads, or is over, and goes on as r.
LEMMA ReadStep ==
  ASSUME AuditInvariant, Reads, UNCHANGED <<World, People, stray, claim>>, ~At("idle"),
         NEW r, run' = r, RunTyped(r), Knows(r), Plans(r), AddsOnce(r),
         r.pc = "history" /\ r.calm => IssuesVerified'
  PROVE  AuditInvariant'
<1>1. UNCHANGED <<issues, wire, faults, world, changes, draft, edits, stray, claim>>
  BY DEF Reads, World, People
<1>2. RunGood'
  <2>1. RunTyped(r)' /\ Knows(r)' /\ Plans(r)' /\ AddsOnce(r)'
    BY <1>1 DEF RunTyped, Knows, Plans, AddsOnce, NoticedBy
  <2> QED BY <2>1, Assembled
<1>3. Vouches'
  BY <1>1 DEF AuditInvariant, Vouches, SuccessMeansRecorded, At
<1>4. CountersGood' /\ DraftGood' /\ WireGood'
  BY <1>1 DEF AuditInvariant, CountersGood, DraftGood, WireGood, RequestGood
<1>5. IssuesGood'
  BY <1>1 DEF AuditInvariant, IssuesGood, OneIssuePerCampaign, Sound
<1> QED BY <1>2, <1>3, <1>4, <1>5 DEF AuditInvariant

\* What a write leaves behind, whether it is answered, took effect, or not.
Sends(q) == /\ \/ wire' = wire /\ issues' \in {issues, Effect(q, issues)}
               \/ wire' = wire \union {q} /\ issues' = issues
            /\ faults' \in 0..MaxFaults
            /\ UNCHANGED <<World, People, stray, claim>>

LEMMA WriteKeeps ==
  ASSUME AuditInvariant, NEW q, RequestGood(q), Sends(q),
         q[1] \in {"create", "comment", "notice"} /\ ~stray => Fits(q)
  PROVE  IssuesGood' /\ Grows /\ WireGood' /\ DraftGood' /\ CountersGood'
<1>1. UNCHANGED <<world, changes, draft, edits, stray, claim>> /\ faults' \in 0..MaxFaults
      /\ issues' \in {issues, Effect(q, issues)} /\ wire' \subseteq wire \union {q}
  BY DEF Sends, World, People
<1>2. IssuesGood
  BY DEF AuditInvariant
<1>3. IssuesGood' /\ Grows
  <2>1. CASE issues' = issues
    <3>1. IssuesGood'
      BY <1>1, <1>2, <2>1 DEF IssuesGood, OneIssuePerCampaign, Sound
    <3> QED BY <1>2, <2>1, <3>1, IssueTypes DEF IssuesGood, Grows, Keeps, Prolongs
  <2>2. CASE issues' = Effect(q, issues) /\ q[1] \in {"title", "open", "body"}
    BY <1>1, <1>2, <2>2, CallChangesField
  <2>3. CASE issues' = Effect(q, issues) /\ q[1] \in {"create", "comment", "notice"}
    BY <1>1, <1>2, <2>3, CallAdds
  <2> QED BY <1>1, <2>1, <2>2, <2>3 DEF RequestGood
<1>4. \A p \in wire \union {q} : RequestGood(p)'
  BY <1>1, <1>2, <1>3, RequestKept DEF AuditInvariant, WireGood
<1>5. WireGood'
  BY <1>1, <1>4 DEF WireGood
<1>6. DraftGood'
  BY <1>1, <1>2, <1>3, DraftKept DEF AuditInvariant
<1>7. CountersGood'
  BY <1>1 DEF AuditInvariant, CountersGood
<1> QED BY <1>3, <1>5, <1>6, <1>7

\* A run that is in progress writes, and goes on as r.
LEMMA WriteStep ==
  ASSUME AuditInvariant, ~At("idle"), NEW q, RequestGood(q), Sends(q),
         q[1] \in {"create", "comment", "notice"} /\ ~stray => Fits(q),
         NEW r, run' = r, r.pc \notin {"create", "post", "notice", "history"},
         RunTyped(r)', Knows(r)', Plans(r)'
  PROVE  AuditInvariant'
<1>1. IssuesGood' /\ WireGood' /\ DraftGood' /\ CountersGood'
  BY WriteKeeps
<1>2. AddsOnce(r)'
  BY DEF AddsOnce
<1>3. RunGood'
  BY <1>2, Assembled
<1>4. Vouches'
  BY DEF AuditInvariant, Vouches, SuccessMeansRecorded, At, Sends
<1> QED BY <1>1, <1>3, <1>4 DEF AuditInvariant

\* A run that writes and then only knows what it knew before.
LEMMA WriteOn ==
  ASSUME AuditInvariant, ~At("idle"), NEW q, RequestGood(q), Sends(q),
         q[1] \in {"create", "comment", "notice"} /\ ~stray => Fits(q),
         NEW r, run' = r, r.pc \notin {"create", "post", "notice", "history"},
         RunTyped(r), Knows(r), Plans(r)
  PROVE  AuditInvariant'
<1>1. IssuesGood' /\ Grows /\ stray' = stray
  BY WriteKeeps DEF Sends
<1>2. RunTyped(r)' /\ Knows(r)' /\ Plans(r)'
  BY <1>1, KnowledgeKept DEF AuditInvariant
<1> QED BY <1>2, WriteStep

\* What every step of a run starts from.
LEMMA Underway ==
  ASSUME AuditInvariant, ~At("idle")
  PROVE  /\ run \in RunRecord /\ run.rep \in Report /\ IssuesGood
         /\ issues \in Seq(Issue) /\ Len(issues) \in Nat /\ DOMAIN issues = 1..Len(issues)
         /\ RunTyped(run) /\ Knows(run) /\ Plans(run) /\ AddsOnce(run)
         /\ \A i \in DOMAIN issues :
              /\ issues[i] \in Issue /\ issues[i].body \in Bodies /\ issues[i].open \in BOOLEAN
              /\ issues[i].titled \in BOOLEAN
              /\ ~stray => ToldIn(issues[i]) /\ StateOf(issues[i], issues[i].body)
         /\ run.n \in 0..Len(issues) /\ run.todo \subseteq DOMAIN issues /\ run.todo \in SUBSET Nat
BY IssueTypes, Types DEF AuditInvariant, IssuesGood, RunGood, RunTyped, At

\* The run is over.
LEMMA FailKeeps ==
  ASSUME AuditInvariant, ~At("idle"), Fail, Reads, UNCHANGED <<World, People, stray, claim>>
  PROVE  AuditInvariant'
<1>1. Idle.pc = "idle"
  BY DEF Idle
<1> QED BY <1>1, Underway, IdleKnows, ReadStep DEF Fail

LEMMA FailWriting ==
  ASSUME AuditInvariant, ~At("idle"), Fail, NEW q, RequestGood(q), Sends(q),
         q[1] \in {"create", "comment", "notice"} /\ ~stray => Fits(q)
  PROVE  AuditInvariant'
<1>1. Idle.pc = "idle"
  BY DEF Idle
<1> QED BY <1>1, Underway, IdleKnows, WriteOn DEF Fail

\* A write, as the step of a run in progress.
LEMMA WriteSends ==
  ASSUME AuditInvariant, UNCHANGED <<World, People, stray, claim>>,
         NEW q, NEW ACTION done, NEW ACTION lost, Write(q, done, lost)
  PROVE  Sends(q) /\ (lost \/ (done /\ issues' = Effect(q, issues)))
<1>1. faults \in 0..MaxFaults /\ MaxFaults \in Nat
  BY BoundAssumption DEF AuditInvariant, CountersGood
<1>2. \/ issues' = Effect(q, issues) /\ done /\ wire' = wire /\ faults' = faults
      \/ /\ faults < MaxFaults /\ faults' = faults + 1 /\ lost
         /\ \/ issues' \in {issues, Effect(q, issues)} /\ wire' = wire
            \/ issues' = issues /\ wire' = wire \union {q}
  BY DEF Write, Fault
<1>3. faults' \in 0..MaxFaults
  BY <1>1, <1>2
<1> QED BY <1>2, <1>3 DEF Sends

LEMMA DiesKeeps ==
  ASSUME AuditInvariant, Killed
  PROVE  AuditInvariant'
<1>1. /\ run' = Idle /\ ~At("idle") /\ faults' \in 0..MaxFaults
      /\ UNCHANGED <<issues, wire, world, changes, draft, edits, stray, claim>>
  BY BoundAssumption DEF Killed, Dies, Fault, Fail, World, People, AuditInvariant, CountersGood
<1>2. RunGood'
  <2>1. RunTyped(Idle) /\ Knows(Idle) /\ Plans(Idle) /\ AddsOnce(Idle)
    BY <1>1, Underway, IdleKnows
  <2> QED BY <1>1, <2>1 DEF RunGood, RunTyped, Knows, Plans, AddsOnce, NoticedBy
<1>3. Vouches'
  BY <1>1 DEF AuditInvariant, Vouches, SuccessMeansRecorded, At, Idle
<1>4. CountersGood' /\ DraftGood' /\ WireGood' /\ IssuesGood'
  BY <1>1 DEF AuditInvariant, CountersGood, DraftGood, WireGood, RequestGood, IssuesGood,
              OneIssuePerCampaign, Sound
<1> QED BY <1>2, <1>3, <1>4 DEF AuditInvariant

LEMMA BeginKeeps ==
  ASSUME AuditInvariant, Begin
  PROVE  AuditInvariant'
<1>1. /\ run' = [Idle EXCEPT !.rep = world, !.calm = TRUE, !.pc = "list"] /\ claim' = NoReport
      /\ UNCHANGED <<issues, wire, world, changes, draft, edits, stray, faults>>
  BY DEF Begin, Start, Go, Reads, World, People, Idle
<1>2. world \in Report /\ issues \in Seq(Issue)
  BY DEF AuditInvariant, CountersGood, IssuesGood
<1>3. PICK r : r = run'
  OBVIOUS
<1>4. r \in RunRecord /\ r.pc = "list" /\ r.rep = world /\ r.n = 0 /\ r.todo = {}
  BY <1>1, <1>2, <1>3, Types DEF Idle, RunRecord, Phases, Early
<1>5. RunTyped(r)' /\ Knows(r)' /\ Plans(r)' /\ AddsOnce(r)'
  BY <1>1, <1>2, <1>4 DEF RunTyped, Knows, Plans, AddsOnce, Chosen, Ending
<1>6. RunGood'
  BY <1>3, <1>5, Assembled
<1>7. Vouches'
  BY <1>1, <1>3, <1>4 DEF Vouches, SuccessMeansRecorded, At
<1>8. CountersGood' /\ DraftGood' /\ WireGood' /\ IssuesGood'
  BY <1>1 DEF AuditInvariant, CountersGood, DraftGood, WireGood, RequestGood, IssuesGood,
              OneIssuePerCampaign, Sound
<1> QED BY <1>6, <1>7, <1>8 DEF AuditInvariant

LEMMA ChangeKeeps ==
  ASSUME AuditInvariant, Change
  PROVE  AuditInvariant'
<1>1. /\ world' \in Report /\ changes' \in 0..MaxChanges
      /\ UNCHANGED <<issues, run, wire, draft, edits, claim, stray, faults>>
  BY BoundAssumption DEF Change, People, AuditInvariant, CountersGood
<1> QED BY <1>1 DEF AuditInvariant, CountersGood, IssuesGood, OneIssuePerCampaign, Sound,
          WireGood, RequestGood, DraftGood, RunGood, RunTyped, Knows, Plans, AddsOnce, NoticedBy,
          Vouches, SuccessMeansRecorded, At, IssuesVerified, Recorded, ListRaises, Ambiguous, Others,
          Damaged, Matches, Listed, Duplicates, Complete

-----------------------------------------------------------------------------
(* The steps that find the campaign's issue *)

Same(r, s) == /\ s.rep = r.rep /\ s.n = r.n /\ s.start = r.start /\ s.next = r.next
              /\ s.prev = r.prev /\ s.todo = r.todo

\* A run that has learned nothing goes on to p.
LEMMA GoesOn ==
  ASSUME NEW r, NEW s \in RunRecord, RunTyped(r), Knows(r), Same(r, s),
         r.pc # "idle", s.pc # "idle", s.pc \notin {"list", "create", "look"} \/ s.n = 0,
         s.pc \in Chosen => s.n # 0,
         s.pc \in Ending /\ s.n = 0 => s.rep.drift = Clean,
         s.pc \in {"notice", "notified", "close"} => s.todo # {}
  PROVE  RunTyped(s) /\ Knows(s)
BY DEF RunTyped, Knows, Same

LEMMA Goes ==
  ASSUME NEW r \in RunRecord, NEW p \in Phases
  PROVE  LET s == [r EXCEPT !.pc = p] IN s \in RunRecord /\ s.pc = p /\ Same(r, s) /\ s.calm = r.calm
BY DEF RunRecord, Same

LEMMA GoesOpen ==
  ASSUME NEW r \in RunRecord, NEW p \in Phases, NEW b \in BOOLEAN
  PROVE  LET s == [[r EXCEPT !.open = b] EXCEPT !.pc = p]
         IN s \in RunRecord /\ s.pc = p /\ Same(r, s)
BY DEF RunRecord, Same

Unmoved == UNCHANGED <<World, People, stray, claim>>

LEMMA ListKeeps ==
  ASSUME AuditInvariant, List, Unmoved
  PROVE  AuditInvariant'
<1>1. ~At("idle") /\ run.pc = "list" /\ Reads
  BY DEF List, At
<1>2. /\ run \in RunRecord /\ run.rep \in Report /\ issues \in Seq(Issue) /\ Len(issues) \in Nat
      /\ DOMAIN issues = 1..Len(issues) /\ run.n = 0
      /\ \A i \in DOMAIN issues : /\ issues[i].body \in Bodies /\ issues[i].open \in BOOLEAN
                                  /\ issues[i].titled \in BOOLEAN
                                  /\ ~stray => StateOf(issues[i], issues[i].body)
                                  /\ ~issues[i].hurt => Sound(i)
  BY <1>1, Underway DEF Knows, IssuesGood
<1> DEFINE c == run.rep.campaign
<1>3. Others(c) \subseteq DOMAIN issues /\ Others(c) \in SUBSET Nat
  BY <1>2 DEF Others
<1>4. CASE Fail
  BY <1>1, <1>4, FailKeeps DEF Unmoved
<1>5. CASE /\ Matches(c) = {}
           /\ Go([run EXCEPT !.todo = Others(c)], IF run.rep.drift = Clean THEN "others" ELSE "create")
  <2> DEFINE p == IF run.rep.drift = Clean THEN "others" ELSE "create"
             s == [[run EXCEPT !.todo = Others(c)] EXCEPT !.pc = p]
  <2>1. run' = s
    BY <1>5 DEF Go
  <2>2. s \in RunRecord /\ s.pc = p /\ s.rep = run.rep /\ s.n = 0 /\ s.todo = Others(c)
    BY <1>2, <1>3 DEF RunRecord, Phases, Early, Ending
  <2>3. p \in {"others", "create"} /\ (p = "others" => run.rep.drift = Clean)
    OBVIOUS
  <2> HIDE DEF s, p
  <2>4. RunTyped(s) /\ Knows(s) /\ Plans(s)
    BY <1>2, <1>3, <2>2, <2>3 DEF RunTyped, Knows, Plans, Chosen, Ending
  <2>5. AddsOnce(s)
    BY <1>2, <1>5, <2>2, <2>3 DEF AddsOnce, Matches
  <2> QED BY <1>1, <2>1, <2>2, <2>3, <2>4, <2>5, ReadStep DEF Unmoved
<1>6. CASE \E i \in Matches(c) :
             Go([[run EXCEPT !.todo = Others(c)] EXCEPT
                   !.n = i, !.open = issues[i].open, !.titled = issues[i].titled,
                   !.start = issues[i].body], "identity")
  <2>1. PICK i \in Matches(c) :
             Go([[run EXCEPT !.todo = Others(c)] EXCEPT
                   !.n = i, !.open = issues[i].open, !.titled = issues[i].titled,
                   !.start = issues[i].body], "identity")
    BY <1>6
  <2> DEFINE s == [[[run EXCEPT !.todo = Others(c)] EXCEPT
                   !.n = i, !.open = issues[i].open, !.titled = issues[i].titled,
                   !.start = issues[i].body] EXCEPT !.pc = "identity"]
  <2>2. run' = s
    BY <2>1 DEF Go
  <2>3. i \in DOMAIN issues /\ i \in Nat /\ i # 0 /\ issues[i].campaign = c /\ issues[i].body \in SoundBody
    BY <1>2 DEF Matches, Sound, SoundBody
  <2>4. s \in RunRecord /\ s.pc = "identity" /\ s.rep = run.rep /\ s.n = i /\ s.todo = Others(c)
        /\ s.start = issues[i].body
    BY <1>2, <1>3, <2>3 DEF RunRecord, Phases, Early
  <2> HIDE DEF s
  <2>5. RunTyped(s) /\ Knows(s) /\ Plans(s) /\ AddsOnce(s)
    BY <1>2, <1>3, <2>3, <2>4 DEF RunTyped, Knows, Plans, AddsOnce, Ending, Early
  <2> QED BY <1>1, <2>2, <2>4, <2>5, ReadStep DEF Unmoved
<1> QED BY <1>4, <1>5, <1>6 DEF List

LEMMA IdentityKeeps ==
  ASSUME AuditInvariant, Identity, Unmoved
  PROVE  AuditInvariant'
<1>1. ~At("idle") /\ run.pc = "identity"
  BY DEF Identity, At
<1>2. /\ run \in RunRecord /\ RunTyped(run) /\ Knows(run) /\ run.n \in DOMAIN issues /\ run.n # 0
      /\ issues[run.n].open \in BOOLEAN
  BY <1>1, Underway DEF Knows, Chosen
<1>3. CASE Go(run, "reopen") /\ Reads
  <2> DEFINE s == [run EXCEPT !.pc = "reopen"]
  <2>1. s \in RunRecord /\ s.pc = "reopen" /\ Same(run, s)
    BY <1>2, Goes DEF Phases, Early
  <2>2. run' = s
    BY <1>3 DEF Go
  <2> HIDE DEF s
  <2>3. RunTyped(s) /\ Knows(s) /\ Plans(s) /\ AddsOnce(s)
    BY <1>1, <1>2, <2>1, GoesOn DEF Plans, AddsOnce, Ending, Early, Same
  <2> QED BY <1>1, <1>3, <2>1, <2>2, <2>3, ReadStep DEF Unmoved
<1>4. CASE Write(<<"title", run.n, TRUE>>, Go([run EXCEPT !.open = issues[run.n].open], "reopen"), Fail)
  <2> DEFINE q == <<"title", run.n, TRUE>>
  <2>1. Sends(q) /\ (Fail \/ Go([run EXCEPT !.open = issues[run.n].open], "reopen"))
    BY <1>4, WriteSends DEF Unmoved
  <2>2. RequestGood(q) /\ q[1] = "title"
    BY <1>2 DEF RequestGood
  <2> HIDE DEF q
  <2>3. CASE Fail
    BY <1>1, <2>1, <2>2, <2>3, FailWriting
  <2>4. CASE Go([run EXCEPT !.open = issues[run.n].open], "reopen")
    <3> DEFINE s == [[run EXCEPT !.open = issues[run.n].open] EXCEPT !.pc = "reopen"]
    <3>1. s \in RunRecord /\ s.pc = "reopen" /\ Same(run, s)
      BY <1>2, GoesOpen DEF Phases, Early
    <3>2. run' = s
      BY <2>4 DEF Go
    <3> HIDE DEF s
    <3>3. RunTyped(s) /\ Knows(s) /\ Plans(s)
      BY <1>1, <1>2, <3>1, GoesOn DEF Plans, Ending, Early, Same
    <3> QED BY <1>1, <2>1, <2>2, <3>1, <3>2, <3>3, WriteOn
  <2> QED BY <2>1, <2>3, <2>4
<1> QED BY <1>3, <1>4 DEF Identity

LEMMA ReopenKeeps ==
  ASSUME AuditInvariant, Reopen, Unmoved
  PROVE  AuditInvariant'
<1>1. ~At("idle") /\ run.pc = "reopen"
  BY DEF Reopen, At
<1>2. run \in RunRecord /\ RunTyped(run) /\ Knows(run) /\ run.n \in DOMAIN issues /\ run.n # 0
  BY <1>1, Underway DEF Knows, Chosen
<1>3. CASE Go(run, "comments") /\ Reads
  <2> DEFINE s == [run EXCEPT !.pc = "comments"]
  <2>1. s \in RunRecord /\ s.pc = "comments" /\ Same(run, s)
    BY <1>2, Goes DEF Phases, Early
  <2>2. run' = s
    BY <1>3 DEF Go
  <2> HIDE DEF s
  <2>3. RunTyped(s) /\ Knows(s) /\ Plans(s) /\ AddsOnce(s)
    BY <1>1, <1>2, <2>1, GoesOn DEF Plans, AddsOnce, Ending, Early, Same
  <2> QED BY <1>1, <1>3, <2>1, <2>2, <2>3, ReadStep DEF Unmoved
<1>4. CASE Write(<<"open", run.n, TRUE>>, Go([run EXCEPT !.open = TRUE], "comments"), Fail)
  <2> DEFINE q == <<"open", run.n, TRUE>>
  <2>1. Sends(q) /\ (Fail \/ Go([run EXCEPT !.open = TRUE], "comments"))
    BY <1>4, WriteSends DEF Unmoved
  <2>2. RequestGood(q) /\ q[1] = "open"
    BY <1>2 DEF RequestGood
  <2> HIDE DEF q
  <2>3. CASE Fail
    BY <1>1, <2>1, <2>2, <2>3, FailWriting
  <2>4. CASE Go([run EXCEPT !.open = TRUE], "comments")
    <3> DEFINE s == [[run EXCEPT !.open = TRUE] EXCEPT !.pc = "comments"]
    <3>1. s \in RunRecord /\ s.pc = "comments" /\ Same(run, s)
      BY <1>2, GoesOpen DEF Phases, Early
    <3>2. run' = s
      BY <2>4 DEF Go
    <3> HIDE DEF s
    <3>3. RunTyped(s) /\ Knows(s) /\ Plans(s)
      BY <1>1, <1>2, <3>1, GoesOn DEF Plans, Ending, Early, Same
    <3> QED BY <1>1, <2>1, <2>2, <3>1, <3>2, <3>3, WriteOn
  <2> QED BY <2>1, <2>3, <2>4
<1> QED BY <1>3, <1>4 DEF Reopen

LEMMA NewIssueGood ==
  ASSUME NEW rep \in Report
  PROVE  LET x == NewIssue(rep)
         IN /\ x \in Issue /\ x.campaign = rep.campaign /\ x.body \in SoundBody /\ x.open \in BOOLEAN
            /\ ToldIn(x) /\ StateOf(x, x.body)
<1>1. rep.campaign \in Campaigns /\ rep.drift \in Drifts /\ ToApply(rep) \in Applied
      /\ ToApply(rep).drift = rep.drift
  BY Types
<1> DEFINE b == State(0, rep.drift, ToApply(rep))
<1>2. b \in SoundBody /\ b.origin = rep.drift /\ b.seq = 0
  BY <1>1 DEF State, SoundBody, Bodies
<1> HIDE DEF b
<1>3. /\ NewIssue(rep) = [campaign |-> rep.campaign, open |-> TRUE, titled |-> TRUE, hurt |-> FALSE,
                          body |-> b, log |-> <<>>, notices |-> <<>>]
      /\ b \in Bodies
  BY <1>2 DEF NewIssue, b, SoundBody
<1>4. NewIssue(rep) \in Issue
  BY <1>1, <1>3 DEF Issue
<1> QED BY <1>2, <1>3, <1>4 DEF ToldIn, StateOf, Twice

LEMMA FoundKeeps ==
  ASSUME NEW s \in RunRecord, s.pc = "comments", s.rep \in Report, s.todo \subseteq DOMAIN issues,
         issues \in Seq(Issue), s.n \in DOMAIN issues, issues[s.n].campaign = s.rep.campaign,
         s.start \in SoundBody, ~stray => StateOf(issues[s.n], s.start)
  PROVE  RunTyped(s) /\ Knows(s) /\ Plans(s) /\ AddsOnce(s)
<1>1. Len(issues) \in Nat /\ DOMAIN issues = 1..Len(issues) /\ s.n \in Nat /\ s.n # 0
  OBVIOUS
<1> QED BY <1>1 DEF RunTyped, Knows, Plans, AddsOnce, Ending, Early

LEMMA LookKeeps ==
  ASSUME AuditInvariant, Look, Unmoved
  PROVE  AuditInvariant'
<1>1. ~At("idle") /\ run.pc = "look" /\ Reads
  BY DEF Look, At
<1>2. CASE Fail
  BY <1>1, <1>2, FailKeeps DEF Unmoved
<1>3. CASE \E i \in Matches(run.rep.campaign) : Found(i, issues[i])
  <2>1. PICK i \in Matches(run.rep.campaign) : Found(i, issues[i])
    BY <1>3
  <2>2. i \in DOMAIN issues /\ issues[i].campaign = run.rep.campaign /\ issues[i].body \in SoundBody
        /\ issues[i].open \in BOOLEAN /\ (~stray => StateOf(issues[i], issues[i].body))
    BY <1>1, Underway DEF Matches, Sound, SoundBody
  <2>3. PICK s : run' = s /\ s = [[run EXCEPT !.n = i, !.open = issues[i].open, !.start = issues[i].body]
                                     EXCEPT !.pc = "comments"]
    BY <2>1 DEF Found, Go
  <2>4. run \in RunRecord /\ run.rep \in Report /\ run.todo \subseteq DOMAIN issues /\ issues \in Seq(Issue)
        /\ i \in Nat
    BY <1>1, <2>2, Underway
  <2>5. s \in RunRecord /\ s.pc = "comments" /\ s.rep = run.rep /\ s.n = i /\ s.todo = run.todo
        /\ s.start = issues[i].body
    BY <2>2, <2>3, <2>4 DEF RunRecord, Phases, Early, SoundBody
  <2>6. RunTyped(s) /\ Knows(s) /\ Plans(s) /\ AddsOnce(s)
    BY <2>2, <2>4, <2>5, FoundKeeps
  <2> QED BY <1>1, <2>3, <2>5, <2>6, ReadStep DEF Unmoved
<1> QED BY <1>2, <1>3 DEF Look

LEMMA CreateKeeps ==
  ASSUME AuditInvariant, Create, Unmoved
  PROVE  AuditInvariant'
<1>1. ~At("idle") /\ run.pc = "create"
  BY DEF Create, At
<1>2. /\ run \in RunRecord /\ RunTyped(run) /\ Knows(run) /\ run.n = 0 /\ run.rep \in Report
      /\ issues \in Seq(Issue) /\ Len(issues) \in Nat /\ DOMAIN issues = 1..Len(issues)
      /\ run.todo \subseteq DOMAIN issues
  BY <1>1, Underway DEF Knows
<1> DEFINE x == NewIssue(run.rep)
           q == <<"create", 0, x>>
<1>3. /\ x \in Issue /\ x.campaign = run.rep.campaign /\ x.body \in SoundBody /\ x.open \in BOOLEAN
      /\ ToldIn(x) /\ StateOf(x, x.body)
  BY <1>2, NewIssueGood
<1> HIDE DEF x
<1>4. q[1] = "create" /\ q[3] = x /\ RequestGood(q)
  BY <1>3 DEF RequestGood
<1>5. ~stray => Fits(q)
  BY <1>1, <1>3, <1>4, Underway DEF Fits, AddsOnce
<1>6. Sends(q) /\ (Go(run, "look") \/ (Found(Len(issues) + 1, x) /\ issues' = Effect(q, issues)))
  BY WriteSends DEF Create, Unmoved, x
<1>7. q[1] \in {"create", "comment", "notice"} /\ Effect(q, issues) = Append(issues, x)
  BY <1>4, EffectForms
<1> HIDE DEF q
<1>8. CASE Go(run, "look")
  <2> DEFINE s == [run EXCEPT !.pc = "look"]
  <2>1. s \in RunRecord /\ s.pc = "look" /\ Same(run, s)
    BY <1>2, Goes DEF Phases, Early
  <2>2. run' = s
    BY <1>8 DEF Go
  <2> HIDE DEF s
  <2>3. RunTyped(s) /\ Knows(s) /\ Plans(s)
    BY <1>1, <1>2, <2>1, GoesOn DEF Plans, Chosen, Ending, Early, Same
  <2> QED BY <1>1, <1>4, <1>5, <1>6, <2>1, <2>2, <2>3, WriteOn
<1>9. CASE Found(Len(issues) + 1, x) /\ issues' = Effect(q, issues)
  <2> DEFINE n == Len(issues) + 1
  <2>1. n \in Nat /\ n # 0 /\ run.todo \subseteq 1..n
    BY <1>2
  <2>2. /\ issues' \in Seq(Issue) /\ Len(issues') = n /\ DOMAIN issues' = 1..n
        /\ issues'[n] = x /\ stray' = stray
    <3>1. issues' = Append(issues, x)
      BY <1>7, <1>9
    <3>2. /\ Append(issues, x) \in Seq(Issue) /\ Len(Append(issues, x)) = n
          /\ Append(issues, x)[n] = x
      BY <1>2, <1>3, AppendProperties
    <3>3. DOMAIN issues' = 1..n
      BY <3>1, <3>2
    <3> QED BY <1>6, <3>1, <3>2, <3>3 DEF Sends
  <2>3. PICK s : run' = s /\ s = [[run EXCEPT !.n = n, !.open = x.open, !.start = x.body] EXCEPT !.pc = "comments"]
    BY <1>9 DEF Found, Go
  <2> HIDE DEF n
  <2>4. s \in RunRecord /\ s.pc = "comments" /\ s.rep = run.rep /\ s.n = n /\ s.todo = run.todo
        /\ s.start = x.body
    BY <1>2, <1>3, <2>1, <2>3 DEF RunRecord, Phases, Early, SoundBody
  <2>5. RunTyped(s)' /\ Knows(s)' /\ Plans(s)'
    BY <1>2, <1>3, <2>1, <2>2, <2>4 DEF RunTyped, Knows, Plans, Ending, Early
  <2> QED BY <1>1, <1>4, <1>5, <1>6, <2>3, <2>4, <2>5, WriteStep
<1> QED BY <1>6, <1>8, <1>9

-----------------------------------------------------------------------------
(* The steps that reconcile the campaign's issue *)

LEMMA GreatestIn ==
  ASSUME NEW log \in Seq(Marker), NEW S \in SUBSET DOMAIN log, S # {}
  PROVE  \E k \in S : \A j \in S : log[j].seq <= log[k].seq
<1> DEFINE Above(k) == {j \in S : log[j].seq > log[k].seq}
           F == {Above(k) : k \in S}
<1>1. \A k \in S : log[k].seq \in Nat
  BY Types
<1>2. S \subseteq Nat /\ F # {} /\ F \subseteq FiniteSubsetsOf(Nat)
  <2>1. Len(log) \in Nat /\ DOMAIN log = 1..Len(log)
    OBVIOUS
  <2>2. ASSUME NEW k \in S PROVE Above(k) \in SUBSET Nat /\ IsFiniteSet(Above(k))
    <3>1. IsFiniteSet(1..Len(log)) /\ Above(k) \in SUBSET (1..Len(log))
      BY <2>1, FS_Interval
    <3> QED BY <2>1, <3>1, FS_Subset
  <2>3. S \subseteq Nat
    BY <2>1
  <2> HIDE DEF Above
  <2> QED BY <2>2, <2>3 DEF FiniteSubsetsOf
<1>3. PICK B \in F : \A C \in F : <<C, B>> \notin StrictSubsetOrdering(Nat)
  <2>1. IsWellFoundedOn(StrictSubsetOrdering(Nat), FiniteSubsetsOf(Nat))
    BY FS_StrictSubsetOrderingWellFounded
  <2> HIDE DEF F
  <2> QED BY <1>2, <2>1, WFMin
<1>4. PICK k \in S : B = Above(k)
  OBVIOUS
<1>5. ASSUME NEW j \in S, log[j].seq > log[k].seq PROVE FALSE
  <2>1. Above(j) \subseteq Above(k) /\ j \in Above(k) /\ j \notin Above(j)
    BY <1>1, <1>5
  <2> HIDE DEF Above
  <2> QED BY <1>2, <1>3, <1>4, <2>1 DEF StrictSubsetOrdering, FiniteSubsetsOf
<1>6. \A j \in S : log[j].seq <= log[k].seq
  BY <1>1, <1>5
<1> QED BY <1>6

\* recover_from_comments: whatever the comments are, the result is a state ...
LEMMA RecoveredTyped ==
  ASSUME NEW log \in Seq(Marker), NEW b \in SoundBody
  PROVE  LET old == Recovered(log, b) IN old \in SoundBody /\ old.origin = b.origin
<1>1. CASE Beyond(log, b) = {}
  BY <1>1 DEF Recovered
<1>2. CASE Beyond(log, b) # {}
  <2> DEFINE S == Beyond(log, b)
             last == CHOOSE k \in S : \A j \in S : log[j].seq <= log[k].seq
  <2>1. S \in SUBSET DOMAIN log
    BY DEF Beyond
  <2>2. last \in S
    <3> HIDE DEF S
    <3> QED BY <1>2, <2>1, GreatestIn DEF S
  <2>3. log[last] \in Marker
    BY <2>1, <2>2
  <2>4. Recovered(log, b) = [b EXCEPT !.seq = log[last].seq, !.applied = log[last].to]
    BY <1>2 DEF Recovered
  <2> HIDE DEF last
  <2> QED BY <2>3, <2>4, Types DEF SoundBody, Bodies
<1> QED BY <1>1, <1>2

\* ... and if they tell the drift, it is the state after the last of them.
LEMMA RecoveredTold ==
  ASSUME NEW x \in Issue, ToldIn(x), NEW b \in SoundBody, StateOf(x, b)
  PROVE  LET old == Recovered(x.log, b)
         IN StateOf(x, old) /\ old.seq = Len(x.log) /\ old.applied.drift = LastDrift(x)
<1> DEFINE log == x.log
           n == Len(log)
           S == Beyond(log, b)
<1>1. /\ log \in Seq(Marker) /\ n \in Nat /\ DOMAIN log = 1..n /\ (n = 0 <=> log = <<>>)
      /\ b \in Bodies /\ b.seq \in Nat /\ b.seq <= n
      /\ \A k \in 1..n : log[k] \in Marker /\ log[k].seq = k
  BY Types DEF SoundBody, StateOf, ToldIn
<1>2. CASE S = {}
  <2>1. b.seq = n
    BY <1>1, <1>2 DEF Beyond
  <2>2. Recovered(log, b) = b
    BY <1>2 DEF Recovered
  <2>3. b.applied.drift = LastDrift(x)
    BY <1>1, <2>1, Types DEF StateOf, LastDrift
  <2> QED BY <2>1, <2>2, <2>3
<1>3. CASE S # {}
  <2> DEFINE last == CHOOSE k \in S : \A j \in S : log[j].seq <= log[k].seq
             old == [b EXCEPT !.seq = log[last].seq, !.applied = log[last].to]
  <2>1. n \in S /\ n > 0 /\ S \subseteq 1..n
    BY <1>1, <1>3 DEF Beyond
  <2>2. last = n
    <3>1. \A j \in S : log[j].seq <= log[n].seq
      BY <1>1, <2>1
    <3>2. last \in S /\ \A j \in S : log[j].seq <= log[last].seq
      <4> HIDE DEF S
      <4> QED BY <2>1, <3>1
    <3> QED BY <1>1, <2>1, <3>2
  <2>3. Recovered(log, b) = old
    BY <1>3 DEF Recovered
  <2> HIDE DEF last
  <2>4. old.seq = n /\ old.applied = log[n].to /\ old.origin = b.origin
    BY <1>1, <2>1, <2>2 DEF Bodies
  <2> HIDE DEF old
  <2> QED BY <1>1, <2>1, <2>3, <2>4 DEF StateOf, LastDrift
<1> QED BY <1>2, <1>3

LEMMA NextStateTyped ==
  ASSUME NEW old \in SoundBody, NEW rep \in Report
  PROVE  LET new == NextState(old, rep)
         IN /\ new \in SoundBody /\ new.origin = old.origin /\ new.applied = ToApply(rep)
            /\ new.seq = IF old.applied.drift = rep.drift THEN old.seq ELSE old.seq + 1
<1>1. /\ old \in Bodies /\ old.marker = "sound" /\ old.seq \in Nat
      /\ old.seq = 0 => old.origin = old.applied.drift
      /\ ToApply(rep) \in Applied /\ ToApply(rep).drift = rep.drift
  BY Types DEF SoundBody
<1>2. PICK n : n = IF old.applied.drift = rep.drift THEN old.seq ELSE old.seq + 1
  OBVIOUS
<1>3. PICK a : a = ToApply(rep)
  OBVIOUS
<1>4. NextState(old, rep) = [old EXCEPT !.seq = n, !.applied = a]
  BY <1>1, <1>2, <1>3 DEF NextState, Bodies
<1>5. n \in Nat /\ (n = 0 => old.origin = a.drift)
  BY <1>1, <1>2, <1>3
<1>6. [old EXCEPT !.seq = n, !.applied = a] \in Bodies
  BY <1>1, <1>3, <1>5 DEF Bodies
<1>7. LET new == [old EXCEPT !.seq = n, !.applied = a]
      IN new.marker = "sound" /\ new.origin = old.origin /\ new.applied = a /\ new.seq = n
  BY <1>1 DEF Bodies
<1> QED BY <1>2, <1>3, <1>4, <1>6, <1>7 DEF SoundBody

LEMMA CommentsKeeps ==
  ASSUME AuditInvariant, Comments, Unmoved
  PROVE  AuditInvariant'
<1>1. ~At("idle") /\ run.pc = "comments" /\ Reads
  BY DEF Comments, At
<1> DEFINE x == issues[run.n]
           old == Recovered(x.log, run.start)
           new == NextState(old, run.rep)
           p == IF new.seq # old.seq THEN "post" ELSE "latest"
<1>2. /\ run \in RunRecord /\ RunTyped(run) /\ Knows(run) /\ run.n # 0 /\ run.n \in DOMAIN issues
      /\ run.rep \in Report /\ x \in Issue /\ x.log \in Seq(Marker) /\ run.start \in SoundBody
      /\ ~stray => ToldIn(x) /\ StateOf(x, run.start)
  BY <1>1, Underway, Types DEF Knows, Chosen
<1>3. CASE Fail
  BY <1>1, <1>3, FailKeeps DEF Unmoved
<1>4. CASE Go([run EXCEPT !.next = new, !.prev = old.applied.drift,
                          !.back = old.seq # run.start.seq, !.posts = new.seq # old.seq], p)
  <2>1. old \in SoundBody /\ old.origin = run.start.origin
    BY <1>2, RecoveredTyped
  <2>2. ~stray => StateOf(x, old) /\ old.seq = Len(x.log) /\ old.applied.drift = LastDrift(x)
    BY <1>2, RecoveredTold
  <2> HIDE DEF old
  <2>3. old.seq \in Nat /\ old.applied.drift \in Drifts /\ old \in Bodies /\ old.marker = "sound"
        /\ run.rep.drift \in Drifts /\ ToApply(run.rep) \in Applied /\ ToApply(run.rep).drift = run.rep.drift
        /\ (old.seq = 0 => old.origin = old.applied.drift)
    BY <1>2, <2>1, Types DEF SoundBody
  <2>4. /\ new \in SoundBody /\ new.origin = old.origin /\ new.applied = ToApply(run.rep)
        /\ new.seq = IF old.applied.drift = run.rep.drift THEN old.seq ELSE old.seq + 1
    BY <1>2, <2>1, NextStateTyped
  <2> HIDE DEF new
  <2>5. new.seq # old.seq <=> old.applied.drift # run.rep.drift
    BY <2>3, <2>4
  <2>6. PICK b \in BOOLEAN, c \in BOOLEAN :
          run' = [[run EXCEPT !.next = new, !.prev = old.applied.drift, !.back = b, !.posts = c] EXCEPT !.pc = p]
    BY <1>4 DEF Go
  <2> DEFINE s == [[run EXCEPT !.next = new, !.prev = old.applied.drift, !.back = b, !.posts = c] EXCEPT !.pc = p]
  <2>7. p \in {"post", "latest"} /\ (p = "post" <=> new.seq # old.seq)
    OBVIOUS
  <2> HIDE DEF p
  <2>8. /\ s \in RunRecord /\ s.pc = p /\ s.rep = run.rep /\ s.n = run.n /\ s.todo = run.todo
        /\ s.start = run.start /\ s.next = new /\ s.prev = old.applied.drift
    BY <1>2, <2>3, <2>4, <2>7 DEF RunRecord, Phases, Chosen, SoundBody
  <2> HIDE DEF s
  <2>9. RunTyped(s) /\ Knows(s)
    BY <1>1, <1>2, <2>7, <2>8 DEF RunTyped, Knows, Ending
  <2>10. Plans(s)
    <3>1. ~stray => new.origin = x.body.origin
      BY <1>2, <2>1, <2>4 DEF StateOf
    <3>2. ~stray /\ p = "latest" => StateOf(x, new)
      BY <2>2, <2>3, <2>4, <2>5, <2>7 DEF StateOf
    <3>3. p = "post" => new.seq > 0
      BY <2>3, <2>4, <2>5, <2>7
    <3> QED BY <1>2, <2>4, <2>7, <2>8, <3>1, <3>2, <3>3 DEF Plans
  <2>11. AddsOnce(s)
    BY <2>2, <2>3, <2>4, <2>5, <2>7, <2>8 DEF AddsOnce
  <2> QED BY <1>1, <2>6, <2>7, <2>8, <2>9, <2>10, <2>11, ReadStep DEF Unmoved, s
<1> QED BY <1>3, <1>4 DEF Comments

LEMMA PlansGoOn ==
  ASSUME NEW r, NEW s, Plans(r), Same(r, s), r.pc \notin Early,
         r.pc \in {"post", "confirm"} => s.pc \in {"post", "confirm"} \union Early
  PROVE  s.pc \notin {"post", "confirm"} \/ r.pc \in {"post", "confirm"} => Plans(s)
BY DEF Plans, Same

LEMMA PostKeeps ==
  ASSUME AuditInvariant, Post, Unmoved
  PROVE  AuditInvariant'
<1>1. ~At("idle") /\ run.pc = "post"
  BY DEF Post, At
<1> DEFINE n == run.n
           x == issues[n]
           m == Announcement
           q == <<"comment", n, m>>
<1>2. /\ run \in RunRecord /\ RunTyped(run) /\ Knows(run) /\ Plans(run) /\ n \in DOMAIN issues /\ n # 0
      /\ x \in Issue /\ x.log \in Seq(Marker) /\ issues \in Seq(Issue) /\ IssuesGood
      /\ run.next \in SoundBody /\ run.next.seq > 0 /\ run.prev \in Drifts
  BY <1>1, Underway, Types DEF Knows, Chosen, Plans, Early, RunRecord
<1>3. m \in Marker /\ m.seq = run.next.seq /\ m.prev = run.prev /\ m.to = run.next.applied
  BY <1>2, Types DEF Announcement, Comment, Marker, SoundBody
<1>4. ~stray => /\ run.next.seq = Len(x.log) + 1 /\ run.prev = LastDrift(x)
                /\ run.next.applied.drift # run.prev /\ run.next.origin = x.body.origin
  BY <1>1, <1>2, Underway DEF AddsOnce, Plans, Early
<1>5. Sends(q) /\ (Go(run, "confirm") \/ (Go(run, "latest") /\ issues' = Effect(q, issues)))
  BY WriteSends DEF Post, Unmoved
<1> HIDE DEF m
<1>6. q[1] = "comment" /\ q[2] = n /\ q[3] = m /\ RequestGood(q) /\ (~stray => Fits(q))
  BY <1>2, <1>3, <1>4 DEF RequestGood, Fits
<1> HIDE DEF q
<1>0. PICK t : t = [run EXCEPT !.pc = "confirm"]
  OBVIOUS
<1>7. t \in RunRecord /\ t.pc = "confirm" /\ Same(run, t)
  BY <1>0, <1>2, Goes DEF Phases, Chosen
<1>8. RunTyped(t) /\ Knows(t) /\ Plans(t)
  <2>1. RunTyped(t) /\ Knows(t)
    BY <1>1, <1>2, <1>7, GoesOn DEF Chosen, Ending, Same
  <2>2. Plans(t)
    BY <1>1, <1>2, <1>7 DEF Plans, Same, Early
  <2> QED BY <2>1, <2>2
<1>9. CASE Go(run, "confirm")
  <2>1. run' = t
    BY <1>0, <1>9 DEF Go
  <2> QED BY <1>1, <1>5, <1>6, <1>7, <1>8, <2>1, WriteOn
<1>10. CASE Go(run, "latest") /\ issues' = Effect(q, issues)
  <2>1. IssuesGood' /\ Grows /\ stray' = stray
    BY <1>5, <1>6, WriteKeeps DEF Sends
  <2>2. RunTyped(t)' /\ Knows(t)' /\ Plans(t)'
    BY <1>2, <1>8, <2>1, KnowledgeKept
  <2>3. PICK s : s = [run EXCEPT !.pc = "latest"]
    OBVIOUS
  <2>4. s \in RunRecord /\ s.pc = "latest" /\ Same(run, s) /\ Same(t, s) /\ run' = s
    <3>1. s \in RunRecord /\ s.pc = "latest" /\ Same(run, s)
      BY <1>2, <2>3, Goes DEF Phases, Chosen
    <3>2. Same(t, s)
      BY <1>7, <3>1 DEF Same
    <3> QED BY <1>10, <2>3, <3>1, <3>2 DEF Go
  <2>5. RunTyped(s)' /\ Knows(s)'
    BY <1>7, <2>2, <2>4 DEF RunTyped, Knows, Same, Chosen, Ending
  <2>6. Plans(s)'
    <3>1. ~stray => StateOf(issues'[n], run.next)
      <4> SUFFICES ASSUME ~stray PROVE StateOf(issues'[n], run.next)
        OBVIOUS
      <4>1. issues' = [issues EXCEPT ![n] = [x EXCEPT !.log = Append(x.log, m)]]
        BY <1>6, <1>10, EffectForms
      <4> DEFINE l == Append(x.log, m)
                 y == [x EXCEPT !.log = l]
      <4>2. Len(x.log) \in Nat /\ Len(l) = Len(x.log) + 1 /\ l[Len(x.log) + 1] = m
        BY <1>2, <1>3, AppendProperties
      <4> HIDE DEF l
      <4>3. y.log = l /\ y.body = x.body
        BY <1>2 DEF Issue
      <4> HIDE DEF y
      <4>4. issues'[n] = y
        BY <1>2, <4>1 DEF y, l
      <4> QED BY <1>3, <1>4, <4>2, <4>3, <4>4 DEF StateOf
    <3> QED BY <1>2, <1>7, <2>1, <2>2, <2>4, <3>1 DEF Plans, Same, Early
  <2> QED BY <1>1, <1>5, <1>6, <2>4, <2>5, <2>6, WriteStep
<1> QED BY <1>5, <1>9, <1>10

LEMMA ConfirmKeeps ==
  ASSUME AuditInvariant, Confirm, Unmoved
  PROVE  AuditInvariant'
<1>1. ~At("idle") /\ run.pc = "confirm" /\ Reads
  BY DEF Confirm, At
<1>2. CASE Fail
  BY <1>1, <1>2, FailKeeps DEF Unmoved
<1>3. CASE Seen(run.n) /\ Go(run, "latest")
  <2> DEFINE x == issues[run.n]
  <2>1. /\ run \in RunRecord /\ RunTyped(run) /\ Knows(run) /\ Plans(run)
        /\ run.n \in DOMAIN issues /\ run.n # 0 /\ x \in Issue /\ run.next \in SoundBody
        /\ x.log \in Seq(Marker) /\ (~stray => ToldIn(x))
    BY <1>1, Underway, Types DEF Knows, Chosen, Plans, Early
  <2>2. PICK k \in DOMAIN x.log :
          x.log[k].seq = run.next.seq /\ x.log[k].to.drift = run.next.applied.drift
    BY <1>3 DEF Seen, Batch, Announcement, Comment
  <2>3. ~stray => StateOf(x, run.next)
    BY <1>1, <2>1, <2>2 DEF StateOf, ToldIn, Plans, Early
  <2> DEFINE s == [run EXCEPT !.pc = "latest"]
  <2>4. s \in RunRecord /\ s.pc = "latest" /\ Same(run, s)
    BY <2>1, Goes DEF Phases, Chosen
  <2>5. run' = s
    BY <1>3 DEF Go
  <2> HIDE DEF s
  <2>6. RunTyped(s) /\ Knows(s)
    BY <1>1, <2>1, <2>4, GoesOn DEF Chosen, Ending, Same
  <2>7. Plans(s) /\ AddsOnce(s)
    BY <1>1, <2>1, <2>3, <2>4 DEF Plans, AddsOnce, Same, Early
  <2> QED BY <1>1, <2>4, <2>5, <2>6, <2>7, ReadStep DEF Unmoved
<1> QED BY <1>2, <1>3 DEF Confirm

\* Once its comment is posted a run carries its plan along.
LEMMA PlanCarried ==
  ASSUME NEW r, NEW s, Plans(r), Same(r, s), r.pc \notin Early \union {"post", "confirm"},
         s.pc \notin {"post", "confirm", "notice", "create"}
  PROVE  Plans(s) /\ AddsOnce(s)
BY DEF Plans, AddsOnce, Same

LEMMA LatestKeeps ==
  ASSUME AuditInvariant, Latest, Unmoved
  PROVE  AuditInvariant'
<1>1. ~At("idle") /\ run.pc = "latest" /\ Reads
  BY DEF Latest, At
<1>2. CASE Fail
  BY <1>1, <1>2, FailKeeps DEF Unmoved
<1>3. CASE Go(run, "body") \/ Go([run EXCEPT !.open = issues[run.n].open], "settle")
  <2>1. /\ run \in RunRecord /\ RunTyped(run) /\ Knows(run) /\ Plans(run) /\ run.n # 0
        /\ issues[run.n].open \in BOOLEAN
    BY <1>1, Underway DEF Knows, Chosen
  <2>2. PICK s \in RunRecord : run' = s /\ s.pc \in {"body", "settle"} /\ Same(run, s)
    <3>1. CASE Go(run, "body")
      BY <2>1, <3>1, Goes DEF Go, Phases, Chosen
    <3>2. CASE Go([run EXCEPT !.open = issues[run.n].open], "settle")
      BY <2>1, <3>2, GoesOpen DEF Go, Phases, Chosen
    <3> QED BY <1>3, <3>1, <3>2
  <2>3. RunTyped(s) /\ Knows(s)
    BY <1>1, <2>1, <2>2, GoesOn DEF Chosen, Ending, Same
  <2>4. Plans(s) /\ AddsOnce(s)
    BY <1>1, <2>1, <2>2, PlanCarried DEF Early
  <2> QED BY <1>1, <2>2, <2>3, <2>4, ReadStep DEF Unmoved
<1> QED BY <1>2, <1>3 DEF Latest

LEMMA BodyKeeps ==
  ASSUME AuditInvariant, Body, Unmoved
  PROVE  AuditInvariant'
<1>1. ~At("idle") /\ run.pc = "body"
  BY DEF Body, At
<1>2. /\ run \in RunRecord /\ RunTyped(run) /\ Knows(run) /\ Plans(run) /\ run.n # 0
      /\ run.n \in DOMAIN issues /\ issues[run.n].open \in BOOLEAN
      /\ run.next \in SoundBody /\ (~stray => StateOf(issues[run.n], run.next))
  BY <1>1, Underway DEF Knows, Chosen, Plans, Early
<1> DEFINE q == <<"body", run.n, run.next>>
<1>3. Sends(q) /\ (Fail \/ Go([run EXCEPT !.open = issues[run.n].open], "settle"))
  BY WriteSends DEF Body, Unmoved
<1>4. RequestGood(q) /\ q[1] = "body"
  BY <1>2 DEF RequestGood
<1> HIDE DEF q
<1>5. CASE Fail
  BY <1>1, <1>3, <1>4, <1>5, FailWriting
<1>6. CASE Go([run EXCEPT !.open = issues[run.n].open], "settle")
  <2> DEFINE s == [[run EXCEPT !.open = issues[run.n].open] EXCEPT !.pc = "settle"]
  <2>1. s \in RunRecord /\ s.pc = "settle" /\ Same(run, s)
    BY <1>2, GoesOpen DEF Phases, Chosen
  <2>2. run' = s
    BY <1>6 DEF Go
  <2> HIDE DEF s
  <2>3. RunTyped(s) /\ Knows(s) /\ Plans(s)
    BY <1>1, <1>2, <2>1, GoesOn, PlanCarried DEF Chosen, Ending, Early, Same
  <2> QED BY <1>1, <1>3, <1>4, <2>1, <2>2, <2>3, WriteOn
<1> QED BY <1>3, <1>5, <1>6

LEMMA SettleKeeps ==
  ASSUME AuditInvariant, Settle, Unmoved
  PROVE  AuditInvariant'
<1>1. ~At("idle") /\ run.pc = "settle"
  BY DEF Settle, At
<1>2. /\ run \in RunRecord /\ RunTyped(run) /\ Knows(run) /\ Plans(run) /\ run.n # 0
      /\ run.n \in DOMAIN issues
  BY <1>1, Underway DEF Knows, Chosen
<1> DEFINE s == [run EXCEPT !.pc = "others"]
<1>3. s \in RunRecord /\ s.pc = "others" /\ Same(run, s)
  BY <1>2, Goes DEF Phases, Ending
<1> HIDE DEF s
<1>4. RunTyped(s) /\ Knows(s) /\ Plans(s) /\ AddsOnce(s)
  BY <1>1, <1>2, <1>3, GoesOn, PlanCarried DEF Chosen, Ending, Early, Same
<1>5. CASE Go(run, "others") /\ Reads
  <2>1. run' = s
    BY <1>5 DEF Go, s
  <2> QED BY <1>1, <1>3, <1>4, <1>5, <2>1, ReadStep DEF Unmoved
<1>6. CASE Write(<<"open", run.n, FALSE>>, Go(run, "others"), Fail)
  <2> DEFINE q == <<"open", run.n, FALSE>>
  <2>1. Sends(q) /\ (Fail \/ Go(run, "others"))
    BY <1>6, WriteSends DEF Unmoved
  <2>2. RequestGood(q) /\ q[1] = "open"
    BY <1>2 DEF RequestGood
  <2> HIDE DEF q
  <2>3. CASE Fail
    BY <1>1, <2>1, <2>2, <2>3, FailWriting
  <2>4. CASE Go(run, "others")
    <3>1. run' = s
      BY <2>4 DEF Go, s
    <3> QED BY <1>1, <1>3, <1>4, <2>1, <2>2, <3>1, WriteOn
  <2> QED BY <2>1, <2>3, <2>4
<1> QED BY <1>5, <1>6 DEF Settle

-----------------------------------------------------------------------------
(* The steps that close older campaigns, and verify *)

LEMMA OldestIs == Oldest = First(run.todo) /\ (Notified(Oldest) <=> NoticedBy(run))
BY DEF Oldest, First, Notified, NoticedBy

\* A run that is done with its issue goes on.
LEMMA EndsOn ==
  ASSUME NEW r \in RunRecord, NEW s \in RunRecord, RunTyped(r), Knows(r), Plans(r), Same(r, s),
         r.pc \in Ending, s.pc \in Ending, s.pc \in {"notice", "notified", "close"} => s.todo # {}
  PROVE  RunTyped(s) /\ Knows(s) /\ Plans(s) /\ (s.pc # "notice" => AddsOnce(s))
<1>1. r.pc # "idle" /\ s.pc # "idle" /\ s.pc \notin Chosen
      /\ s.pc \notin {"list", "create", "look"} /\ (s.n = 0 => s.rep.drift = Clean)
  BY DEF Ending, Chosen, Knows, Same
<1>2. RunTyped(s) /\ Knows(s)
  BY <1>1, GoesOn
<1>3. r.pc \notin Early \union {"post", "confirm"} /\ s.pc \notin {"post", "confirm", "create"}
  BY DEF Ending, Early
<1> QED BY <1>2, <1>3 DEF Plans, AddsOnce, Same

LEMMA OthersReadKeeps ==
  ASSUME AuditInvariant, OthersRead, Unmoved
  PROVE  AuditInvariant'
<1>1. ~At("idle") /\ run.pc = "others" /\ Reads
  BY DEF OthersRead, At
<1>2. CASE Fail
  BY <1>1, <1>2, FailKeeps DEF Unmoved
<1>3. CASE \E p \in {"verify", "close", "notice"} :
             Go(run, p) /\ (p # "verify" => run.todo # {}) /\ (p = "notice" => ~Notified(Oldest))
  <2>1. PICK p \in {"verify", "close", "notice"} :
             Go(run, p) /\ (p # "verify" => run.todo # {}) /\ (p = "notice" => ~Notified(Oldest))
    BY <1>3
  <2> DEFINE s == [run EXCEPT !.pc = p]
  <2>2. run \in RunRecord /\ RunTyped(run) /\ Knows(run) /\ Plans(run)
    BY <1>1, Underway
  <2>3. s \in RunRecord /\ s.pc = p /\ Same(run, s)
    BY <2>2, Goes DEF Phases, Ending
  <2>4. run' = s
    BY <2>1 DEF Go
  <2> HIDE DEF s
  <2>5. RunTyped(s) /\ Knows(s) /\ Plans(s) /\ (s.pc # "notice" => AddsOnce(s))
    BY <1>1, <2>1, <2>2, <2>3, EndsOn DEF Ending, Same
  <2>6. p = "notice" => AddsOnce(s)
    BY <2>1, <2>3, OldestIs DEF AddsOnce, NoticedBy, Same
  <2> QED BY <1>1, <2>3, <2>4, <2>5, <2>6, ReadStep DEF Unmoved
<1> QED BY <1>2, <1>3 DEF OthersRead

LEMMA OldestIn ==
  ASSUME AuditInvariant, run.pc \in {"notice", "notified", "close"}
  PROVE  Oldest \in run.todo /\ Oldest \in DOMAIN issues
<1>1. run.todo # {} /\ run.todo \in SUBSET Nat /\ run.todo \subseteq DOMAIN issues
  BY Underway DEF RunTyped, At
<1> QED BY <1>1, OldestIs, FirstIsIn

LEMMA NoticeKeeps ==
  ASSUME AuditInvariant, Notice, Unmoved
  PROVE  AuditInvariant'
<1>1. ~At("idle") /\ run.pc = "notice"
  BY DEF Notice, At
<1>2. /\ run \in RunRecord /\ RunTyped(run) /\ Knows(run) /\ Plans(run) /\ AddsOnce(run)
      /\ run.todo # {} /\ Oldest \in DOMAIN issues /\ run.rep.campaign \in Campaigns
  BY <1>1, Underway, OldestIn, Types DEF RunTyped
<1> DEFINE q == <<"notice", Oldest, run.rep.campaign>>
<1>3. Sends(q) /\ (Go(run, "notified") \/ Go(run, "close"))
  BY WriteSends DEF Notice, Unmoved
<1>4. RequestGood(q) /\ (~stray => Fits(q))
  <2>1. ~stray => ~Notified(Oldest)
    BY <1>1, <1>2, OldestIs DEF AddsOnce
  <2> QED BY <1>2, <2>1 DEF RequestGood, Fits, Notified
<1> HIDE DEF q
<1>5. PICK p \in {"notified", "close"} : Go(run, p)
  BY <1>3
<1> DEFINE s == [run EXCEPT !.pc = p]
<1>6. s \in RunRecord /\ s.pc = p /\ Same(run, s)
  BY <1>2, Goes DEF Phases, Ending
<1>7. run' = s
  BY <1>5 DEF Go
<1> HIDE DEF s
<1>8. RunTyped(s) /\ Knows(s) /\ Plans(s)
  BY <1>1, <1>2, <1>6, EndsOn DEF Ending, Same
<1> QED BY <1>1, <1>3, <1>4, <1>6, <1>7, <1>8, WriteOn

LEMMA ConfirmNoticeKeeps ==
  ASSUME AuditInvariant, ConfirmNotice, Unmoved
  PROVE  AuditInvariant'
<1>1. ~At("idle") /\ run.pc = "notified" /\ Reads
  BY DEF ConfirmNotice, At
<1>2. CASE Fail
  BY <1>1, <1>2, FailKeeps DEF Unmoved
<1>3. CASE Go(run, "close")
  <2> DEFINE s == [run EXCEPT !.pc = "close"]
  <2>1. run \in RunRecord /\ RunTyped(run) /\ Knows(run) /\ Plans(run) /\ run.todo # {}
    BY <1>1, Underway DEF RunTyped
  <2>2. s \in RunRecord /\ s.pc = "close" /\ Same(run, s)
    BY <2>1, Goes DEF Phases, Ending
  <2>3. run' = s
    BY <1>3 DEF Go
  <2> HIDE DEF s
  <2>4. RunTyped(s) /\ Knows(s) /\ Plans(s) /\ AddsOnce(s)
    BY <1>1, <2>1, <2>2, EndsOn DEF Ending, Same
  <2> QED BY <1>1, <2>2, <2>3, <2>4, ReadStep DEF Unmoved
<1> QED BY <1>2, <1>3 DEF ConfirmNotice

LEMMA CloseKeeps ==
  ASSUME AuditInvariant, Close, Unmoved
  PROVE  AuditInvariant'
<1>1. ~At("idle") /\ run.pc = "close"
  BY DEF Close, At
<1>2. /\ run \in RunRecord /\ RunTyped(run) /\ Knows(run) /\ Plans(run) /\ Oldest \in DOMAIN issues
  BY <1>1, Underway, OldestIn
<1> DEFINE q == <<"open", Oldest, FALSE>>
<1>3. Sends(q) /\ (Fail \/ Go([run EXCEPT !.todo = @ \ {Oldest}], "others"))
  BY WriteSends DEF Close, Unmoved
<1>4. RequestGood(q) /\ q[1] = "open"
  BY <1>2 DEF RequestGood
<1> HIDE DEF q
<1>5. CASE Fail
  BY <1>1, <1>3, <1>4, <1>5, FailWriting
<1>6. CASE Go([run EXCEPT !.todo = @ \ {Oldest}], "others")
  <2> DEFINE s == [[run EXCEPT !.todo = @ \ {Oldest}] EXCEPT !.pc = "others"]
  <2>1. /\ s \in RunRecord /\ s.pc = "others" /\ s.rep = run.rep /\ s.n = run.n /\ s.start = run.start
        /\ s.next = run.next /\ s.todo \subseteq run.todo
    BY <1>2 DEF RunRecord, Phases, Ending
  <2>2. run' = s
    BY <1>6 DEF Go
  <2> HIDE DEF s
  <2>3. RunTyped(s)
    BY <1>1, <1>2, <2>1 DEF RunTyped
  <2>4. Knows(s) /\ Plans(s)
    BY <1>1, <1>2, <2>1 DEF Knows, Plans, Chosen, Ending, Early
  <2> QED BY <1>1, <1>3, <1>4, <2>1, <2>2, <2>3, <2>4, WriteOn
<1> QED BY <1>3, <1>5, <1>6

LEMMA VerifyKeeps ==
  ASSUME AuditInvariant, Verify, Unmoved
  PROVE  AuditInvariant'
<1>1. ~At("idle") /\ run.pc = "verify" /\ Reads
  BY DEF Verify, At
<1>2. CASE Fail
  BY <1>1, <1>2, FailKeeps DEF Unmoved
<1>3. CASE IssuesVerified /\ Go([run EXCEPT !.calm = TRUE], "history")
  <2> DEFINE s == [[run EXCEPT !.calm = TRUE] EXCEPT !.pc = "history"]
  <2>1. run \in RunRecord /\ RunTyped(run) /\ Knows(run) /\ Plans(run)
    BY <1>1, Underway
  <2>2. s \in RunRecord /\ s.pc = "history" /\ Same(run, s)
    BY <2>1 DEF RunRecord, Phases, Ending, Same
  <2>3. run' = s
    BY <1>3 DEF Go
  <2> HIDE DEF s
  <2>4. RunTyped(s) /\ Knows(s) /\ Plans(s) /\ AddsOnce(s)
    BY <1>1, <2>1, <2>2, EndsOn DEF Ending, Same
  <2>5. IssuesVerified'
    BY <1>1, <1>3, <2>2, <2>3 DEF IssuesVerified, Same, Reads, ListRaises, Ambiguous, Others,
       Damaged, Matches, Listed, Sound
  <2> QED BY <1>1, <2>2, <2>3, <2>4, <2>5, ReadStep DEF Unmoved
<1> QED BY <1>2, <1>3 DEF Verify

LEMMA FiniteBelow ==
  ASSUME NEW n \in Nat, NEW S \in SUBSET (1..n)
  PROVE  IsFiniteSet(S) /\ Cardinality(S) \in Nat
<1>1. IsFiniteSet(1..n)
  BY FS_Interval
<1>2. IsFiniteSet(S)
  BY <1>1, FS_Subset
<1> QED BY <1>2, FS_CardinalityType

LEMMA AtMostOne ==
  ASSUME NEW n \in Nat, NEW S \in SUBSET (1..n), Cardinality(S) <= 1, NEW i \in S
  PROVE  S = {i}
<1>1. IsFiniteSet(S)
  BY FiniteBelow
<1>2. IsFiniteSet(S \ {i}) /\ Cardinality(S \ {i}) = Cardinality(S) - 1 /\ Cardinality(S) \in Nat
  BY <1>1, FS_RemoveElement, FS_CardinalityType
<1>3. Cardinality(S \ {i}) \in Nat
  BY <1>2, FS_CardinalityType
<1>4. Cardinality(S \ {i}) = 0
  BY <1>2, <1>3
<1>5. S \ {i} = {}
  BY <1>2, <1>4, FS_EmptySet
<1> QED BY <1>5

LEMMA CardinalityOfMatches ==
  ASSUME issues \in Seq(Issue), NEW c
  PROVE  Matches(c) \in SUBSET (1..Len(issues)) /\ Cardinality(Matches(c)) \in Nat
<1>1. Matches(c) \in SUBSET (1..Len(issues)) /\ Len(issues) \in Nat
  BY DEF Matches
<1> QED BY <1>1, FiniteBelow

\* What verify_reconciliation saw is what rep wants.
LEMMA VerifiedIsRecorded ==
  ASSUME AuditInvariant, run.pc = "history", IssuesVerified,
         run.n = 0 \/ (~Duplicates(run.n) /\ Complete(run.n, run.next))
  PROVE  Recorded(run.rep)
<1> DEFINE c == run.rep.campaign
           n == run.n
<1>1. /\ issues \in Seq(Issue) /\ Len(issues) \in Nat /\ DOMAIN issues = 1..Len(issues)
      /\ n \in 0..Len(issues) /\ Knows(run) /\ Plans(run)
  BY Underway DEF At
<1>2. /\ ~ListRaises /\ ~Ambiguous(c) /\ Others(c) = {} /\ Damaged = {}
  BY DEF IssuesVerified
<1>3. CASE n = 0
  BY <1>1, <1>2, <1>3 DEF Recorded, IssuesVerified, Knows, Ending
<1>4. CASE n # 0
  <2>1. /\ issues[n].body = run.next /\ issues[n].titled /\ issues[n].open = (run.rep.drift # Clean)
        /\ issues[n].campaign = c /\ n \in DOMAIN issues
        /\ run.next.marker = "sound" /\ run.next.applied = ToApply(run.rep)
    BY <1>1, <1>4 DEF IssuesVerified, Knows, Plans, Early, SoundBody
  <2>2. n \in Matches(c)
    BY <2>1 DEF Matches, Sound
  <2>3. Matches(c) = {n}
    <3>1. Matches(c) \in SUBSET (1..Len(issues)) /\ Cardinality(Matches(c)) \in Nat
      BY <1>1, CardinalityOfMatches
    <3>2. Cardinality(Matches(c)) <= 1
      BY <1>2, <3>1 DEF Ambiguous
    <3> HIDE DEF c, n
    <3> QED BY <1>1, <2>2, <3>1, <3>2, AtMostOne
  <2> QED BY <1>2, <1>4, <2>1, <2>3 DEF Recorded
<1> QED BY <1>3, <1>4

LEMMA VerifyHistoryKeeps ==
  ASSUME AuditInvariant, VerifyHistory, UNCHANGED <<World, People, stray>>
  PROVE  AuditInvariant'
<1>1. /\ run.pc = "history" /\ ~At("idle") /\ run' = Idle
      /\ UNCHANGED <<issues, wire, faults, world, changes, draft, edits, stray>>
      /\ claim' = IF run.calm /\ (run.n = 0 \/ (~Duplicates(run.n) /\ Complete(run.n, run.next)))
                    THEN run.rep ELSE NoReport
  BY DEF VerifyHistory, At, Fail, Reads, World, People
<1>2. claim' # NoReport => claim' = run.rep /\ Recorded(run.rep)
  BY <1>1, VerifiedIsRecorded DEF AuditInvariant, Vouches, At
<1>3. RunGood'
  <2>1. RunTyped(Idle) /\ Knows(Idle) /\ Plans(Idle) /\ AddsOnce(Idle)
    BY <1>1, Underway, IdleKnows
  <2> QED BY <1>1, <2>1 DEF RunGood, RunTyped, Knows, Plans, AddsOnce, NoticedBy
<1>4. SuccessMeansRecorded'
  <2> SUFFICES ASSUME claim' # NoReport PROVE Recorded(claim)'
    BY DEF SuccessMeansRecorded
  <2>1. PICK rep : rep = claim' /\ rep = run.rep /\ Recorded(rep)
    BY <1>2
  <2>2. /\ Matches(rep.campaign)' = Matches(rep.campaign)
        /\ Others(rep.campaign)' = Others(rep.campaign)
        /\ Damaged' = Damaged
        /\ ListRaises' <=> ListRaises
    BY <1>1 DEF Matches, Others, Damaged, ListRaises, Listed, Sound
  <2>3. Ambiguous(rep.campaign)' <=> Ambiguous(rep.campaign)
    BY <2>2 DEF Ambiguous
  <2>4. ASSUME NEW i PROVE /\ Duplicates(i)' <=> Duplicates(i)
                           /\ Complete(i, issues[i].body)' <=> Complete(i, issues[i].body)
    BY <1>1 DEF Duplicates, Complete
  <2>5. issues' = issues
    BY <1>1
  <2>6. Recorded(rep)'
    BY <2>1, <2>2, <2>3, <2>4, <2>5 DEF Recorded
  <2> QED BY <2>1, <2>6 DEF Recorded
<1>5. Vouches'
  BY <1>1, <1>4 DEF Vouches, At, Idle
<1>6. CountersGood'
  <2>1. claim' \in Report \union {NoReport}
    BY <1>1, Underway
  <2> QED BY <1>1, <2>1 DEF AuditInvariant, CountersGood
<1>7. DraftGood' /\ WireGood' /\ IssuesGood'
  BY <1>1 DEF AuditInvariant, DraftGood, WireGood, RequestGood, IssuesGood, OneIssuePerCampaign, Sound
<1> QED BY <1>3, <1>5, <1>6, <1>7 DEF AuditInvariant

LEMMA RunStepKeeps ==
  ASSUME AuditInvariant, RunStep
  PROVE  AuditInvariant'
<1>1. CASE Reconcile /\ UNCHANGED claim
  <2>1. Unmoved
    BY <1>1 DEF RunStep, Unmoved
  <2> QED BY <1>1, <2>1, ListKeeps, IdentityKeeps, ReopenKeeps, CreateKeeps, LookKeeps, CommentsKeeps,
             PostKeeps, ConfirmKeeps, LatestKeeps, BodyKeeps, SettleKeeps, OthersReadKeeps, NoticeKeeps,
             ConfirmNoticeKeeps, CloseKeeps, VerifyKeeps DEF Reconcile
<1>2. CASE VerifyHistory
  BY <1>2, VerifyHistoryKeeps DEF RunStep
<1> QED BY <1>1, <1>2 DEF RunStep

LEMMA StutterKeeps ==
  ASSUME AuditInvariant, UNCHANGED vars
  PROVE  AuditInvariant'
BY DEF AuditInvariant, CountersGood, IssuesGood, OneIssuePerCampaign, Sound, WireGood, RequestGood,
       DraftGood, RunGood, RunTyped, Knows, Plans, AddsOnce, NoticedBy, Vouches, SuccessMeansRecorded,
       At, IssuesVerified, Recorded, ListRaises, Ambiguous, Others, Damaged, Matches, Listed,
       Duplicates, Complete, vars

LEMMA AuditInit == Init => AuditInvariant
<1> SUFFICES ASSUME Init PROVE AuditInvariant
  OBVIOUS
<1>1. issues = <<>> /\ issues \in Seq(Issue) /\ DOMAIN issues = {}
  BY DEF Init
<1>2. IssuesGood
  BY <1>1 DEF IssuesGood, OneIssuePerCampaign
<1>3. RunGood
  BY <1>1, IdleKnows DEF Init, RunGood
<1>4. CountersGood /\ WireGood /\ DraftGood
  <2>1. \A n \in {MaxChanges, MaxFaults, MaxEdits} : 0 \in 0..n
    BY BoundAssumption
  <2> QED BY <2>1 DEF Init, CountersGood, WireGood, DraftGood
<1>5. Vouches
  BY DEF Init, Vouches, SuccessMeansRecorded, At, Idle
<1> QED BY <1>2, <1>3, <1>4, <1>5 DEF AuditInvariant

-----------------------------------------------------------------------------
(* The theorems *)

\* The inductive invariant: whichever calls of reconcile.py fail, or take
\* effect although they failed or only later, and whoever edits the issues,
\* every state and every write on its way is one the comments lead to.
THEOREM AuditInvariantHolds == Spec => []AuditInvariant
<1>1. AuditInvariant /\ [Next]_vars => AuditInvariant'
  BY RunStepKeeps, BeginKeeps, DiesKeeps, ByHandKeeps, ChangeKeeps, LateWriteKeeps, StutterKeeps
     DEF Next
<1> QED BY <1>1, AuditInit, PTL DEF Spec

LEMMA HistoryFollows == AuditInvariant => HistorySound
<1> SUFFICES ASSUME AuditInvariant PROVE HistorySound
  OBVIOUS
<1>1. AuditTypeOK
  <2>1. IssuesGood /\ CountersGood /\ RunTyped(run)
    BY DEF AuditInvariant, RunGood
  <2> QED BY <2>1 DEF AuditTypeOK, IssuesGood, CountersGood, RunTyped, RunRecord, At
<1>2. ASSUME ~stray, NEW i \in DOMAIN issues PROVE ~Duplicates(i)
  <2>1. ToldIn(issues[i])
    BY <1>2 DEF AuditInvariant, IssuesGood
  <2> DEFINE batches == [k \in DOMAIN issues[i].log |-> Batch(issues[i].log[k])]
  <2>2. ~Twice(batches)
    <3>1. \A j, k \in DOMAIN issues[i].log : j # k => Batch(issues[i].log[j]) # Batch(issues[i].log[k])
      BY <2>1 DEF ToldIn, Batch
    <3> QED BY <3>1 DEF Twice
  <2> QED BY <2>1, <2>2 DEF Duplicates, ToldIn
<1> QED BY <1>1, <1>2 DEF AuditInvariant, IssuesGood, ToldIn, StateOf, HistorySound

\* reconcile_campaign, post_comment_once and recover_from_comments: the
\* comments of an issue tell its drift from the origin on, without a gap or a
\* repetition, and the body is at one of their states, unless a POST took
\* effect after its run had given it up.
THEOREM CommentsTellTheDrift == Spec => []HistorySound
BY HistoryFollows, AuditInvariantHolds, PTL

\* find_campaign and create_issue_safely: a campaign has no two issues, unless
\* people damaged the marker of one or a POST took effect late.
THEOREM OneIssueEach == Spec => []OneIssuePerCampaign
<1>1. AuditInvariant => OneIssuePerCampaign
  BY DEF AuditInvariant, IssuesGood
<1> QED BY <1>1, AuditInvariantHolds, PTL

\* verify_reconciliation: a run that ends well has left its report on GitHub,
\* even when writes were lost or came late, unless somebody interfered after it
\* had verified the issues.
THEOREM SuccessIsRecorded == Spec => []SuccessMeansRecorded
<1>1. AuditInvariant => SuccessMeansRecorded
  BY DEF AuditInvariant, Vouches
<1> QED BY <1>1, AuditInvariantHolds, PTL
=============================================================================
