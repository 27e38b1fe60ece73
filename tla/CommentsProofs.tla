---------------------------- MODULE CommentsProofs ----------------------------
(* What holds of comments for any number of people, comments and changes. *)
EXTENDS Comments, TLAPS, FiniteSetTheorems

Whoever == People \union {Nobody}
Made == [by : Whoever, actor : Actors, trusted : BOOLEAN, open : BOOLEAN, body : Bodies,
         live : {"same", "edited", "gone"}, stage : Stages]
Rows == [tracked : BOOLEAN, reviewer : (People \ {Author}) \union {Nobody}, skipped : SUBSET People,
         done : BOOLEAN, handoff : Nat, head : BOOLEAN]

\* A comment that a run may act on at once was routed to it, which asks who
\* made it and where the head is.
RoutedSound ==
  \A n \in DOMAIN comments :
    /\ comments[n].actor = "user" => comments[n].by \in People
    /\ comments[n].stage = "direct" =>
         item = "own" /\ comments[n].trusted /\ comments[n].actor = "user"

Inv == CommentsTypeOK /\ comments \in Seq(Made) /\ row \in Rows /\ HandoffIsReviewers /\ RoutedSound

-----------------------------------------------------------------------------
(* What a run may make of the row r for comment n: s.  The handoff is taken *)
(* back, or stays with the reviewer, or moves on to this comment; and a     *)
(* new reviewer is the doing of somebody entitled to it.                    *)

MayChoose(r, n, s) ==
  LET p == comments[n].by IN
  \/ p \in permitted \/ p = r.reviewer \/ p = s.reviewer
  \/ r.reviewer = Nobody /\ comments[n].actor = "user"

RowStep(r, n, s) ==
  /\ s \in Rows
  /\ \/ s.handoff = 0
     \/ s.handoff = r.handoff /\ s.reviewer = r.reviewer
     \/ s.handoff = n /\ n > r.handoff /\ comments[n].by = s.reviewer
  /\ s.reviewer # r.reviewer => MayChoose(r, n, s)

LEMMA Stays == ASSUME NEW r \in Rows, NEW n PROVE RowStep(r, n, r)
BY DEF RowStep

LEMMA AssignedRow ==
  ASSUME NEW r \in Rows, NEW n, NEW p \in People, NEW s \in Assigned(r, p)
  PROVE  /\ s \in Rows
         /\ s.handoff = 0 \/ (s.handoff = r.handoff /\ s.reviewer = r.reviewer)
         /\ s.reviewer \in {r.reviewer, p}
<1>1. CASE p = Author BY <1>1 DEF Assigned, Rows
<1>2. CASE p # Author
  <2>1. Anew(r, p) \in Rows /\ Anew(r, p).handoff = 0 /\ Anew(r, p).reviewer = p
    BY <1>2 DEF Anew, Rows
  <2>2. s = r \/ s = Anew(r, p) BY <1>2 DEF Assigned
  <2> QED BY <2>1, <2>2
<1> QED BY <1>1, <1>2

LEMMA FromLineRow ==
  ASSUME NEW r \in Rows, NEW skip, NEW s \in FromLine(r, skip)
  PROVE  /\ s \in Rows
         /\ s.handoff = 0 \/ (s.handoff = r.handoff /\ s.reviewer = r.reviewer)
<1>1. CASE s = r BY <1>1
<1>2. CASE s # r
  <2>1. PICK p \in NextInLine(skip) : s \in Assigned(r, p) BY <1>2 DEF FromLine
  <2>2. p \in People BY CommentsAssumption DEF NextInLine
  <2> QED BY <2>1, <2>2, AssignedRow
<1> QED BY <1>1, <1>2

LEMMA ExecutedRow ==
  ASSUME Inv, NEW r \in Rows, NEW n \in DOMAIN comments, comments[n].actor = "user",
         NEW command \in Commands, NEW s \in Executed(r, n, command)
  PROVE  RowStep(r, n, s)
<1> DEFINE p == comments[n].by
<1>0. p \in People /\ n \in Nat /\ n > 0
  <2>1. comments[n] \in Made /\ n \in 1 .. Len(comments) BY DEF Inv
  <2> QED BY <2>1 DEF Inv, RoutedSound
<1>1. CASE command = "claim"
  <2>1. s \in Claimed(r, p) BY <1>1 DEF Executed
  <2>2. CASE p \in Members
    <3>1. p \in People BY <2>2, CommentsAssumption
    <3>2. s \in Assigned(r, p) BY <2>1, <2>2 DEF Claimed
    <3> QED BY <3>1, <3>2, AssignedRow DEF RowStep, MayChoose
  <2>3. CASE p \notin Members BY <2>1, <2>3, Stays DEF Claimed
  <2> QED BY <2>2, <2>3
<1>2. CASE command = "assign"
  <2>1. s \in AssignedByName(r, p) BY <1>2 DEF Executed
  <2>2. CASE p \in permitted
    <3>1. s = r \/ \E q \in Members : s \in Assigned(r, q) BY <2>1 DEF AssignedByName
    <3>2. ASSUME NEW q \in Members, s \in Assigned(r, q) PROVE RowStep(r, n, s)
      BY <2>2, <3>2, AssignedRow, CommentsAssumption DEF RowStep, MayChoose
    <3> QED BY <3>1, <3>2, Stays
  <2>3. CASE p \notin permitted BY <2>1, <2>3, Stays DEF AssignedByName, MayAssign, Granted
  <2> QED BY <2>2, <2>3
<1>3. CASE command = "producers"
  <2>1. s \in AssignedFromLine(r, p) BY <1>3 DEF Executed
  <2>2. CASE MayAssign(r, p, "producers")
    <3>1. s \in FromLine(r, {}) BY <2>1, <2>2 DEF AssignedFromLine
    <3>2. MayChoose(r, n, s) BY <2>2 DEF MayAssign, MayChoose, Granted, IsReviewer
    <3> QED BY <3>1, <3>2, FromLineRow DEF RowStep
  <2>3. CASE ~ MayAssign(r, p, "producers") BY <2>1, <2>3, Stays DEF AssignedFromLine
  <2> QED BY <2>2, <2>3
<1>4. CASE command = "pass"
  <2>1. s \in Passed(r, p) BY <1>4 DEF Executed
  <2> DEFINE skipped == r.skipped \union {p}
  <2>2. CASE IsReviewer(r, p)
    <3>1. PICK t \in FromLine(r, skipped) : s = IF t = r THEN r ELSE [t EXCEPT !.skipped = skipped]
      BY <2>1, <2>2 DEF Passed
    <3>2. t \in Rows /\ (t.handoff = 0 \/ (t.handoff = r.handoff /\ t.reviewer = r.reviewer))
      BY <3>1, FromLineRow
    <3>3. CASE t = r BY <3>1, <3>3, Stays
    <3>4. CASE t # r
      <4>1. s = [t EXCEPT !.skipped = skipped] BY <3>1, <3>4
      <4>2. skipped \in SUBSET People BY <1>0 DEF Rows
      <4>3. s \in Rows /\ s.handoff = t.handoff /\ s.reviewer = t.reviewer
        BY <3>2, <4>1, <4>2 DEF Rows
      <4>4. p = r.reviewer BY <2>2 DEF IsReviewer
      <4> QED BY <3>2, <4>3, <4>4 DEF RowStep, MayChoose
    <3> QED BY <3>3, <3>4
  <2>3. CASE ~ IsReviewer(r, p) BY <2>1, <2>3, Stays DEF Passed
  <2> QED BY <2>2, <2>3
<1>5. CASE command = "release"
  <2>1. s \in Released(r, p) BY <1>5 DEF Executed
  <2>2. CASE IsReviewer(r, p)
    <3>1. s = [r EXCEPT !.reviewer = Nobody, !.handoff = 0] BY <2>1, <2>2 DEF Released
    <3>2. s \in Rows /\ s.handoff = 0 /\ p = r.reviewer BY <2>2, <3>1 DEF Rows, IsReviewer
    <3> QED BY <3>2 DEF RowStep, MayChoose
  <2>3. CASE ~ IsReviewer(r, p) BY <2>1, <2>3, Stays DEF Released
  <2> QED BY <2>2, <2>3
<1>6. CASE command \in {"done", "signoff", "other"}
  <2>1. s \in {r, [r EXCEPT !.done = TRUE]} BY <1>6 DEF Executed, MarkedDone, SignedOff
  <2> QED BY <2>1 DEF RowStep, Rows
<1>7. CASE command = "feedback"
  <2>1. s \in HandedOver(r, n) BY <1>7 DEF Executed
  <2>2. CASE s = r BY <2>2, Stays
  <2>3. CASE s # r
    <3>1. s = [r EXCEPT !.handoff = n] /\ IsReviewer(r, p) /\ Replaces(r, n)
      BY <2>1, <2>3 DEF HandedOver
    <3> QED BY <1>0, <3>1 DEF RowStep, Rows, IsReviewer, Replaces
  <2> QED BY <2>2, <2>3
<1> QED BY <1>1, <1>2, <1>3, <1>4, <1>5, <1>6, <1>7 DEF Commands

LEMMA FreshenedRow ==
  ASSUME Inv, NEW r \in Rows, NEW n \in DOMAIN comments
  PROVE  /\ Freshened(r, n) \in Rows /\ Freshened(r, n).reviewer = r.reviewer
         /\ \/ Freshened(r, n).handoff = r.handoff
            \/ Freshened(r, n).handoff = 0 /\ n > r.handoff
BY DEF Freshened, Rows

\* A step from the freshened row is one from the row.
LEMMA FreshenedFirst ==
  ASSUME Inv, NEW r \in Rows, NEW n \in DOMAIN comments, NEW s, RowStep(Freshened(r, n), n, s)
  PROVE  RowStep(r, n, s)
<1>1. n \in Nat /\ n > 0 /\ r.handoff \in Nat BY DEF Inv, Rows
<1> DEFINE f == Freshened(r, n)
<1>2. /\ f \in Rows /\ f.reviewer = r.reviewer
      /\ f.handoff = r.handoff \/ (f.handoff = 0 /\ n > r.handoff)
  BY FreshenedRow
<1> HIDE DEF f
<1>3. RowStep(f, n, s) BY DEF f
<1> QED BY <1>1, <1>2, <1>3 DEF RowStep, MayChoose

LEMMA CommandedRow ==
  ASSUME Inv, NEW r \in Rows, NEW n \in DOMAIN comments, NEW command,
         NEW s \in Commanded(r, n, command)
  PROVE  RowStep(r, n, s)
<1>1. CASE s = r BY <1>1, Stays
<1>2. CASE s # r
  <2>1. /\ comments[n].actor = "user" /\ command \in Commands /\ s \in Executed(r, n, command)
    BY <1>2 DEF Commanded, Decision
  <2> QED BY <2>1, ExecutedRow
<1> QED BY <1>1, <1>2

LEMMA ProcessedRow ==
  ASSUME Inv, NEW r \in Rows, NEW n \in DOMAIN comments, NEW b, NEW s \in Processed(r, n, b)
  PROVE  RowStep(r, n, s)
<1>1. PICK f \in {r, Freshened(r, n)} :
         s \in IF HasCommand(b) THEN Commanded(f, n, Parsed(b)) ELSE {f}
  BY DEF Processed
<1>2. f \in Rows BY FreshenedRow
<1>3. RowStep(f, n, s) BY <1>1, <1>2, CommandedRow, Stays
<1> QED BY <1>1, <1>3, FreshenedFirst

LEMMA ReplayRow ==
  ASSUME Inv, NEW n \in DOMAIN comments, NEW b, NEW done \in Replay(n, b)
  PROVE  RowStep(row, n, done.row) /\ done.stage \in Stages \ {"direct"}
<1>1. row \in Rows /\ Freshened(row, n) \in Rows BY FreshenedRow DEF Inv
<1>2. done.row = row \/ done.row = Freshened(row, n) \/ done.row \in Processed(Freshened(row, n), n, b)
  BY DEF Replay, Done
<1>3. done.stage \in {"gap", "dropped", "replayed"} BY DEF Replay, Done
<1> QED BY <1>1, <1>2, <1>3, Stays, ProcessedRow, FreshenedFirst DEF Stages

-----------------------------------------------------------------------------
(* What the bot's steps and the others' leave. *)

\* A run takes one comment, changes the row for it, and nothing else.
Takes(n) ==
  /\ n \in DOMAIN comments /\ RowStep(row, n, row')
  /\ \E s \in Stages : /\ Stage(n, s)
                       /\ s = "direct" => item = "own" /\ comments[n].trusted /\ comments[n].actor = "user"
  /\ UNCHANGED Env

LEMMA BotTakes ==
  ASSUME Inv, NEW n \in DOMAIN comments, Route(n) \/ Handle(n) \/ Reconcile(n)
  PROVE  Takes(n)
<1>0. row \in Rows BY DEF Inv
<1>1. CASE Route(n)
  <2>1. Target(comments[n]) \in Stages BY DEF Target, Stages
  <2>2. Target(comments[n]) = "direct" => item = "own" /\ comments[n].trusted /\ comments[n].actor = "user"
    BY DEF Target
  <2> QED BY <1>0, <1>1, <2>1, <2>2, Stays DEF Route, Takes
<1>2. CASE Handle(n)
  <2>1. RowStep(row, n, row') BY <1>0, <1>2, Stays, ProcessedRow DEF Handle
  <2>2. \E s \in {"handled", "dropped"} : Stage(n, s) BY <1>2 DEF Handle
  <2> QED BY <1>2, <2>1, <2>2 DEF Handle, Takes, Stages
<1>3. CASE Reconcile(n)
  <2>0. PICK b \in LiveBodies(comments[n]) :
          \E done \in Replay(n, b) : row' = done.row /\ Stage(n, done.stage)
    BY <1>3 DEF Reconcile
  <2>1. PICK done \in Replay(n, b) : row' = done.row /\ Stage(n, done.stage) BY <2>0
  <2>2. RowStep(row, n, row') /\ done.stage \in Stages \ {"direct"} BY <2>1, ReplayRow
  <2> QED BY <1>3, <2>1, <2>2 DEF Reconcile, Takes
<1> QED BY <1>1, <1>2, <1>3

LEMMA WorldLeaves ==
  ASSUME Inv, World \/ Forget
  PROVE  /\ row' \in Rows /\ row'.handoff \in {row.handoff, 0}
         /\ row'.reviewer = row.reviewer \/ row'.handoff = 0
         /\ comments' \in Seq(Made) /\ Len(comments') \in {Len(comments), Len(comments) + 1}
         /\ \A n \in DOMAIN comments : /\ n \in DOMAIN comments'
                                       /\ comments'[n].by = comments[n].by
                                       /\ comments'[n].stage = comments[n].stage
         /\ RoutedSound' /\ item' = item /\ open' \in BOOLEAN /\ readable' \in BOOLEAN
         /\ permitted' \subseteq People /\ changes' \in 0 .. MaxChanges /\ Len(comments') <= MaxComments
<1> USE DEF Inv, CommentsTypeOK
<1>0. NoRow \in Rows /\ NoRow.handoff = 0 BY DEF NoRow, Rows
<1>1. CASE \E p \in Whoever, actor \in Actors, trusted \in BOOLEAN, b \in Bodies : Comment(p, actor, trusted, b)
  <2>1. PICK p \in Whoever, actor \in Actors, trusted \in BOOLEAN, b \in Bodies : Comment(p, actor, trusted, b)
    BY <1>1
  <2> DEFINE c == [by |-> p, actor |-> actor, trusted |-> trusted, open |-> open,
                   body |-> b, live |-> "same", stage |-> "posted"]
  <2>2. c \in Made BY DEF Made, Stages
  <2>3. comments' = Append(comments, c) /\ UNCHANGED <<Env, row>> /\ Len(comments) < MaxComments
    BY <2>1 DEF Comment
  <2>4. c.actor = "user" => c.by \in People BY <2>1 DEF Comment, Whoever
  <2>5. c.stage = "posted" OBVIOUS
  <2> HIDE DEF c
  <2>6. /\ comments' \in Seq(Made) /\ Len(comments') = Len(comments) + 1
        /\ \A n \in DOMAIN comments : n \in DOMAIN comments' /\ comments'[n] = comments[n]
        /\ \A n \in DOMAIN comments' : n \in DOMAIN comments \/ comments'[n] = c
    BY <2>2, <2>3
  <2>7. RoutedSound' BY <2>3, <2>4, <2>5, <2>6 DEF RoutedSound, Env
  <2> QED BY <2>3, <2>6, <2>7, CommentsAssumption DEF Env
<1>2. CASE \E n \in DOMAIN comments : Alter(n)
  <2>1. PICK n \in DOMAIN comments, s \in {"edited", "gone"} : comments' = [comments EXCEPT ![n].live = s]
    BY <1>2 DEF Alter
  <2>2. changes' \in 0 .. MaxChanges /\ UNCHANGED <<item, open, permitted, readable, row>>
    BY <1>2, CommentsAssumption DEF Alter, Change
  <2>3. comments[n] \in Made OBVIOUS
  <2>4. [comments[n] EXCEPT !.live = s] \in Made BY <2>3 DEF Made
  <2>5. /\ comments' \in Seq(Made) /\ Len(comments') = Len(comments) /\ DOMAIN comments' = DOMAIN comments
        /\ \A j \in DOMAIN comments : j # n => comments'[j] = comments[j]
        /\ comments'[n] = [comments[n] EXCEPT !.live = s]
    BY <2>1, <2>4
  <2>6. /\ comments'[n].by = comments[n].by /\ comments'[n].stage = comments[n].stage
        /\ comments'[n].actor = comments[n].actor /\ comments'[n].trusted = comments[n].trusted
    BY <2>3, <2>5 DEF Made
  <2>7. RoutedSound'
    <3> SUFFICES ASSUME NEW j \in DOMAIN comments
                 PROVE  /\ comments'[j].actor = "user" => comments'[j].by \in People
                        /\ comments'[j].stage = "direct" =>
                             item = "own" /\ comments'[j].trusted /\ comments'[j].actor = "user"
      BY <2>2, <2>5 DEF RoutedSound
    <3>1. /\ comments'[j].by = comments[j].by /\ comments'[j].stage = comments[j].stage
          /\ comments'[j].actor = comments[j].actor /\ comments'[j].trusted = comments[j].trusted
      BY <2>5, <2>6
    <3> QED BY <3>1 DEF RoutedSound
  <2> QED BY <2>2, <2>5, <2>6, <2>7
<1>3. CASE (\E p \in People : Permit(p)) \/ Close \/ Outage
  <2>1. changes' \in 0 .. MaxChanges /\ UNCHANGED <<item, comments, row>>
    BY <1>3, CommentsAssumption DEF Permit, Close, Outage, Change
  <2>2. permitted' \subseteq People /\ open' \in BOOLEAN /\ readable' \in BOOLEAN
    BY <1>3 DEF Permit, Close, Outage
  <2>3. RoutedSound' BY <2>1 DEF RoutedSound
  <2> QED BY <2>1, <2>2, <2>3
<1>4. CASE LearnHead \/ Forget
  <2>1. UNCHANGED <<item, open, permitted, readable, changes, comments>>
    BY <1>4 DEF LearnHead, Forget, Env
  <2>2. row' = NoRow \/ row' = [row EXCEPT !.head = TRUE] BY <1>4 DEF LearnHead, Forget
  <2>3. row' \in Rows /\ row'.handoff \in {row.handoff, 0} /\ (row'.reviewer = row.reviewer \/ row'.handoff = 0)
    BY <1>0, <2>2 DEF Rows
  <2>4. RoutedSound' BY <2>1 DEF RoutedSound
  <2> QED BY <2>1, <2>3, <2>4
<1> QED BY <1>1, <1>2, <1>3, <1>4 DEF World, Whoever

LEMMA TakesLeaves ==
  ASSUME Inv, NEW n, Takes(n)
  PROVE  /\ comments' \in Seq(Made) /\ Len(comments') = Len(comments)
         /\ \A j \in DOMAIN comments : /\ comments'[j].by = comments[j].by
                                       /\ j # n => comments'[j] = comments[j]
         /\ RoutedSound'
<1> USE DEF Inv, CommentsTypeOK
<1>1. n \in DOMAIN comments BY DEF Takes
<1>2. PICK s \in Stages : /\ comments' = [comments EXCEPT ![n].stage = s]
                          /\ s = "direct" => item = "own" /\ comments[n].trusted /\ comments[n].actor = "user"
  BY DEF Takes, Stage
<1>3. comments[n] \in Made BY <1>1
<1>4. [comments[n] EXCEPT !.stage = s] \in Made BY <1>3 DEF Made
<1>5. /\ comments' \in Seq(Made) /\ Len(comments') = Len(comments) /\ DOMAIN comments' = DOMAIN comments
      /\ \A j \in DOMAIN comments : j # n => comments'[j] = comments[j]
      /\ comments'[n] = [comments[n] EXCEPT !.stage = s]
  BY <1>1, <1>2, <1>4
<1>6. /\ comments'[n].by = comments[n].by /\ comments'[n].stage = s
      /\ comments'[n].actor = comments[n].actor /\ comments'[n].trusted = comments[n].trusted
  BY <1>3, <1>5 DEF Made
<1>7. RoutedSound' BY <1>1, <1>2, <1>5, <1>6 DEF RoutedSound, Takes, Env
<1> QED BY <1>5, <1>6, <1>7

-----------------------------------------------------------------------------
LEMMA Steps ==
  ASSUME Inv, Next
  PROVE  (World \/ Forget) \/ \E n \in DOMAIN comments : Takes(n)
BY BotTakes DEF Next, Bot

LEMMA InitInv == Init => Inv
<1> SUFFICES ASSUME Init PROVE Inv OBVIOUS
<1>1. row \in Rows /\ row.handoff = 0 /\ row.reviewer = First
  <2>1. IsPR \in BOOLEAN BY DEF IsPR
  <2> QED BY <2>1, CommentsAssumption DEF Init, NoRow, Rows
<1>2. comments = <<>> /\ item \in Items /\ open = TRUE /\ readable = TRUE /\ changes = 0 /\ permitted = Maintainers
  BY DEF Init
<1>3. CommentsTypeOK BY <1>1, <1>2, CommentsAssumption DEF CommentsTypeOK, Rows
<1> QED BY <1>1, <1>2, <1>3 DEF Inv, HandoffIsReviewers, RoutedSound

LEMMA StepInv == Inv /\ [Next]_vars => Inv'
<1> SUFFICES ASSUME Inv, [Next]_vars PROVE Inv' OBVIOUS
<1>1. CASE World \/ Forget
  <2>1. HandoffIsReviewers'
    <3>1. row.handoff # 0 => row.handoff \in DOMAIN comments BY DEF Inv, CommentsTypeOK, Rows
    <3> QED BY <1>1, <3>1, WorldLeaves DEF Inv, HandoffIsReviewers
  <2>2. CommentsTypeOK'
    <3>1. row'.handoff \in 0 .. Len(comments')
      BY <1>1, WorldLeaves DEF Inv, CommentsTypeOK
    <3>2. \A n \in DOMAIN comments' : comments'[n] \in Made BY <1>1, WorldLeaves
    <3> QED BY <1>1, <3>1, <3>2, WorldLeaves DEF Inv, CommentsTypeOK, Made, Rows, Whoever
  <2> QED BY <1>1, <2>1, <2>2, WorldLeaves DEF Inv
<1>2. CASE \E n \in DOMAIN comments : Takes(n)
  <2>1. PICK n \in DOMAIN comments : Takes(n) BY <1>2
  <2>2. RowStep(row, n, row') /\ UNCHANGED Env BY <2>1 DEF Takes
  <2>3. row' \in Rows BY <2>2 DEF RowStep
  <2>4. HandoffIsReviewers'
    <3>1. row.handoff # 0 => row.handoff \in DOMAIN comments BY DEF Inv, CommentsTypeOK, Rows
    <3>0. \A j \in DOMAIN comments : comments'[j].by = comments[j].by BY <2>1, TakesLeaves
    <3> SUFFICES ASSUME row'.handoff # 0 PROVE comments'[row'.handoff].by = row'.reviewer
      BY DEF HandoffIsReviewers
    <3>2. CASE row'.handoff = row.handoff /\ row'.reviewer = row.reviewer
      BY <3>0, <3>1, <3>2 DEF Inv, HandoffIsReviewers
    <3>3. CASE row'.handoff = n /\ comments[n].by = row'.reviewer
      BY <3>0, <3>3
    <3> QED BY <2>2, <3>2, <3>3 DEF RowStep
  <2>5. CommentsTypeOK'
    <3>1. row'.handoff \in 0 .. Len(comments') /\ Len(comments') <= MaxComments
      BY <2>1, <2>2, TakesLeaves DEF Inv, CommentsTypeOK, RowStep
    <3>2. \A j \in DOMAIN comments' : comments'[j] \in Made BY <2>1, TakesLeaves
    <3> QED BY <2>2, <2>3, <3>1, <3>2 DEF Env, Inv, CommentsTypeOK, Made, Rows, Whoever
  <2> QED BY <2>1, <2>3, <2>4, <2>5, TakesLeaves DEF Inv
<1>3. CASE UNCHANGED vars
  BY <1>3 DEF vars, Inv, CommentsTypeOK, HandoffIsReviewers, RoutedSound
<1> QED BY <1>1, <1>2, <1>3, Steps

LEMMA InvHolds == Spec => []Inv
BY InitInv, StepInv, PTL DEF Spec

\* Whose stage changes is whose run it is.
LEMMA TakenIsTakes ==
  ASSUME Inv, Next, NEW n \in DOMAIN comments, Taken(n)
  PROVE  Takes(n)
<1>1. ~ (World \/ Forget) BY WorldLeaves DEF Taken
<1>2. PICK m \in DOMAIN comments : Takes(m) BY <1>1, Steps
<1>3. m = n BY <1>2, TakesLeaves DEF Taken
<1> QED BY <1>2, <1>3

-----------------------------------------------------------------------------
(* A run and a replay of the same comment.  A replay freshens the row first, *)
(* which may take back the handoff if the comment is the author's.           *)

\* s is r but for the handoff.
Alike(r, s) ==
  /\ s.tracked = r.tracked /\ s.reviewer = r.reviewer /\ s.skipped = r.skipped
  /\ s.done = r.done /\ s.head = r.head

LEMMA AssignedAlike ==
  ASSUME NEW r \in Rows, NEW f \in Rows, Alike(r, f), NEW p, NEW t \in Assigned(f, p)
  PROVE  \E u \in Assigned(r, p) : Alike(u, t)
<1>1. CASE p = Author
  <2>1. Assigned(r, p) = {[r EXCEPT !.tracked = TRUE]} /\ t = [f EXCEPT !.tracked = TRUE]
    BY <1>1 DEF Assigned
  <2>2. Alike([r EXCEPT !.tracked = TRUE], [f EXCEPT !.tracked = TRUE])
    BY DEF Alike, Rows
  <2> QED BY <2>1, <2>2
<1>2. CASE p # Author
  <2>1. Alike(Anew(r, p), Anew(f, p)) BY DEF Alike, Anew, Rows
  <2>2. CASE r.reviewer = p
    <3>1. Assigned(r, p) = {r} \union (IF IsPR THEN {Anew(r, p)} ELSE {})
      BY <1>2, <2>2 DEF Assigned
    <3>2. t = f \/ (IsPR /\ t = Anew(f, p))
      BY <1>2, <2>2 DEF Assigned, Alike
    <3> QED BY <2>1, <3>1, <3>2
  <2>3. CASE r.reviewer # p
    <3>1. Assigned(r, p) = {Anew(r, p)} /\ t = Anew(f, p)
      BY <1>2, <2>3 DEF Assigned, Alike
    <3> QED BY <2>1, <3>1
  <2> QED BY <2>2, <2>3
<1> QED BY <1>1, <1>2

LEMMA FromLineAlike ==
  ASSUME NEW r \in Rows, NEW f \in Rows, Alike(r, f), NEW t \in FromLine(f, {})
  PROVE  \E u \in FromLine(r, {}) : Alike(u, t)
<1>1. CASE NextInLine({}) = {} BY <1>1 DEF FromLine
<1>2. CASE NextInLine({}) # {}
  <2>1. PICK p \in NextInLine({}) : t \in Assigned(f, p) BY <1>2 DEF FromLine
  <2>2. PICK u \in Assigned(r, p) : Alike(u, t) BY <2>1, AssignedAlike
  <2> QED BY <1>2, <2>2 DEF FromLine
<1> QED BY <1>1, <1>2

\* The author, who is never the reviewer, commands the same with or without a handoff.
LEMMA ExecutedAlike ==
  ASSUME NEW r \in Rows, NEW f \in Rows, Alike(r, f), NEW n, comments[n].by = Author,
         NEW command \in Commands, NEW t \in Executed(f, n, command)
  PROVE  \E u \in Executed(r, n, command) : Alike(u, t)
<1>1. ~ IsReviewer(r, Author) /\ ~ IsReviewer(f, Author)
  BY CommentsAssumption DEF Rows, IsReviewer
<1>2. CASE command = "claim"
  <2>1. Executed(r, n, command) = Claimed(r, Author) /\ t \in Claimed(f, Author) BY <1>2 DEF Executed
  <2> QED BY <2>1, AssignedAlike DEF Claimed
<1>3. CASE command = "assign"
  <2>1. Executed(r, n, command) = AssignedByName(r, Author) /\ t \in AssignedByName(f, Author)
    BY <1>3 DEF Executed
  <2>2. MayAssign(r, Author, "person") <=> MayAssign(f, Author, "person") BY DEF MayAssign
  <2>3. CASE MayAssign(r, Author, "person")
    <3>1. PICK q \in Members : t \in Assigned(f, q) BY <2>1, <2>2, <2>3 DEF AssignedByName
    <3>2. PICK u \in Assigned(r, q) : Alike(u, t) BY <3>1, AssignedAlike
    <3> QED BY <2>1, <2>3, <3>2 DEF AssignedByName
  <2>4. CASE ~ MayAssign(r, Author, "person") BY <2>1, <2>2, <2>4 DEF AssignedByName
  <2> QED BY <2>3, <2>4
<1>4. CASE command = "producers"
  <2>1. Executed(r, n, command) = AssignedFromLine(r, Author) /\ t \in AssignedFromLine(f, Author)
    BY <1>4 DEF Executed
  <2>2. MayAssign(r, Author, "producers") <=> MayAssign(f, Author, "producers")
    BY <1>1 DEF MayAssign, Alike
  <2> QED BY <2>1, <2>2, FromLineAlike DEF AssignedFromLine
<1>5. CASE command \in {"pass", "release", "feedback", "other"}
  <2>1. Executed(r, n, command) = {r} /\ t = f
    BY <1>1, <1>5 DEF Executed, Passed, Released, HandedOver
  <2> QED BY <2>1
<1>6. CASE command \in {"done", "signoff"}
  <2>1. \/ Executed(r, n, command) = {r} /\ t = f
        \/ Executed(r, n, command) = {[r EXCEPT !.done = TRUE]} /\ t = [f EXCEPT !.done = TRUE]
    BY <1>1, <1>6 DEF Executed, MarkedDone, SignedOff, Alike
  <2>2. Alike([r EXCEPT !.done = TRUE], [f EXCEPT !.done = TRUE]) BY DEF Alike, Rows
  <2> QED BY <2>1, <2>2
<1> QED BY <1>2, <1>3, <1>4, <1>5, <1>6 DEF Commands

LEMMA CommandedAlike ==
  ASSUME NEW r \in Rows, NEW f \in Rows, Alike(r, f), NEW n, comments[n].by = Author,
         NEW command, NEW t \in Commanded(f, n, command)
  PROVE  \E u \in Commanded(r, n, command) : Alike(u, t)
<1>1. CASE Decision(comments[n].actor, command) = "execute" /\ readable
  <2>1. command \in Commands BY <1>1 DEF Decision
  <2> QED BY <1>1, <2>1, ExecutedAlike DEF Commanded
<1>2. CASE ~ (Decision(comments[n].actor, command) = "execute" /\ readable)
  BY <1>2 DEF Commanded
<1> QED BY <1>1, <1>2

LEMMA FreshenedAlike ==
  ASSUME NEW r \in Rows, r.tracked, NEW n
  PROVE  /\ Alike(r, Freshened(r, n)) /\ Freshened(r, n).tracked
         /\ comments[n].by # Author => Freshened(r, n) = r
BY DEF Freshened, Alike, Rows

LEMMA EffectsAlike ==
  ASSUME NEW n, NEW r, NEW s, Alike(r, s), comments[n].by = Author
  PROVE  Effects(s, n) = Effects(r, n)
BY DEF Effects, Alike

LEMMA ReplayedAgrees ==
  ASSUME Inv, NEW r \in Rows, r.tracked, NEW n \in DOMAIN comments, NEW b,
         NEW t \in Processed(Freshened(r, n), n, b)
  PROVE  \E u \in Processed(r, n, b) : Effects(t, n) = Effects(u, n)
<1>1. CASE comments[n].by # Author BY <1>1, FreshenedAlike
<1>2. CASE comments[n].by = Author
  <2> DEFINE Twice(q) == IF LiveClass(b) \in WithText /\ Parsed(b) # "feedback" THEN Freshened(q, n) ELSE q
  <2>1. PICK f \in Rows : f = Freshened(r, n) /\ Alike(r, f) /\ f.tracked
    BY FreshenedRow, FreshenedAlike
  <2>2. PICK g \in Rows, h \in Rows : /\ g = Twice(f) /\ h = Twice(r)
                                      /\ Alike(f, g) /\ Alike(r, h)
    <3>1. Twice(f) \in {f, Freshened(f, n)} /\ Twice(r) \in {r, Freshened(r, n)} OBVIOUS
    <3>2. Alike(f, f) /\ Alike(r, r) BY DEF Alike
    <3>3. Twice(f) \in Rows /\ Twice(r) \in Rows BY <3>1, FreshenedRow
    <3>4. Alike(f, Twice(f)) /\ Alike(r, Twice(r)) BY <2>1, <3>1, <3>2, FreshenedAlike
    <3> HIDE DEF Twice
    <3> QED BY <3>3, <3>4
  <2>3. Alike(h, g) BY <2>1, <2>2 DEF Alike
  <2>4. CASE HasCommand(b)
    <3>1. t \in Commanded(g, n, Parsed(b)) /\ Processed(r, n, b) = Commanded(h, n, Parsed(b))
      BY <2>1, <2>2, <2>4 DEF Processed
    <3>2. PICK u \in Commanded(h, n, Parsed(b)) : Alike(u, t) BY <1>2, <2>3, <3>1, CommandedAlike
    <3> QED BY <1>2, <3>1, <3>2, EffectsAlike
  <2>5. CASE ~ HasCommand(b)
    <3>1. t = g /\ Processed(r, n, b) = {h} BY <2>1, <2>2, <2>5 DEF Processed
    <3> QED BY <1>2, <2>3, <3>1, EffectsAlike
  <2> QED BY <2>4, <2>5
<1> QED BY <1>1, <1>2

-----------------------------------------------------------------------------
(* An open item is tracked: only a closed one is forgotten. *)

TrackedWhileOpen == open => row.tracked

LEMMA AssignedTracked ==
  ASSUME NEW r \in Rows, r.tracked, NEW p, NEW s \in Assigned(r, p)
  PROVE  s.tracked
BY DEF Assigned, Anew, Rows

LEMMA FromLineTracked ==
  ASSUME NEW r \in Rows, r.tracked, NEW skip, NEW s \in FromLine(r, skip)
  PROVE  s.tracked
<1>1. s = r \/ \E p \in NextInLine(skip) : s \in Assigned(r, p) BY DEF FromLine
<1> QED BY <1>1, AssignedTracked

LEMMA ExecutedTracked ==
  ASSUME NEW r \in Rows, r.tracked, NEW n, NEW command \in Commands, NEW s \in Executed(r, n, command)
  PROVE  s.tracked
<1> DEFINE p == comments[n].by
<1>1. CASE command = "claim"
  BY <1>1, AssignedTracked DEF Executed, Claimed
<1>2. CASE command = "assign"
  <2>1. s = r \/ \E q \in Members : s \in Assigned(r, q) BY <1>2 DEF Executed, AssignedByName
  <2> QED BY <2>1, AssignedTracked
<1>3. CASE command = "producers"
  BY <1>3, FromLineTracked DEF Executed, AssignedFromLine
<1>4. CASE command = "pass"
  <2>1. s \in Passed(r, p) BY <1>4 DEF Executed
  <2> DEFINE skipped == r.skipped \union {p}
  <2>2. CASE IsReviewer(r, p)
    <3>1. PICK t \in FromLine(r, skipped) : s = IF t = r THEN r ELSE [t EXCEPT !.skipped = skipped]
      BY <2>1, <2>2 DEF Passed
    <3>2. CASE t = r BY <3>1, <3>2
    <3>3. CASE t # r
      <4>1. PICK q \in NextInLine(skipped) : t \in Assigned(r, q) BY <3>1, <3>3 DEF FromLine
      <4>2. t \in {r, Anew(r, q), [r EXCEPT !.tracked = TRUE]} BY <4>1 DEF Assigned
      <4>3. DOMAIN t = DOMAIN r /\ t.tracked
        <5>1. DOMAIN r = DOMAIN Anew(r, q) /\ DOMAIN r = DOMAIN [r EXCEPT !.tracked = TRUE]
          BY DEF Anew, Rows
        <5> QED BY <4>1, <4>2, <5>1, AssignedTracked
      <4>4. s = [t EXCEPT !.skipped = skipped] BY <3>1, <3>3
      <4> HIDE DEF skipped
      <4>5. "tracked" \in DOMAIN r BY DEF Rows
      <4> QED BY <4>3, <4>4, <4>5
    <3> QED BY <3>2, <3>3
  <2>3. CASE ~ IsReviewer(r, p) BY <2>1, <2>3 DEF Passed
  <2> QED BY <2>2, <2>3
<1>5. CASE command \in {"release", "done", "signoff", "feedback", "other"}
  <2>1. s \in {r, [r EXCEPT !.reviewer = Nobody, !.handoff = 0], [r EXCEPT !.done = TRUE],
               [r EXCEPT !.handoff = n]}
    BY <1>5 DEF Executed, Released, MarkedDone, SignedOff, HandedOver
  <2> QED BY <2>1 DEF Rows
<1> QED BY <1>1, <1>2, <1>3, <1>4, <1>5 DEF Commands

LEMMA ProcessedTracked ==
  ASSUME Inv, NEW r \in Rows, r.tracked, NEW n \in DOMAIN comments, NEW b, NEW s \in Processed(r, n, b)
  PROVE  s.tracked
<1>1. PICK f \in {r, Freshened(r, n)} :
         s \in IF HasCommand(b) THEN Commanded(f, n, Parsed(b)) ELSE {f}
  BY DEF Processed
<1>2. f \in Rows /\ f.tracked BY FreshenedRow, FreshenedAlike
<1>3. s = f \/ (Parsed(b) \in Commands /\ s \in Executed(f, n, Parsed(b)))
  BY <1>1 DEF Commanded, Decision
<1> QED BY <1>2, <1>3, ExecutedTracked

LEMMA TrackedKept ==
  ASSUME Inv, TrackedWhileOpen, [Next]_vars
  PROVE  TrackedWhileOpen'
<1> SUFFICES ASSUME open' PROVE row'.tracked
  BY DEF TrackedWhileOpen
<1>0. row \in Rows BY DEF Inv
<1>1. CASE World
  <2>1. open /\ (row' = row \/ row' = [row EXCEPT !.head = TRUE])
    BY <1>1 DEF World, Comment, Alter, Permit, Close, Outage, LearnHead, Env, Change
  <2> QED BY <1>0, <2>1 DEF TrackedWhileOpen, Rows
<1>2. CASE Forget
  BY <1>2 DEF Forget, Env
<1>3. CASE \E n \in DOMAIN comments : Route(n) \/ Handle(n) \/ Reconcile(n)
  <2>1. PICK n \in DOMAIN comments : Route(n) \/ Handle(n) \/ Reconcile(n) BY <1>3
  <2>2. open /\ row.tracked
    BY <2>1 DEF Route, Handle, Reconcile, Env, TrackedWhileOpen
  <2>3. CASE Route(n) BY <2>2, <2>3 DEF Route
  <2>4. CASE Handle(n) BY <1>0, <2>2, <2>4, ProcessedTracked DEF Handle
  <2>5. CASE Reconcile(n)
    <3>1. PICK b \in LiveBodies(comments[n]) : \E done \in Replay(n, b) : row' = done.row
      BY <2>5 DEF Reconcile
    <3>2. PICK done \in Replay(n, b) : row' = done.row BY <3>1
    <3>3. done.row = row \/ done.row = Freshened(row, n) \/ done.row \in Processed(Freshened(row, n), n, b)
      BY <3>2 DEF Replay, Done
    <3>4. Freshened(row, n) \in Rows /\ Freshened(row, n).tracked
      BY <1>0, <2>2, FreshenedRow, FreshenedAlike
    <3> QED BY <2>2, <3>2, <3>3, <3>4, ProcessedTracked
  <2> QED BY <2>1, <2>3, <2>4, <2>5
<1>4. CASE UNCHANGED vars
  BY <1>4 DEF vars, TrackedWhileOpen
<1> QED BY <1>1, <1>2, <1>3, <1>4 DEF Next, Bot

LEMMA TrackedHolds == Spec => []TrackedWhileOpen
<1>1. Init => TrackedWhileOpen
  <2>1. Init => row.tracked BY DEF Init, NoRow
  <2> QED BY <2>1 DEF TrackedWhileOpen
<1>2. Inv /\ TrackedWhileOpen /\ [Next]_vars => TrackedWhileOpen'
  BY TrackedKept
<1> QED BY <1>1, <1>2, InvHolds, PTL DEF Spec

\* A comment leaves the artifacts by its replay.
LEMMA DeferredIsReplayed ==
  ASSUME Inv, Next, NEW n \in DOMAIN comments, Taken(n), comments[n].stage = "deferred"
  PROVE  \E b \in LiveBodies(comments[n]) :
           \E done \in Replay(n, b) : row' = done.row /\ comments'[n].stage = done.stage
<1>1. ~ (World \/ Forget) BY WorldLeaves DEF Taken
<1>2. PICK m \in DOMAIN comments : Route(m) \/ Handle(m) \/ Reconcile(m)
  BY <1>1 DEF Next, Bot
<1>3. m = n
  <2>1. Takes(m) BY <1>2, BotTakes
  <2> QED BY <2>1, TakesLeaves DEF Taken
<1>4. Reconcile(n)
  BY <1>2, <1>3 DEF Route, Handle, Admitted
<1>5. PICK b \in LiveBodies(comments[n]) : \E done \in Replay(n, b) : row' = done.row /\ Stage(n, done.stage)
  BY <1>4 DEF Reconcile
<1>6. PICK done \in Replay(n, b) : row' = done.row /\ Stage(n, done.stage) BY <1>5
<1>7. comments'[n].stage = done.stage
  <2>1. comments[n] \in Made BY DEF Inv
  <2>2. comments'[n] = [comments[n] EXCEPT !.stage = done.stage] BY <1>6 DEF Inv, Stage
  <2> QED BY <2>1, <2>2 DEF Made
<1> QED BY <1>6, <1>7

LEMMA FreshenedEffects ==
  ASSUME NEW r \in Rows, r.tracked, NEW n
  PROVE  Effects(Freshened(r, n), n) = Effects(r, n)
<1>1. CASE comments[n].by = Author BY <1>1, FreshenedAlike, EffectsAlike
<1>2. CASE comments[n].by # Author BY <1>2, FreshenedAlike
<1> QED BY <1>1, <1>2

\* A comment without a command only freshens.
LEMMA PlainEffects ==
  ASSUME NEW r \in Rows, r.tracked, NEW n, NEW b, LiveClass(b) \notin WithCommand
  PROVE  \E u \in Processed(r, n, b) : Effects(r, n) = Effects(u, n)
<1>1. PICK u \in {r, Freshened(r, n)} : Processed(r, n, b) = {u}
  BY DEF Processed, HasCommand
<1> QED BY <1>1, FreshenedEffects

LEMMA CommandSets == \A S \in SUBSET Commands : IsFiniteSet(S) /\ Cardinality(S) \in Nat
<1>1. Commands = {"pass"} \union {"release"} \union {"claim"} \union {"assign"} \union {"producers"}
                   \union {"done"} \union {"signoff"} \union {"feedback"} \union {"other"}
  BY DEF Commands
<1>2. IsFiniteSet(Commands) BY <1>1, FS_Singleton, FS_Union
<1> QED BY <1>2, FS_Subset, FS_CardinalityType

-----------------------------------------------------------------------------
(* The theorems *)

\* The saved state is well typed and never has the author for the reviewer,
\* whatever comments, commands and changes come.
THEOREM Typed == Spec => []CommentsTypeOK
<1>1. Inv => CommentsTypeOK BY DEF Inv
<1> QED BY <1>1, InvHolds, PTL

\* The review is handed to the author only by who is the reviewer now, with any
\* number of reviewers and comments (_reset_cycle_state).
THEOREM HandoffOwned == Spec => []HandoffIsReviewers
<1>1. Inv => HandoffIsReviewers BY DEF Inv
<1> QED BY <1>1, InvHolds, PTL

\* A handoff only gives way to a newer one (_feedback_handoff_should_replace),
\* in whatever order and on whichever path comments are handled.
THEOREM HandoffsOnlyAdvance == Spec => HandoffsAdvance
<1>1. Inv /\ [Next]_vars => [row.handoff # 0 /\ row'.handoff # 0 => row'.handoff >= row.handoff]_vars
  <2> SUFFICES ASSUME Inv, Next, row.handoff # 0, row'.handoff # 0
               PROVE  row'.handoff >= row.handoff
    OBVIOUS
  <2>0. row.handoff \in Nat BY DEF Inv, Rows
  <2>1. CASE World \/ Forget BY <2>0, <2>1, WorldLeaves
  <2>2. CASE \E n \in DOMAIN comments : Takes(n)
    <3>1. PICK n \in DOMAIN comments : RowStep(row, n, row') BY <2>2 DEF Takes
    <3>2. n \in Nat BY DEF Inv
    <3> QED BY <2>0, <3>1, <3>2 DEF RowStep
  <2> QED BY <2>1, <2>2, Steps
<1> QED BY <1>1, InvHolds, PTL DEF Spec, HandoffsAdvance

\* Nobody changes the reviewer without being entitled to it when the run acts:
\* by triage permission, as the reviewer of now, by claiming, or as somebody who
\* asks for a reviewer where there is none (authorize_assignment_command).
THEOREM OnlyTheEntitled == Spec => EntitledNow
<1>1. Inv /\ [Next]_vars =>
        [\A n \in DOMAIN comments : Taken(n) /\ row'.reviewer # row.reviewer => MayChoose(row, n, row')]_vars
  <2> SUFFICES ASSUME Inv, Next, NEW n \in DOMAIN comments, Taken(n), row'.reviewer # row.reviewer
               PROVE  MayChoose(row, n, row')
    OBVIOUS
  <2>1. Takes(n) BY TakenIsTakes
  <2> QED BY <2>1 DEF Takes, RowStep
<1> QED BY <1>1, InvHolds, PTL DEF Spec, EntitledNow, MayChoose

\* On a pull request the run that writes at once does so only for who is
\* trusted, on a head of this repository (_route_issue_comment_trust).
THEOREM DirectTrusted == Spec => DirectIsTrusted
<1>1. Inv /\ [Next]_vars =>
        [\A n \in DOMAIN comments : Taken(n) /\ comments[n].stage = "direct" /\ row' # row =>
            item = "own" /\ comments[n].trusted /\ comments[n].actor = "user"]_vars
  BY DEF Inv, RoutedSound
<1> QED BY <1>1, InvHolds, PTL DEF Spec, DirectIsTrusted

\* decide_comment_replay, handle_workflow_run_event_result: a replay does what the
\* comment said when it was made, or nothing, however it was edited, whoever lost
\* the permission and whatever else was commented before it ran.
THEOREM ReplaysRunAsPosted == Spec => RunsAsPosted
<1>1. Inv /\ TrackedWhileOpen /\ [Next]_vars =>
        [\A n \in DOMAIN comments : Taken(n) /\ comments[n].stage = "deferred" =>
            Effects(row', n) \in AsDirect(n) \union {Effects(row, n)}]_vars
  <2> SUFFICES ASSUME Inv, TrackedWhileOpen, Next, NEW n \in DOMAIN comments, Taken(n),
                      comments[n].stage = "deferred"
               PROVE  Effects(row', n) \in AsDirect(n) \union {Effects(row, n)}
    OBVIOUS
  <2>0. PICK b \in LiveBodies(comments[n]) :
          \E done \in Replay(n, b) : row' = done.row /\ comments'[n].stage = done.stage
    BY DeferredIsReplayed
  <2>1. PICK done \in Replay(n, b) : row' = done.row BY <2>0
  <2>2. row \in Rows BY DEF Inv
  <2>3. CASE ~ readable \/ ~ open
    <3>1. row' = row BY <2>1, <2>3 DEF Replay, Done
    <3>2. Effects(row', n) = Effects(row, n) BY <3>1 DEF Effects
    <3> QED BY <3>2
  <2>4. CASE readable /\ open
    <3>1. row.tracked BY <2>4 DEF TrackedWhileOpen
    <3>2. PICK t : t = row' /\ (\/ t = Freshened(row, n)
                                \/ b = comments[n].body /\ t \in Processed(Freshened(row, n), n, b))
      BY <2>1, <2>4 DEF Replay, Done, Intact
    <3>3. Effects(row', n) = Effects(t, n) BY <3>2 DEF Effects
    <3>4. CASE t = Freshened(row, n) BY <2>2, <3>1, <3>3, <3>4, FreshenedEffects
    <3>5. CASE b = comments[n].body /\ t \in Processed(Freshened(row, n), n, b)
      <4>1. \E u \in Processed(row, n, b) : Effects(t, n) = Effects(u, n)
        BY <2>2, <3>1, <3>5, ReplayedAgrees
      <4> QED BY <3>3, <3>5, <4>1 DEF AsDirect
    <3> QED BY <3>2, <3>4, <3>5
  <2> QED BY <2>3, <2>4
<1> QED BY <1>1, InvHolds, TrackedHolds, PTL DEF Spec, RunsAsPosted

\* process_comment_event and the replay agree: what is deferred, and then as it was
\* and of one command at most, without code blocks, does what it would have done at once.
THEOREM ReplayIsDirect == Spec => PathsAgree
<1>1. Inv /\ TrackedWhileOpen /\ [Next]_vars =>
        [\A n \in DOMAIN comments :
           Taken(n) /\ comments[n].stage = "deferred" /\ comments[n].live = "same" /\ open /\ readable
             /\ comments[n].body.code = "none" /\ Count(comments[n].body) <= 1 =>
           Effects(row', n) \in AsDirect(n) /\ comments'[n].stage = "replayed"]_vars
  <2> SUFFICES ASSUME Inv, TrackedWhileOpen, Next, NEW n \in DOMAIN comments, Taken(n),
                      comments[n].stage = "deferred", comments[n].live = "same", open, readable,
                      comments[n].body.code = "none", Count(comments[n].body) <= 1
               PROVE  Effects(row', n) \in AsDirect(n) /\ comments'[n].stage = "replayed"
    OBVIOUS
  <2>0. PICK b \in LiveBodies(comments[n]) :
          \E done \in Replay(n, b) : row' = done.row /\ comments'[n].stage = done.stage
    BY DeferredIsReplayed
  <2>1. PICK done \in Replay(n, b) : row' = done.row /\ comments'[n].stage = done.stage BY <2>0
  <2>2. b = comments[n].body /\ b \in Bodies
    <3>1. comments[n] \in Made BY DEF Inv
    <3> QED BY <2>1, <3>1 DEF LiveBodies, Made
  <2>3. Intact(comments[n], b)
    <3>1. Count(b) \in Nat
      <4>1. b.alone \subseteq Commands BY <2>2, CommentsAssumption
      <4> QED BY <4>1, CommandSets DEF Count
    <3>2. SourceClass(b) = LiveClass(b)
      BY <2>2, <3>1, CommentsAssumption DEF SourceClass, LiveClass
    <3>3. LiveClass(b) \in WithCommand => Count(b) = 1
      <4>1. LiveClass(b) \in WithCommand => Count(b) > 0
        BY <3>1 DEF LiveClass, Class, WithCommand
      <4> QED BY <2>2, <3>1, <4>1
    <3> QED BY <2>2, <3>2, <3>3 DEF Intact
  <2>4. row \in Rows /\ row.tracked BY DEF Inv, TrackedWhileOpen
  <2>5. PICK t : /\ t = row' /\ done.stage = "replayed"
                 /\ IF LiveClass(b) \in WithCommand THEN t \in Processed(Freshened(row, n), n, b)
                    ELSE t = Freshened(row, n)
    BY <2>1, <2>3 DEF Replay, Done
  <2>6. \E u \in Processed(row, n, b) : Effects(t, n) = Effects(u, n)
    <3>1. CASE LiveClass(b) \in WithCommand BY <2>4, <2>5, <3>1, ReplayedAgrees
    <3>2. CASE LiveClass(b) \notin WithCommand
      <4>1. Effects(t, n) = Effects(row, n) BY <2>4, <2>5, <3>2, FreshenedEffects
      <4> QED BY <2>4, <3>2, <4>1, PlainEffects
    <3> QED BY <3>1, <3>2
  <2>7. Effects(row', n) = Effects(t, n) BY <2>5 DEF Effects
  <2> QED BY <2>1, <2>2, <2>5, <2>6, <2>7 DEF AsDirect
<1> QED BY <1>1, InvHolds, TrackedHolds, PTL DEF Spec, PathsAgree
=============================================================================
