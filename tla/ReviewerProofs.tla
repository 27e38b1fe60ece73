--------------------------- MODULE ReviewerProofs ---------------------------
(***************************************************************************)
(* Proofs about who reviews an item: about Assignment, for any people,     *)
(* kinds of items, and numbers of failures and interventions, and about    *)
(* ReviewerQueue, for any members, items, dates and numbers of edits of    *)
(* members.md.  The two modules share no constant and no variable.         *)
(***************************************************************************)
EXTENDS Assignment, ReviewerQueue, SequenceTheorems, WellFoundedInduction, TLAPS

(***************************************************************************)
(* Assignment                                                              *)
(***************************************************************************)

(* The inductive invariant *)

\* What a run is about to save agrees with GitHub, or says that it may not.
Conclusive == run.pc = "save" /\ ~pending =>
  \/ run.marks # {}
  \/ run.tracked # NoOne => IF isPR THEN live = {} \/ run.tracked \in live ELSE live = {run.tracked}

\* As long as a run can still end without saving, the saved state is good; the
\* run for a change of assignees cannot.
MayLeave == run.pc = "idle" \/ (run.pc = "read" /\ run.op # "lifecycle") \/ run.op = "check"
SavedStateGood == MayLeave /\ ~pending /\ ~cut => Agree \/ marks # {}

\* Whom a run has still to remove, and what is left of the assignees then.
Clearing ==
  /\ run.pc = "remove" /\ ~pending => live \subseteq run.todo \union {run.who}
  /\ run.pc \in {"add", "final"} /\ ~pending => live \subseteq {run.who}
  /\ run.pc \in {"remove", "add", "final"} => run.who \in People

\* What a run is for: a command is about somebody, a run for a new item began
\* without a tracked reviewer, the scheduled check changes nothing on GitHub.  A
\* removal that failed has been marked.
Marked == /\ run.pc = "read" => run.op # "none"
          /\ run.pc = "read" /\ run.op \in {"assign", "pass", "away", "release"} => run.who \in People
          /\ run.pc = "read" /\ run.op = "opened" => tracked = NoOne
          /\ run.pc = "failread" => "remove" \in run.marks
          /\ run.op = "check" => run.pc \in {"read", "save"}

\* A run that is not done with GitHub has not chosen another reviewer; one that
\* has, has seen that person assigned.
ChosenLive ==
  \/ run.pc = "idle"
  \/ run.tracked \in {tracked, NoOne}
  \/ run.pc = "save" /\ (isPR \/ pending \/ run.tracked \in live)

AssignmentInvariant ==
  AssignmentTypeOK /\ Conclusive /\ SavedStateGood /\ Clearing /\ Marked /\ ChosenLive

RunRecord == [pc : Phases, op : Ops, who : People \union {NoOne}, before : SUBSET People,
              todo : SUBSET People, added : {"no", "422", "failed"},
              tracked : People \union {NoOne}, marks : SUBSET Marks, fresh : BOOLEAN]

LEMMA AssignmentInit == Init => AssignmentInvariant
<1> SUFFICES ASSUME Init PROVE AssignmentInvariant
  OBVIOUS
<1>1. AssignmentTypeOK
  <2>1. run \in RunRecord
    BY DEF Init, RunRecord, Idle, Phases, Ops
  <2>2. isPR \in BOOLEAN /\ {pending, cut} \subseteq BOOLEAN
    BY KindsAssumption DEF Init
  <2> QED BY <2>1, <2>2, BoundAssumption DEF Init, AssignmentTypeOK, RunRecord
<1>2. Agree
  BY DEF Init, Agree
<1> QED BY <1>1, <1>2 DEF Init, AssignmentInvariant, Conclusive, SavedStateGood, Clearing,
                          Marked, ChosenLive, Idle

-----------------------------------------------------------------------------
(* Type correctness *)

\* What the helpers that change a run's record do to it.
LEMMA Helpers ==
  ASSUME NEW r \in RunRecord
  PROVE  /\ Read(r) \in RunRecord /\ Wrote(r) \in RunRecord /\ Clear(r) \in RunRecord
         /\ \A p \in Phases : To(r, p) \in RunRecord
         /\ \A m \in Marks : Mark(r, m) \in RunRecord
         /\ \A M : Unmark(r, M) \in RunRecord
BY DEF RunRecord, Read, Wrote, Clear, To, Mark, Unmark, Phases, Ops, Marks

LEMMA Fields ==
  ASSUME NEW r \in RunRecord
  PROVE  /\ \A p : LET s == To(r, p) IN
              /\ s.pc = p /\ s.op = r.op /\ s.who = r.who /\ s.before = r.before /\ s.todo = r.todo
              /\ s.tracked = r.tracked /\ s.marks = r.marks /\ s.added = r.added
         /\ \A s \in {Read(r), Wrote(r)} :
              /\ s.pc = r.pc /\ s.op = r.op /\ s.who = r.who /\ s.before = r.before /\ s.todo = r.todo
              /\ s.tracked = r.tracked /\ s.marks = r.marks /\ s.added = r.added
         /\ LET s == Clear(r) IN
              /\ s.pc = r.pc /\ s.op = r.op /\ s.who = r.who /\ s.before = r.before /\ s.todo = r.todo
              /\ s.tracked = NoOne /\ s.marks = r.marks
         /\ \A m : LET s == Mark(r, m) IN
              /\ s.pc = r.pc /\ s.op = r.op /\ s.who = r.who /\ s.before = r.before /\ s.todo = r.todo
              /\ s.tracked = r.tracked /\ s.marks = r.marks \union {m}
         /\ \A M : LET s == Unmark(r, M) IN
              /\ s.pc = r.pc /\ s.op = r.op /\ s.who = r.who /\ s.before = r.before /\ s.todo = r.todo
              /\ s.tracked = r.tracked /\ s.marks = r.marks \ M
BY DEF RunRecord, Read, Wrote, Clear, To, Mark, Unmark

LEMMA IdleTyped == Idle \in RunRecord /\ Idle.pc = "idle" /\ Idle.op = "none"
BY DEF RunRecord, Idle, Phases, Ops

LEMMA AssignTyped ==
  ASSUME AssignmentTypeOK, NEW r \in RunRecord, NEW p \in People
  PROVE  Assign(r, p) \in RunRecord
BY DEF AssignmentTypeOK, RunRecord, Assign, To, Mark, Phases, Marks

\* What the first read can lead to.
LEMMA DecideCases ==
  ASSUME AssignmentTypeOK, Marked, run.pc = "read", NEW d \in Decide(Read(run))
  PROVE  \/ d = Idle /\ run.op # "lifecycle"
         \/ run.op # "check" /\ \E p \in People : d = Assign(Read(run), p)
         \/ run.op # "check" /\ d = To(Read(run), "relread")
         \/ d = To(Clear(Read(run)), "save")
         \/ /\ run.op = "check"
            /\ d = To(IF TrackedConfirmed THEN Unmark(Read(run), {"confirm"})
                                          ELSE Mark(Read(run), "confirm"), "save")
<1> DEFINE r == Read(run)
<1>1. r.op = run.op /\ r.who = run.who /\ run.op \in Ops \ {"none"}
  BY DEF AssignmentTypeOK, Read, Marked
<1>2. \A q : SomebodyElse(q) \subseteq People
  BY DEF SomebodyElse
<1> HIDE DEF r
<1>3. CASE run.op = "assign"
  <2>1. Decide(r) = {Assign(r, r.who)} /\ r.who \in People
    BY <1>1, <1>3 DEF Decide, Marked
  <2> QED BY <1>3, <2>1 DEF r
<1>4. CASE run.op = "pass"
  <2>1. Decide(r) \subseteq {Assign(r, n) : n \in SomebodyElse(r.who)} \union {Idle}
    BY <1>1, <1>4 DEF Decide
  <2> QED BY <1>2, <1>4, <2>1 DEF r
<1>5. CASE run.op = "away"
  <2>1. Decide(r) \subseteq {Assign(r, n) : n \in SomebodyElse(r.who)} \union {To(r, "relread"), Idle}
    BY <1>1, <1>5 DEF Decide
  <2> QED BY <1>2, <1>5, <2>1 DEF r
<1>6. CASE run.op = "release"
  <2>1. Decide(r) \subseteq {To(r, "relread"), Idle}
    BY <1>1, <1>6 DEF Decide
  <2> QED BY <1>6, <2>1 DEF r
<1>7. CASE run.op = "check"
  <2>1. Decide(r) = {To(IF TrackedConfirmed THEN Unmark(r, {"confirm"}) ELSE Mark(r, "confirm"), "save")}
    BY <1>1, <1>7 DEF Decide
  <2> QED BY <1>7, <2>1 DEF r
<1>8. CASE run.op \in {"opened", "lifecycle"}
  <2>1. \/ \E p \in live : d = To(Clear(r), "save") \/ d = Assign(r, p)
        \/ run.op = "opened" /\ d \in {Assign(r, n) : n \in SomebodyElse(NoOne)} \union {Idle}
        \/ d = To(Clear(r), "save")
    BY <1>1, <1>8 DEF Decide, r
  <2> QED BY <1>2, <1>8, <2>1 DEF r, AssignmentTypeOK
<1> QED BY <1>1, <1>3, <1>4, <1>5, <1>6, <1>7, <1>8 DEF Ops

-----------------------------------------------------------------------------
(* The inductive invariant, action by action *)

\* The run goes on with record r: what has to hold of r.
LEMMA GoesOn ==
  ASSUME AssignmentInvariant, NEW r \in RunRecord, run' = r, r.pc # "read",
         UNCHANGED <<isPR, tracked, marks, pending, cut, humans>>,
         live' \subseteq People, faults' \in 0..MaxFaults,
         r.op = "check" => MayLeave /\ live' = live /\ r.pc = "save",
         r.pc = "idle" => MayLeave /\ live' = live,
         Conclusive', Clearing',
         r.pc = "failread" => "remove" \in r.marks,
         r.pc = "idle" \/ r.tracked \in {tracked, NoOne}
           \/ (r.pc = "save" /\ (isPR \/ pending \/ r.tracked \in live'))
  PROVE  AssignmentInvariant'
<1>1. AssignmentTypeOK'
  BY DEF AssignmentInvariant, AssignmentTypeOK, RunRecord
<1>2. SavedStateGood'
  BY DEF AssignmentInvariant, SavedStateGood, MayLeave, Agree
<1>3. Marked'
  BY DEF Marked
<1>4. ChosenLive'
  BY DEF ChosenLive
<1> QED BY <1>1, <1>2, <1>3, <1>4 DEF AssignmentInvariant

LEMMA StartKeeps ==
  ASSUME AssignmentInvariant, UNCHANGED isPR, StartSome
  PROVE  AssignmentInvariant'
<1>1. PICK op \in Ops \ {"none"}, p \in People \union {NoOne} :
             Start(op, p) /\ (op \in {"assign", "pass", "away", "release"} => p \in People)
  BY DEF StartSome, Ops
<1>2. /\ run.pc = "idle" /\ run' = [Idle EXCEPT !.pc = "read", !.op = op, !.who = p,
                                                !.tracked = tracked, !.marks = marks]
      /\ pending' = (pending /\ op \notin {"opened", "lifecycle"})
      /\ op = "opened" => tracked = NoOne
      /\ UNCHANGED <<live, tracked, marks, cut, faults, humans>>
  BY <1>1 DEF Start, Saved
<1>3. run' \in RunRecord /\ run'.pc = "read" /\ run'.op = op /\ run'.who = p /\ run'.tracked = tracked
  BY <1>2 DEF Idle, RunRecord, Phases, AssignmentInvariant, AssignmentTypeOK, Ops
<1>4. AssignmentTypeOK'
  <2>1. pending' \in BOOLEAN
    BY <1>2
  <2> QED BY <1>2, <1>3, <2>1 DEF AssignmentInvariant, AssignmentTypeOK, RunRecord
<1>5. SavedStateGood'
  BY <1>2, <1>3 DEF AssignmentInvariant, SavedStateGood, MayLeave, Agree
<1>6. Conclusive' /\ Clearing' /\ ChosenLive'
  BY <1>3, <1>2 DEF Conclusive, Clearing, ChosenLive
<1>7. Marked'
  BY <1>1, <1>2, <1>3 DEF Marked
<1> QED BY <1>4, <1>5, <1>6, <1>7 DEF AssignmentInvariant

LEMMA FirstReadKeeps ==
  ASSUME AssignmentInvariant, UNCHANGED isPR, FirstRead
  PROVE  AssignmentInvariant'
<1> DEFINE r == Read(run)
<1>1. /\ run.pc = "read" /\ live' = live /\ run \in RunRecord /\ faults' \in 0..MaxFaults
      /\ AssignmentTypeOK /\ Marked /\ run.tracked \in {tracked, NoOne}
  <2>1. run.pc = "read" /\ live' = live /\ (NoFault \/ Fault)
    BY DEF FirstRead
  <2>2. AssignmentTypeOK /\ Marked /\ run.tracked \in {tracked, NoOne}
    BY <2>1 DEF AssignmentInvariant, ChosenLive
  <2> QED BY <2>1, <2>2, BoundAssumption DEF NoFault, Fault, AssignmentTypeOK, RunRecord
<1>2. r \in RunRecord /\ r.op = run.op /\ r.tracked = run.tracked
  BY <1>1, Helpers DEF Read, RunRecord
<1> HIDE DEF r
<1>3. /\ MayLeave \/ run.op = "lifecycle"
      /\ live \subseteq People /\ UNCHANGED <<isPR, live>>
  BY <1>1 DEF MayLeave, AssignmentTypeOK
<1>4. ASSUME NEW p \in People, run.op # "check", On(Assign(r, p)) PROVE AssignmentInvariant'
  <2> DEFINE d == Assign(r, p)
  <2>1. d \in RunRecord /\ d.op = run.op /\ d.tracked \in {tracked, NoOne}
    <3>1. d \in RunRecord
      BY <1>1, <1>2, AssignTyped
    <3>2. d.op = r.op /\ d.tracked = r.tracked
      BY <1>2 DEF Assign, To, Mark, RunRecord
    <3> QED BY <1>1, <1>2, <3>1, <3>2
  <2>2. \/ d.pc = "save" /\ ("confirm" \in d.marks \/ (d.tracked = p /\ live = {p}))
        \/ d.pc = "remove" /\ d.who = p /\ d.todo = live \ {p}
    BY <1>2 DEF Assign, To, Mark, RunRecord
  <2> HIDE DEF d
  <2>3. run' = d /\ UNCHANGED <<tracked, marks, pending, cut, humans>>
    BY <1>4 DEF On, Saved, Outside, d
  <2>4. Conclusive' /\ Clearing'
    BY <1>1, <2>2, <2>3 DEF Conclusive, Clearing
  <2> QED BY <1>1, <1>3, <1>4, <2>1, <2>2, <2>3, <2>4, GoesOn
<1>5. ASSUME run.op # "check", On(To(r, "relread")) PROVE AssignmentInvariant'
  <2>1. To(r, "relread") \in RunRecord /\ To(r, "relread").pc = "relread"
        /\ To(r, "relread").op = run.op /\ To(r, "relread").tracked = run.tracked
    BY <1>2, Helpers, Fields DEF Phases
  <2>2. run' = To(r, "relread") /\ UNCHANGED <<tracked, marks, pending, cut, humans>>
    BY <1>5 DEF On, Saved, Outside
  <2>3. Conclusive' /\ Clearing'
    BY <2>1, <2>2 DEF Conclusive, Clearing
  <2> QED BY <1>1, <1>3, <1>5, <2>1, <2>2, <2>3, GoesOn
<1>6. ASSUME On(To(Clear(r), "save")) PROVE AssignmentInvariant'
  <2> DEFINE d == To(Clear(r), "save")
  <2>1. d \in RunRecord /\ d.pc = "save" /\ d.op = run.op /\ d.tracked = NoOne
    <3>1. Clear(r) \in RunRecord /\ Clear(r).op = run.op /\ Clear(r).tracked = NoOne
      BY <1>2, Helpers, Fields
    <3> DEFINE c == Clear(r)
    <3>2. c \in RunRecord
      BY <3>1
    <3> HIDE DEF c
    <3>3. To(c, "save") \in RunRecord /\ To(c, "save").pc = "save" /\ To(c, "save").op = c.op
          /\ To(c, "save").tracked = c.tracked
      BY <3>2, Helpers, Fields DEF Phases
    <3> QED BY <3>1, <3>3 DEF c
  <2> HIDE DEF d
  <2>2. run' = d /\ UNCHANGED <<tracked, marks, pending, cut, humans>>
    BY <1>6 DEF On, Saved, Outside, d
  <2>3. Conclusive' /\ Clearing'
    BY <2>1, <2>2 DEF Conclusive, Clearing
  <2>4. run.op = "check" => MayLeave
    BY DEF MayLeave
  <2> QED BY <1>1, <1>3, <2>1, <2>2, <2>3, <2>4, GoesOn
<1>7. ASSUME run.op = "check",
             \/ On(To(IF TrackedConfirmed THEN Unmark(r, {"confirm"}) ELSE Mark(r, "confirm"), "save"))
             \/ On(To(Mark(run, "confirm"), "save"))
      PROVE  AssignmentInvariant'
  <2>1. PICK d \in RunRecord : /\ On(d) /\ d.pc = "save" /\ d.op = run.op /\ d.tracked = run.tracked
                               /\ TrackedConfirmed \/ "confirm" \in d.marks
    <3>1. To(Unmark(r, {"confirm"}), "save") \in RunRecord /\ To(Mark(r, "confirm"), "save") \in RunRecord
          /\ To(Mark(run, "confirm"), "save") \in RunRecord
      BY <1>1, <1>2, Helpers DEF Phases, Marks
    <3> QED BY <1>1, <1>2, <1>7, <3>1 DEF To, Mark, Unmark, RunRecord
  <2>2. run' = d /\ UNCHANGED <<tracked, marks, pending, cut, humans>>
    BY <2>1 DEF On, Saved, Outside
  <2>3. Conclusive' /\ Clearing'
    BY <1>1, <2>1, <2>2 DEF Conclusive, Clearing, TrackedConfirmed
  <2> QED BY <1>1, <1>3, <1>7, <2>1, <2>2, <2>3, GoesOn
<1>8. ASSUME run.op # "lifecycle", run' = Idle, UNCHANGED <<tracked, marks, pending, cut, humans>>
      PROVE  AssignmentInvariant'
  <2>1. Idle \in RunRecord /\ Idle.pc = "idle" /\ Idle.op # "check"
    BY IdleTyped
  <2>2. Conclusive' /\ Clearing'
    BY <1>8, <2>1 DEF Conclusive, Clearing
  <2> QED BY <1>1, <1>3, <1>8, <2>1, <2>2, GoesOn
<1>9. CASE \E d \in Decide(Read(run)) : On(d)
  BY <1>1, <1>4, <1>5, <1>6, <1>7, <1>8, <1>9, DecideCases DEF On, Saved, Outside, r
<1>10. CASE ~\E d \in Decide(Read(run)) : On(d)
  <2>1. \/ run.op = "check" /\ On(To(Mark(run, "confirm"), "save"))
        \/ run.op \in {"assign", "pass", "away", "release"} /\ Quit
    BY <1>1, <1>10 DEF FirstRead, AssignmentTypeOK, Ops, Marked
  <2> QED BY <1>7, <1>8, <2>1 DEF Quit, Saved, Outside
<1> QED BY <1>9, <1>10

LEMMA MarkKept ==
  ASSUME NEW r \in RunRecord, NEW p, NEW m
  PROVE  m \in To(Mark(r, m), p).marks /\ m \in Clear(To(Mark(r, m), p)).marks
<1>1. To(Mark(r, m), p).marks = r.marks \union {m}
  BY DEF RunRecord, To, Mark
<1>2. Clear(To(Mark(r, m), p)).marks = r.marks \union {m}
  BY DEF RunRecord, To, Mark, Clear
<1> QED BY <1>1, <1>2

\* The records the later steps go on with.
LEMMA Chains ==
  ASSUME NEW r \in RunRecord, NEW p \in Phases, NEW m \in Marks
  PROVE  /\ \A s \in {To(r, p), To(Wrote(r), p), To(Mark(r, m), p), To(Mark(Read(r), m), p),
                      To(Mark(Wrote(r), m), p), Clear(To(Mark(Read(r), m), p))} :
              s \in RunRecord /\ s.pc = p /\ s.op = r.op /\ s.who = r.who /\ s.todo = r.todo
         /\ \A s \in {To(r, p), To(Wrote(r), p), To(Mark(r, m), p), To(Mark(Read(r), m), p),
                      To(Mark(Wrote(r), m), p)} : s.tracked = r.tracked
         /\ \A s \in {To(Mark(r, m), p), To(Mark(Read(r), m), p),
                      To(Mark(Wrote(r), m), p), Clear(To(Mark(Read(r), m), p))} : m \in s.marks
         /\ \A s \in {To(r, p), To(Wrote(r), p)} : s.marks = r.marks
         /\ Clear(To(Mark(Read(r), m), p)).tracked = NoOne
         /\ \A M : LET s == To(Unmark(Read(r), M), p) IN
              s \in RunRecord /\ s.pc = p /\ s.op = r.op /\ s.tracked = r.tracked /\ s.marks = r.marks \ M
         /\ \A M : LET s == To(Clear(Unmark(Read(r), M)), p) IN
              s \in RunRecord /\ s.pc = p /\ s.op = r.op /\ s.tracked = NoOne
<1>1. ASSUME NEW q \in {r, Wrote(r), Read(r)}
      PROVE  /\ To(q, p) \in RunRecord /\ To(Mark(q, m), p) \in RunRecord
             /\ Clear(To(Mark(q, m), p)) \in RunRecord
             /\ \A M : To(Unmark(q, M), p) \in RunRecord /\ To(Clear(Unmark(q, M)), p) \in RunRecord
  <2>1. q \in RunRecord
    BY <1>1, Helpers
  <2>2. Mark(q, m) \in RunRecord /\ To(q, p) \in RunRecord /\ \A M : Unmark(q, M) \in RunRecord
    BY <2>1, Helpers
  <2>3. To(Mark(q, m), p) \in RunRecord
    BY <2>2, Helpers
  <2>4. Clear(To(Mark(q, m), p)) \in RunRecord
    BY <2>3, Helpers
  <2>5. ASSUME NEW M PROVE To(Unmark(q, M), p) \in RunRecord /\ To(Clear(Unmark(q, M)), p) \in RunRecord
    <3>1. Unmark(q, M) \in RunRecord
      BY <2>2
    <3>2. Clear(Unmark(q, M)) \in RunRecord
      BY <3>1, Helpers
    <3> QED BY <3>1, <3>2, Helpers
  <2> QED BY <2>2, <2>3, <2>4, <2>5
<1>2. \A s \in {To(r, p), To(Wrote(r), p), To(Mark(r, m), p), To(Mark(Read(r), m), p),
                To(Mark(Wrote(r), m), p), Clear(To(Mark(Read(r), m), p))} :
        s.pc = p /\ s.op = r.op /\ s.who = r.who /\ s.todo = r.todo
  BY DEF RunRecord, To, Wrote, Read, Mark, Clear
<1>3. \A s \in {To(r, p), To(Wrote(r), p), To(Mark(r, m), p), To(Mark(Read(r), m), p),
                To(Mark(Wrote(r), m), p)} : s.tracked = r.tracked
  BY DEF RunRecord, To, Wrote, Read, Mark, Clear
<1>4. \A s \in {To(Mark(r, m), p), To(Mark(Read(r), m), p),
                To(Mark(Wrote(r), m), p), Clear(To(Mark(Read(r), m), p))} : m \in s.marks
  <2>1. ASSUME NEW q \in {r, Wrote(r), Read(r)}
        PROVE  m \in To(Mark(q, m), p).marks /\ m \in Clear(To(Mark(q, m), p)).marks
    <3>1. q \in RunRecord
      BY <2>1, Helpers
    <3> QED BY <3>1, MarkKept
  <2> QED BY <2>1
<1>5. /\ \A s \in {To(r, p), To(Wrote(r), p)} : s.marks = r.marks
      /\ Clear(To(Mark(Read(r), m), p)).tracked = NoOne
  BY DEF RunRecord, To, Wrote, Read, Mark, Clear
<1>6. \A M : LET s == To(Unmark(Read(r), M), p) IN
              s.pc = p /\ s.op = r.op /\ s.tracked = r.tracked /\ s.marks = r.marks \ M
  BY DEF RunRecord, To, Read, Unmark
<1>7. \A M : LET s == To(Clear(Unmark(Read(r), M)), p) IN s.pc = p /\ s.op = r.op /\ s.tracked = NoOne
  BY DEF RunRecord, To, Read, Unmark, Clear
<1> QED BY <1>1, <1>2, <1>3, <1>4, <1>5, <1>6, <1>7

\* What every step of a run in progress starts from.
LEMMA InProgress ==
  ASSUME AssignmentInvariant, run.pc # "idle", NoFault \/ Fault
  PROVE  /\ run \in RunRecord /\ live \subseteq People /\ faults' \in 0..MaxFaults
         /\ run.pc # "save" => run.tracked \in {tracked, NoOne}
         /\ run.pc \notin {"read", "save"} => run.op # "check"
         /\ run.pc \in {"remove", "add", "final"} => run.who \in People
         /\ run.pc = "failread" => "remove" \in run.marks
         /\ run.pc = "remove" /\ ~pending => live \subseteq run.todo \union {run.who}
         /\ run.pc \in {"add", "final"} /\ ~pending => live \subseteq {run.who}
BY BoundAssumption DEF AssignmentInvariant, AssignmentTypeOK, RunRecord, Marked, ChosenLive,
                       Clearing, NoFault, Fault

\* A run that is not the scheduled check goes on, without being over, and
\* without having chosen anybody.
LEMMA GoesOnUnchosen ==
  ASSUME AssignmentInvariant, UNCHANGED isPR, NEW r \in RunRecord, On(r),
         r.pc \notin {"read", "idle"}, r.op # "check", r.tracked \in {tracked, NoOne},
         live' \subseteq People, faults' \in 0..MaxFaults,
         Conclusive', Clearing', r.pc = "failread" => "remove" \in r.marks
  PROVE  AssignmentInvariant'
BY GoesOn DEF On, Saved, Outside

\* A run that is not the scheduled check goes on to save what it has marked.
LEMMA GoesOnMarked ==
  ASSUME AssignmentInvariant, UNCHANGED isPR, NEW r \in RunRecord, On(r),
         r.pc = "save", r.op # "check", r.tracked \in {tracked, NoOne},
         live' \subseteq People, faults' \in 0..MaxFaults, r.marks # {}
  PROVE  AssignmentInvariant'
<1>1. Conclusive' /\ Clearing'
  BY DEF Conclusive, Clearing, On
<1> QED BY <1>1, GoesOnUnchosen

LEMMA RemoveKeeps ==
  ASSUME AssignmentInvariant, UNCHANGED isPR, RemoveOne
  PROVE  AssignmentInvariant'
<1>1. run.pc = "remove" /\ (NoFault \/ Fault)
  BY DEF RemoveOne
<1>2. PICK a \in run.todo :
        \/ live' = live \ {a} /\ On(Wrote([run EXCEPT !.todo = @ \ {a}]))
        \/ live' \in {live, live \ {a}} /\ On(To(Mark(Wrote(run), "remove"), "failread"))
  BY DEF RemoveOne
<1>3. CASE live' = live \ {a} /\ On(Wrote([run EXCEPT !.todo = @ \ {a}]))
  <2> DEFINE r == Wrote([run EXCEPT !.todo = @ \ {a}])
  <2>1. r \in RunRecord
    <3>1. [run EXCEPT !.todo = @ \ {a}] \in RunRecord
      BY <1>1, InProgress DEF RunRecord
    <3> QED BY <3>1, Helpers
  <2>2. r.pc = "remove" /\ r.op = run.op /\ r.who = run.who /\ r.tracked = run.tracked
        /\ r.todo = run.todo \ {a}
    BY <1>1, InProgress DEF RunRecord, Wrote
  <2> HIDE DEF r
  <2>3. run' = r /\ pending' = pending
    BY <1>3 DEF On, Outside, r
  <2>4. Conclusive' /\ Clearing'
    BY <1>1, <1>3, <2>2, <2>3, InProgress DEF Conclusive, Clearing
  <2>5. live' \subseteq People
    BY <1>1, <1>3, InProgress
  <2>6. On(r)
    BY <1>3 DEF r
  <2> QED BY <1>1, <2>1, <2>2, <2>4, <2>5, <2>6, InProgress, GoesOnUnchosen
<1>4. CASE live' \in {live, live \ {a}} /\ On(To(Mark(Wrote(run), "remove"), "failread"))
  <2> DEFINE r == To(Mark(Wrote(run), "remove"), "failread")
  <2>1. r \in RunRecord /\ r.pc = "failread" /\ r.op = run.op /\ r.tracked = run.tracked
        /\ "remove" \in r.marks
    BY <1>1, InProgress, Chains DEF Phases, Marks
  <2> HIDE DEF r
  <2>2. run' = r
    BY <1>4 DEF On, r
  <2>3. Conclusive' /\ Clearing'
    BY <2>1, <2>2 DEF Conclusive, Clearing
  <2>4. On(r)
    BY <1>4 DEF r
  <2>5. live' \subseteq People
    BY <1>1, <1>4, InProgress
  <2> QED BY <1>1, <2>1, <2>3, <2>4, <2>5, InProgress, GoesOnUnchosen
<1> QED BY <1>2, <1>3, <1>4

LEMMA AllRemovedKeeps ==
  ASSUME AssignmentInvariant, UNCHANGED isPR, AllRemoved
  PROVE  AssignmentInvariant'
<1>1. run.pc = "remove" /\ NoFault /\ live' = live /\ run.todo = {}
  BY DEF AllRemoved, NoFault
<1> DEFINE p == IF run.who \in run.before THEN "final" ELSE "add"
           r == To(run, p)
<1>2. p \in {"add", "final"} /\ p \in Phases
  BY DEF Phases
<1>3. On(r)
  BY DEF AllRemoved
<1> HIDE DEF p
<1>4. r \in RunRecord /\ r.pc = p /\ r.op = run.op /\ r.who = run.who /\ r.tracked = run.tracked
  BY <1>1, <1>2, InProgress, Chains DEF Marks
<1> HIDE DEF r
<1>5. Conclusive' /\ Clearing'
  BY <1>1, <1>2, <1>3, <1>4, InProgress DEF Conclusive, Clearing, On, Outside
<1> QED BY <1>1, <1>2, <1>3, <1>4, <1>5, InProgress, GoesOnUnchosen

LEMMA AddKeeps ==
  ASSUME AssignmentInvariant, UNCHANGED isPR, Add
  PROVE  AssignmentInvariant'
<1>1. run.pc = "add" /\ (NoFault \/ Fault) /\ live' \in {live, live \union {run.who}}
  BY DEF Add
<1>2. PICK r \in RunRecord : /\ On(r) /\ r.pc = "final" /\ r.op = run.op /\ r.who = run.who
                             /\ r.tracked = run.tracked
  <2>1. PICK q \in {run, [run EXCEPT !.added = "422"], [run EXCEPT !.added = "failed"]} :
          On(To(Wrote(q), "final")) \/ On(To(Mark(Wrote(q), "add"), "final"))
    BY DEF Add
  <2>2. q \in RunRecord /\ q.op = run.op /\ q.who = run.who /\ q.tracked = run.tracked
    BY <1>1, InProgress DEF RunRecord
  <2> QED BY <2>1, <2>2, Chains DEF Phases, Marks
<1>3. Conclusive' /\ Clearing'
  BY <1>1, <1>2, InProgress DEF Conclusive, Clearing, On, Outside
<1> QED BY <1>1, <1>2, <1>3, InProgress, GoesOnUnchosen

LEMMA ReadAfterFailureKeeps ==
  ASSUME AssignmentInvariant, UNCHANGED isPR, ReadAfterFailure
  PROVE  AssignmentInvariant'
<1>1. run.pc = "failread" /\ (NoFault \/ Fault) /\ live' = live
  BY DEF ReadAfterFailure
<1>2. PICK r \in RunRecord : /\ On(r) /\ r.pc = "save" /\ r.op = run.op /\ r.tracked = run.tracked
                             /\ r.marks # {}
  <2>1. run \in RunRecord /\ "remove" \in run.marks
    BY <1>1, InProgress
  <2>2. CASE On(To(Mark(run, "confirm"), "save"))
    BY <2>1, <2>2, Chains DEF Phases, Marks
  <2>3. CASE On(To(Unmark(Read(run), {"confirm"}), "save"))
    <3> DEFINE r == To(Unmark(Read(run), {"confirm"}), "save")
    <3>1. r \in RunRecord /\ r.pc = "save" /\ r.op = run.op /\ r.tracked = run.tracked
          /\ r.marks = run.marks \ {"confirm"}
      BY <2>1, Chains DEF Phases, Marks
    <3> QED BY <2>1, <2>3, <3>1
  <2> QED BY <2>2, <2>3 DEF ReadAfterFailure
<1> QED BY <1>1, <1>2, InProgress, GoesOnMarked

LEMMA FinalReadKeeps ==
  ASSUME AssignmentInvariant, UNCHANGED isPR, FinalRead
  PROVE  AssignmentInvariant'
<1>1. run.pc = "final" /\ (NoFault \/ Fault) /\ live' = live
  BY DEF FinalRead
<1>2. run \in RunRecord /\ run.who \in People
  BY <1>1, InProgress
<1>3. CASE TrackingAllowed /\ On(To(Read([run EXCEPT !.tracked = run.who, !.marks = {}]), "save"))
  <2> DEFINE q == [run EXCEPT !.tracked = run.who, !.marks = {}]
             r == To(Read(q), "save")
  <2>1. q \in RunRecord /\ q.op = run.op /\ q.tracked = run.who
    BY <1>2 DEF RunRecord
  <2> HIDE DEF q
  <2>2. r \in RunRecord /\ r.pc = "save" /\ r.op = run.op /\ r.tracked = run.who
    <3>1. Read(q) \in RunRecord /\ Read(q).op = run.op /\ Read(q).tracked = run.who
      BY <2>1, Helpers, Fields
    <3> QED BY <3>1, Chains DEF Phases, Marks
  <2>3. On(r)
    BY <1>3 DEF q
  <2> HIDE DEF r
  <2>4. run.who \in live \/ isPR
    BY <1>3 DEF TrackingAllowed
  <2>5. ~pending => live \subseteq {run.who}
    BY <1>1, InProgress
  <2>6. ~pending => IF isPR THEN live = {} \/ run.who \in live ELSE live = {run.who}
    BY <2>4, <2>5
  <2>7. Conclusive' /\ Clearing'
    BY <1>1, <2>2, <2>3, <2>6 DEF Conclusive, Clearing, On, Outside
  <2> QED BY <1>1, <2>2, <2>3, <2>4, <2>7, InProgress, GoesOn DEF On, Saved, Outside
<1>4. CASE \E r \in {To(Mark(Read(run), "confirm"), "save"), Clear(To(Mark(Read(run), "confirm"), "save")),
                     To(Mark(run, "confirm"), "save")} : On(r)
  <2>1. PICK r \in RunRecord : /\ On(r) /\ r.pc = "save" /\ r.op = run.op
                               /\ r.tracked \in {run.tracked, NoOne} /\ r.marks # {}
    BY <1>2, <1>4, Chains DEF Phases, Marks
  <2> QED BY <1>1, <2>1, InProgress, GoesOnMarked
<1> QED BY <1>3, <1>4 DEF FinalRead

LEMMA ReleaseReadKeeps ==
  ASSUME AssignmentInvariant, UNCHANGED isPR, ReleaseRead
  PROVE  AssignmentInvariant'
<1>1. run.pc = "relread" /\ (NoFault \/ Fault) /\ live' = live /\ run \in RunRecord
  BY InProgress DEF ReleaseRead
<1>2. CASE On(To(Mark(run, "confirm"), "save"))
  <2> DEFINE r == To(Mark(run, "confirm"), "save")
  <2>1. r \in RunRecord /\ r.pc = "save" /\ r.op = run.op /\ r.tracked = run.tracked
        /\ "confirm" \in r.marks
    BY <1>1, Chains DEF Phases, Marks
  <2> HIDE DEF r
  <2>2. On(r)
    BY <1>2 DEF r
  <2> QED BY <1>1, <2>1, <2>2, InProgress, GoesOnMarked
<1>3. CASE \E p \in {"relremove", "relfinal"} : On(To(Unmark(Read(run), {"confirm"}), p))
  <2>1. PICK r \in RunRecord : /\ On(r) /\ r.pc \in {"relremove", "relfinal"} /\ r.op = run.op
                               /\ r.tracked = run.tracked
    BY <1>1, <1>3, Chains DEF Phases, Marks
  <2>2. Conclusive' /\ Clearing'
    BY <2>1 DEF Conclusive, Clearing, On
  <2> QED BY <1>1, <2>1, <2>2, InProgress, GoesOnUnchosen
<1> QED BY <1>2, <1>3 DEF ReleaseRead

LEMMA ReleaseRemoveKeeps ==
  ASSUME AssignmentInvariant, UNCHANGED isPR, ReleaseRemove
  PROVE  AssignmentInvariant'
<1>1. run.pc = "relremove" /\ (NoFault \/ Fault) /\ live' \in {live, live \ {run.who}} /\ run \in RunRecord
  BY InProgress DEF ReleaseRemove
<1>2. CASE On(To(Mark(Wrote(run), "remove"), "save"))
  <2> DEFINE r == To(Mark(Wrote(run), "remove"), "save")
  <2>1. r \in RunRecord /\ r.pc = "save" /\ r.op = run.op /\ r.tracked = run.tracked
        /\ "remove" \in r.marks
    BY <1>1, Chains DEF Phases, Marks
  <2> HIDE DEF r
  <2>2. On(r)
    BY <1>2 DEF r
  <2> QED BY <1>1, <2>1, <2>2, InProgress, GoesOnMarked
<1>3. CASE On(To(Wrote(run), "relfinal"))
  <2>1. PICK r \in RunRecord : /\ On(r) /\ r.pc = "relfinal" /\ r.op = run.op
                               /\ r.tracked = run.tracked
    BY <1>1, <1>3, Chains DEF Phases, Marks
  <2>2. Conclusive' /\ Clearing'
    BY <2>1 DEF Conclusive, Clearing, On
  <2> QED BY <1>1, <2>1, <2>2, InProgress, GoesOnUnchosen
<1> QED BY <1>2, <1>3 DEF ReleaseRemove

LEMMA ReleaseFinalKeeps ==
  ASSUME AssignmentInvariant, UNCHANGED isPR, ReleaseFinal
  PROVE  AssignmentInvariant'
<1>1. run.pc = "relfinal" /\ (NoFault \/ Fault) /\ live' = live /\ run \in RunRecord
  BY InProgress DEF ReleaseFinal
<1>2. CASE \E r \in {To(Mark(Read(run), "confirm"), "save"), Clear(To(Mark(Read(run), "confirm"), "save")),
                     To(Mark(run, "confirm"), "save")} : On(r)
  <2>1. PICK r \in RunRecord : /\ On(r) /\ r.pc = "save" /\ r.op = run.op
                               /\ r.tracked \in {run.tracked, NoOne} /\ r.marks # {}
    <3> DEFINE marked == To(Mark(Read(run), "confirm"), "save")
               unread == To(Mark(run, "confirm"), "save")
    <3>1. \A r \in {marked, Clear(marked), unread} :
            /\ r \in RunRecord /\ r.pc = "save" /\ r.op = run.op
            /\ r.tracked \in {run.tracked, NoOne} /\ r.marks # {}
      <4>1. "save" \in Phases /\ "confirm" \in Marks
        BY DEF Phases, Marks
      <4> DEFINE Fits(r) == /\ r \in RunRecord /\ r.pc = "save" /\ r.op = run.op
                            /\ r.tracked \in {run.tracked, NoOne} /\ r.marks # {}
      <4>2. Fits(marked)
        BY <1>1, <4>1 DEF RunRecord, To, Mark, Read, Clear
      <4>3. Fits(Clear(marked))
        BY <1>1, <4>1 DEF RunRecord, To, Mark, Read, Clear
      <4>4. Fits(unread)
        BY <1>1, <4>1 DEF RunRecord, To, Mark, Read, Clear
      <4> HIDE DEF marked, unread
      <4> QED BY <4>2, <4>3, <4>4
    <3> HIDE DEF marked, unread
    <3>2. \E r \in {marked, Clear(marked), unread} : On(r)
      BY <1>2 DEF marked, unread
    <3> QED BY <3>1, <3>2
  <2> QED BY <1>1, <2>1, InProgress, GoesOnMarked
<1>3. CASE On(To(Clear(Unmark(Read(run), {"remove", "confirm"})), "save"))
  <2>1. PICK r \in RunRecord : On(r) /\ r.pc = "save" /\ r.op = run.op /\ r.tracked = NoOne
    BY <1>1, <1>3, Chains DEF Phases, Marks
  <2>2. Conclusive' /\ Clearing'
    BY <2>1 DEF Conclusive, Clearing, On
  <2> QED BY <1>1, <2>1, <2>2, InProgress, GoesOnUnchosen
<1> QED BY <1>2, <1>3 DEF ReleaseFinal

LEMMA SaveKeeps ==
  ASSUME AssignmentInvariant, UNCHANGED isPR, Save
  PROVE  AssignmentInvariant'
<1>1. run.pc = "save" /\ run' = Idle /\ UNCHANGED <<live, pending, faults, humans>>
  BY DEF Save
<1>2. \/ tracked' = run.tracked /\ marks' = run.marks /\ cut' = (cut /\ ~run.fresh)
      \/ run.op = "check" /\ UNCHANGED <<tracked, marks, cut>>
  BY DEF Save, Saved
<1>3. AssignmentTypeOK'
  <2>1. cut' \in BOOLEAN
    BY <1>2 DEF AssignmentInvariant, AssignmentTypeOK
  <2> QED BY <1>1, <1>2, <2>1, IdleTyped DEF AssignmentInvariant, AssignmentTypeOK, RunRecord
<1>4. SavedStateGood'
  BY <1>1, <1>2 DEF AssignmentInvariant, SavedStateGood, MayLeave, Agree, Conclusive
<1>5. Conclusive' /\ Clearing' /\ Marked' /\ ChosenLive'
  BY <1>1, IdleTyped DEF Conclusive, Clearing, Marked, ChosenLive
<1> QED BY <1>3, <1>4, <1>5 DEF AssignmentInvariant

LEMMA DiesKeeps ==
  ASSUME AssignmentInvariant, UNCHANGED isPR, Dies
  PROVE  AssignmentInvariant'
<1>1. /\ Fault /\ run.pc # "idle" /\ run' = Idle /\ cut' = TRUE
      /\ UNCHANGED <<live, tracked, marks, pending, humans>>
  BY DEF Dies, Saved
<1>2. AssignmentTypeOK'
  BY <1>1, IdleTyped, InProgress DEF AssignmentInvariant, AssignmentTypeOK, RunRecord
<1>3. Conclusive' /\ Clearing' /\ Marked' /\ ChosenLive' /\ SavedStateGood'
  BY <1>1, IdleTyped DEF Conclusive, Clearing, Marked, ChosenLive, SavedStateGood
<1> QED BY <1>2, <1>3 DEF AssignmentInvariant

LEMMA HumanKeeps ==
  ASSUME AssignmentInvariant, UNCHANGED isPR, Human
  PROVE  AssignmentInvariant'
<1>1. /\ humans' \in 0..MaxHumans /\ live' \subseteq People /\ pending' = TRUE
      /\ UNCHANGED <<tracked, marks, cut, run, faults>>
  BY BoundAssumption DEF Human, Saved, AssignmentInvariant, AssignmentTypeOK
<1>2. AssignmentTypeOK'
  BY <1>1 DEF AssignmentInvariant, AssignmentTypeOK
<1>3. Conclusive' /\ Clearing' /\ Marked' /\ ChosenLive' /\ SavedStateGood'
  BY <1>1 DEF AssignmentInvariant, Conclusive, Clearing, Marked, ChosenLive, SavedStateGood
<1> QED BY <1>2, <1>3 DEF AssignmentInvariant

LEMMA ReviewGivenKeeps ==
  ASSUME AssignmentInvariant, UNCHANGED isPR, ReviewGiven
  PROVE  AssignmentInvariant'
<1>1. /\ isPR /\ live' \subseteq live /\ pending' = (pending \/ live' # {})
      /\ UNCHANGED <<tracked, marks, cut, humans, run, faults>>
  BY DEF ReviewGiven, Saved
<1>2. AssignmentTypeOK'
  <2>1. pending' \in BOOLEAN
    BY <1>1
  <2> QED BY <1>1, <2>1 DEF AssignmentInvariant, AssignmentTypeOK
<1>3. Conclusive' /\ Clearing' /\ Marked' /\ ChosenLive'
  BY <1>1 DEF AssignmentInvariant, Conclusive, Clearing, Marked, ChosenLive
<1>4. SavedStateGood'
  BY <1>1 DEF AssignmentInvariant, SavedStateGood, Agree, MayLeave
<1> QED BY <1>2, <1>3, <1>4 DEF AssignmentInvariant

LEMMA StutterKeeps ==
  ASSUME AssignmentInvariant, UNCHANGED vars
  PROVE  AssignmentInvariant'
BY DEF AssignmentInvariant, AssignmentTypeOK, Conclusive, SavedStateGood, MayLeave, Agree,
       Clearing, Marked, ChosenLive, vars

LEMMA NextKeeps ==
  ASSUME AssignmentInvariant, [Next]_vars
  PROVE  AssignmentInvariant'
BY StartKeeps, FirstReadKeeps, RemoveKeeps, AllRemovedKeeps, AddKeeps, ReadAfterFailureKeeps,
   FinalReadKeeps, ReleaseReadKeeps, ReleaseRemoveKeeps, ReleaseFinalKeeps, SaveKeeps, DiesKeeps,
   HumanKeeps, ReviewGivenKeeps, StutterKeeps DEF Next, RunStep

-----------------------------------------------------------------------------
(* The theorems *)

\* Whatever calls of assignment_flow.py fail, or take effect although they
\* failed, whatever people do meanwhile and wherever runs die, the inductive
\* invariant holds: in particular what a run is about to save agrees with what
\* GitHub says, or carries a repair marker.
THEOREM AssignmentInvariantHolds == Spec => []AssignmentInvariant
<1>1. Init => AssignmentInvariant
  BY AssignmentInit
<1>2. AssignmentInvariant /\ [Next]_vars => AssignmentInvariant'
  BY NextKeeps
<1> QED BY <1>1, <1>2, PTL DEF Spec

\* Between runs of the bot a reviewer in the saved state whom GitHub does not
\* have is marked for repair (set_reviewer_repair_marker), unless a run for
\* the change is still to come or a run died: for every number of people,
\* failures and interventions.
THEOREM MismatchesAreMarked == Spec => []MismatchMarked
<1>1. AssignmentInvariant => MismatchMarked
  BY DEF AssignmentInvariant, SavedStateGood, MayLeave, MismatchMarked
<1> QED BY <1>1, AssignmentInvariantHolds, PTL

\* confirm_reviewer_assignment and the handlers that call it make nobody the
\* tracked reviewer of an issue whom GitHub did not show assigned, unless
\* people intervened.
THEOREM TrackedOnlyIfLive == Spec => NewReviewerIsLive
<1>1. AssignmentInvariant /\ [Next]_vars
        => (~isPR /\ tracked' \notin {tracked, NoOne} => tracked' \in live \/ pending)
  <2> SUFFICES ASSUME AssignmentInvariant, [Next]_vars, ~isPR, tracked' \notin {tracked, NoOne}
               PROVE  tracked' \in live \/ pending
    OBVIOUS
  <2>1. Save
    <3>1. ASSUME StartSome PROVE tracked' = tracked
      BY <3>1 DEF StartSome, Start, Saved
    <3>2. ASSUME Dies \/ Human \/ ReviewGiven PROVE tracked' = tracked
      BY <3>2 DEF Dies, Human, ReviewGiven, Saved
    <3>3. ASSUME FirstRead PROVE tracked' = tracked
      <4>1. run.pc = "read" /\ run.op \in Ops \ {"none"}
        BY <3>3 DEF FirstRead, AssignmentInvariant, AssignmentTypeOK, Marked
      <4>2. Quit \/ \E r : On(r)
        BY <3>3, <4>1 DEF FirstRead, Ops
      <4> QED BY <4>2 DEF Quit, On, Saved
    <3>4. ASSUME RemoveOne \/ AllRemoved \/ Add \/ ReadAfterFailure PROVE tracked' = tracked
      BY <3>4 DEF RemoveOne, AllRemoved, Add, ReadAfterFailure, On, Saved
    <3>5. ASSUME FinalRead PROVE tracked' = tracked
      <4>1. \E r : On(r)
        BY <3>5 DEF FinalRead
      <4> QED BY <4>1 DEF On, Saved
    <3>6. ASSUME ReleaseRead \/ ReleaseRemove \/ ReleaseFinal PROVE tracked' = tracked
      BY <3>6 DEF ReleaseRead, ReleaseRemove, ReleaseFinal, On, Saved
    <3> QED BY <3>1, <3>2, <3>3, <3>4, <3>5, <3>6 DEF Next, RunStep, vars
  <2>2. run.pc = "save" /\ tracked' = run.tracked
    BY <2>1 DEF Save, Saved
  <2> QED BY <2>2 DEF AssignmentInvariant, ChosenLive
<1> QED BY <1>1, AssignmentInvariantHolds, PTL DEF Spec, NewReviewerIsLive

(***************************************************************************)
(* ReviewerQueue                                                           *)
(*                                                                         *)
(* The invariant is QueueSound itself.  What is hard about it is data, not *)
(* control: loops over sequences, and a line that begins at an index into  *)
(* a sequence and wraps around at its end.                                 *)
(***************************************************************************)

(* Loops over a sequence *)

\* A set of naturals that is not empty has a least element.
LEMMA LeastNatural ==
  ASSUME NEW T, T \subseteq Nat, T # {}
  PROVE  \E x \in T : \A y \in T : x <= y
<1> DEFINE R == OpToRel(<, Nat)
<1>1. \A x, y \in Nat : <<x, y>> \in R <=> x < y
  BY DEF OpToRel
<1>2. PICK x \in T : \A y \in T : <<y, x>> \notin R
  BY NatLessThanWellFounded, WFMin
<1> HIDE DEF R
<1>3. \A y \in T : y \in Nat /\ x \in Nat /\ ~ (y < x)
  BY <1>1, <1>2
<1> QED BY <1>3

\* What holds before a loop and is kept by each of its N turns holds after them:
\* T are the numbers of turns after which it holds.
LEMMA Turns ==
  ASSUME NEW N \in Nat, NEW T, 0 \in T, \A n \in 0..(N-1) : n \in T => n + 1 \in T
  PROVE  \A n \in 0..N : n \in T
<1> DEFINE F == (0..N) \ T
<1> SUFFICES ASSUME F # {} PROVE FALSE
  OBVIOUS
<1>1. PICK n \in F : \A m \in F : n <= m
  <2> F \subseteq Nat
    OBVIOUS
  <2> HIDE DEF F
  <2> QED BY LeastNatural
<1>2. n \in 1..N /\ n - 1 \in 0..(N-1)
  OBVIOUS
<1>3. n - 1 \in T
  <2>1. n - 1 \notin F
    BY <1>1, <1>2
  <2> QED BY <1>2, <2>1
<1>4. (n - 1) + 1 \in T
  BY <1>2, <1>3
<1> QED BY <1>2, <1>4

\* The loop of Among: kept[n] is what it has kept after n turns.
LEMMA AmongLoop ==
  ASSUME NEW A, NEW seq \in Seq(A), NEW S
  PROVE  \E kept : /\ Among(seq, S) = kept[Len(seq)]
                   /\ \A n \in 0..Len(seq) :
                        kept[n] = IF n = 0 THEN <<>>
                                  ELSE IF seq[n] \in S THEN Append(kept[n-1], seq[n]) ELSE kept[n-1]
<1> DEFINE N == Len(seq)
           Turn(f, n) == IF n = 0 THEN <<>>
                         ELSE IF seq[n] \in S THEN Append(f[n-1], seq[n]) ELSE f[n-1]
           T == {m \in 0..N : \E f : f = [n \in 0..m |-> Turn(f, n)]}
<1>1. N \in Nat
  OBVIOUS
<1>2. 0 \in T
  <2> DEFINE f == [n \in 0..0 |-> <<>>]
  <2>1. f = [n \in 0..0 |-> Turn(f, n)]
    OBVIOUS
  <2> HIDE DEF Turn
  <2> QED BY <1>1, <2>1
<1>3. ASSUME NEW m \in 0..(N-1), m \in T PROVE m + 1 \in T
  <2>1. PICK f : f = [n \in 0..m |-> Turn(f, n)]
    BY <1>3
  <2> DEFINE g == [n \in 0..(m+1) |-> IF n = m + 1 THEN Turn(f, m + 1) ELSE f[n]]
  <2>2. ASSUME NEW n \in 0..(m+1) PROVE g[n] = Turn(g, n)
    <3>1. n # 0 => g[n-1] = f[n-1]
      OBVIOUS
    <3>2. Turn(g, n) = Turn(f, n)
      BY <3>1
    <3>3. n # m + 1 => n \in 0..m
      OBVIOUS
    <3>4. n # m + 1 => f[n] = Turn(f, n)
      <4> HIDE DEF Turn, g
      <4> QED BY <2>1, <3>3
    <3> HIDE DEF Turn
    <3> QED BY <3>2, <3>4
  <2>3. g = [n \in 0..(m+1) |-> g[n]]
    <3> HIDE DEF Turn
    <3> QED OBVIOUS
  <2> HIDE DEF g, Turn
  <2>4. g = [n \in 0..(m+1) |-> Turn(g, n)]
    BY <2>2, <2>3
  <2> QED BY <1>1, <2>4
<1>4. N \in T
  <2> HIDE DEF T, N, Turn
  <2>1. \A n \in 0..(N-1) : n \in T => n + 1 \in T
    BY <1>3
  <2>2. \A n \in 0..N : n \in T
    BY <1>1, <1>2, <2>1, Turns
  <2> QED BY <1>1, <2>2
<1> DEFINE kept == CHOOSE f : f = [n \in 0..N |-> Turn(f, n)]
<1>5. kept = [n \in 0..N |-> Turn(kept, n)]
  <2>1. \E f : f = [n \in 0..N |-> Turn(f, n)]
    <3> HIDE DEF Turn
    <3> QED BY <1>4
  <2> HIDE DEF Turn
  <2> QED BY <2>1
<1>6. Among(seq, S) = kept[N]
  BY DEF Among
<1>7. \A n \in 0..N : kept[n] = Turn(kept, n)
  <2> HIDE DEF kept, Turn
  <2> QED BY <1>5
<1> HIDE DEF kept
<1> QED BY <1>6, <1>7

\* Among keeps exactly those in S, in their order.
LEMMA AmongIs ==
  ASSUME NEW A, NEW seq \in Seq(A), NEW S
  PROVE  /\ Among(seq, S) \in Seq(A)
         /\ ToSet(Among(seq, S)) = ToSet(seq) \intersect S
         /\ \A j, k \in DOMAIN Among(seq, S) : j < k =>
              \E a, b \in DOMAIN seq : /\ a < b
                                       /\ Among(seq, S)[j] = seq[a]
                                       /\ Among(seq, S)[k] = seq[b]
<1>1. PICK kept : /\ Among(seq, S) = kept[Len(seq)]
                  /\ \A n \in 0..Len(seq) :
                        kept[n] = IF n = 0 THEN <<>>
                                  ELSE IF seq[n] \in S THEN Append(kept[n-1], seq[n]) ELSE kept[n-1]
  BY AmongLoop
<1> DEFINE N == Len(seq)
           InOrder(r, n) == \A j, k \in 1..Len(r) : j < k =>
                              \E a, b \in 1..n : a < b /\ r[j] = seq[a] /\ r[k] = seq[b]
           Right(r, n) == /\ r \in Seq(A)
                          /\ \A x : (\E j \in 1..Len(r) : r[j] = x) <=> (x \in S /\ \E i \in 1..n : seq[i] = x)
                          /\ InOrder(r, n)
           T == {n \in 0..N : Right(kept[n], n)}
<1>2. N \in Nat /\ DOMAIN seq = 1..N /\ \A i \in 1..N : seq[i] \in A
  OBVIOUS
<1>3. 0 \in T
  <2>1. kept[0] = <<>>
    BY <1>1, <1>2
  <2>2. <<>> \in Seq(A) /\ Len(<<>>) = 0
    OBVIOUS
  <2>3. \A j \in 1..0 : FALSE
    OBVIOUS
  <2>4. InOrder(<<>>, 0)
    BY <2>2, <2>3
  <2>5. Right(<<>>, 0)
    BY <2>2, <2>3, <2>4
  <2> HIDE DEF Right
  <2> QED BY <2>1, <2>5, <1>2
<1>4. ASSUME NEW n \in 0..(N-1), n \in T PROVE n + 1 \in T
  <2> DEFINE r == kept[n]
             t == kept[n+1]
             e == seq[n+1]
  <2>1. n + 1 \in 1..N /\ n + 1 \in 0..N /\ e \in A /\ (n + 1) - 1 = n
    BY <1>2
  <2>2. t = IF e \in S THEN Append(r, e) ELSE r
    BY <1>1, <2>1
  <2>3. Right(r, n)
    BY <1>4
  <2> HIDE DEF r, t, e
  <2>4. CASE e \notin S
    <3>1. t = r
      BY <2>2, <2>4
    <3>2. \A x \in S : (\E i \in 1..n : seq[i] = x) <=> (\E i \in 1..(n+1) : seq[i] = x)
      <4>1. \A i \in 1..(n+1) : i \in 1..n \/ i = n + 1
        OBVIOUS
      <4>2. 1..n \subseteq 1..(n+1)
        OBVIOUS
      <4> QED BY <4>1, <4>2, <2>4 DEF e
    <3>3. InOrder(r, n + 1)
      <4>1. 1..n \subseteq 1..(n+1)
        OBVIOUS
      <4> SUFFICES ASSUME NEW j \in 1..Len(r), NEW k \in 1..Len(r), j < k
                   PROVE  \E a, b \in 1..(n+1) : a < b /\ r[j] = seq[a] /\ r[k] = seq[b]
        OBVIOUS
      <4>2. PICK a \in 1..n, b \in 1..n : a < b /\ r[j] = seq[a] /\ r[k] = seq[b]
        BY <2>3
      <4> QED BY <4>1, <4>2
    <3>4. Right(t, n + 1)
      <4> HIDE DEF InOrder
      <4>1. \A x : (\E j \in 1..Len(r) : r[j] = x) <=> (x \in S /\ \E i \in 1..(n+1) : seq[i] = x)
        BY <2>3, <3>2
      <4> QED BY <2>3, <3>1, <3>3, <4>1
    <3> HIDE DEF Right
    <3> QED BY <2>1, <3>4 DEF t
  <2>5. CASE e \in S
    <3>1. t = Append(r, e)
      BY <2>2, <2>5
    <3>2. /\ t \in Seq(A) /\ Len(t) = Len(r) + 1 /\ Len(r) \in Nat
          /\ \A j \in 1..Len(r) : t[j] = r[j]
          /\ t[Len(r) + 1] = e
      BY <2>1, <2>3, <3>1, AppendProperties
    <3>3. \A i \in 1..(n+1) : i \in 1..n \/ i = n + 1
      OBVIOUS
    <3>4. \A j \in 1..Len(t) : j \in 1..Len(r) \/ j = Len(r) + 1
      BY <3>2
    <3>5. 1..n \subseteq 1..(n+1) /\ n + 1 \in 1..(n+1) /\ 1..Len(r) \subseteq 1..Len(t) /\ Len(r) + 1 \in 1..Len(t)
      BY <3>2
    <3>6. ASSUME NEW x PROVE (\E j \in 1..Len(t) : t[j] = x) <=> (x \in S /\ \E i \in 1..(n+1) : seq[i] = x)
      <4>1. (\E j \in 1..Len(t) : t[j] = x) <=> ((\E j \in 1..Len(r) : r[j] = x) \/ x = e)
        BY <3>2, <3>4, <3>5
      <4>2. (\E i \in 1..(n+1) : seq[i] = x) <=> ((\E i \in 1..n : seq[i] = x) \/ x = e)
        BY <3>3, <3>5 DEF e
      <4> QED BY <4>1, <4>2, <2>3, <2>5
    <3>7. InOrder(t, n + 1)
      <4> SUFFICES ASSUME NEW j \in 1..Len(t), NEW k \in 1..Len(t), j < k
                   PROVE  \E a, b \in 1..(n+1) : a < b /\ t[j] = seq[a] /\ t[k] = seq[b]
        OBVIOUS
      <4>1. j \in 1..Len(r)
        BY <3>2
      <4>2. CASE k \in 1..Len(r)
        <5>1. PICK a, b \in 1..n : a < b /\ r[j] = seq[a] /\ r[k] = seq[b]
          BY <2>3, <4>1, <4>2
        <5> QED BY <5>1, <3>2, <3>5, <4>1, <4>2
      <4>3. CASE k = Len(r) + 1
        <5>1. PICK a \in 1..n : seq[a] = r[j]
          BY <2>3, <4>1
        <5>2. a < n + 1 /\ a \in 1..(n+1) /\ n + 1 \in 1..(n+1)
          OBVIOUS
        <5> QED BY <5>1, <5>2, <3>2, <4>1, <4>3 DEF e
      <4> QED BY <3>4, <4>2, <4>3
    <3>8. Right(t, n + 1)
      BY <3>2, <3>6, <3>7
    <3> HIDE DEF Right
    <3> QED BY <2>1, <3>8 DEF t
  <2> QED BY <2>4, <2>5
<1>5. Right(kept[N], N)
  <2>1. N \in T
    <3> HIDE DEF T, N
    <3> QED BY <1>2, <1>3, <1>4, Turns
  <2> HIDE DEF Right
  <2> QED BY <2>1
<1> DEFINE r == kept[N]
<1>6. r \in Seq(A) /\ DOMAIN r = 1..Len(r)
  BY <1>5
<1>7. ToSet(r) = ToSet(seq) \intersect S
  <2> HIDE DEF r
  <2>1. \A x : x \in ToSet(r) <=> \E j \in 1..Len(r) : r[j] = x
    BY <1>6 DEF ToSet
  <2>2. \A x : x \in ToSet(seq) <=> \E i \in 1..N : seq[i] = x
    BY <1>2 DEF ToSet
  <2> QED BY <2>1, <2>2, <1>5 DEF r
<1>8. r = Among(seq, S)
  BY <1>1
<1>9. \A j, k \in DOMAIN r : j < k => \E a, b \in DOMAIN seq : a < b /\ r[j] = seq[a] /\ r[k] = seq[b]
  <2>1. InOrder(r, N)
    BY <1>5
  <2> HIDE DEF r
  <2> HIDE DEF N
  <2>2. DOMAIN r = 1..Len(r) /\ DOMAIN seq = 1..N
    BY <1>2, <1>6
  <2> SUFFICES ASSUME NEW j \in DOMAIN r, NEW k \in DOMAIN r, j < k
               PROVE  \E a, b \in DOMAIN seq : a < b /\ r[j] = seq[a] /\ r[k] = seq[b]
    OBVIOUS
  <2>3. PICK a, b \in 1..N : a < b /\ r[j] = seq[a] /\ r[k] = seq[b]
    BY <2>1, <2>2
  <2> QED BY <2>2, <2>3
<1> HIDE DEF r
<1> QED BY <1>6, <1>7, <1>8, <1>9

\* Nobody twice in a sequence, nobody twice among some of it.
LEMMA AmongInjective ==
  ASSUME NEW A, NEW seq \in Seq(A), IsInjective(seq), NEW S
  PROVE  IsInjective(Among(seq, S))
<1> DEFINE r == Among(seq, S)
<1>1. /\ r \in Seq(A)
      /\ \A j, k \in DOMAIN r : j < k =>
              \E a, b \in DOMAIN seq : a < b /\ r[j] = seq[a] /\ r[k] = seq[b]
  BY AmongIs
<1> HIDE DEF r
<1>2. DOMAIN r \subseteq Nat /\ DOMAIN seq \subseteq Nat
  BY <1>1
<1>3. \A j, k \in DOMAIN r : j < k => r[j] # r[k]
  BY <1>1, <1>2 DEF IsInjective
<1>4. \A j, k \in DOMAIN r : r[j] = r[k] => j = k
  BY <1>2, <1>3
<1>5. IsInjective(r)
  BY <1>4 DEF IsInjective
<1> QED BY <1>5 DEF r

-----------------------------------------------------------------------------
(* Taking out of and putting into a sequence *)

LEMMA ToSetIs ==
  ASSUME NEW A, NEW seq \in Seq(A)
  PROVE  /\ DOMAIN seq = 1..Len(seq) /\ Len(seq) \in Nat
         /\ \A i \in 1..Len(seq) : seq[i] \in A /\ seq[i] \in ToSet(seq)
         /\ \A x \in ToSet(seq) : x \in A /\ \E i \in 1..Len(seq) : seq[i] = x
BY DEF ToSet

LEMMA RemovedIs ==
  ASSUME NEW A, NEW seq \in Seq(A), NEW i \in 1..Len(seq)
  PROVE  /\ RemoveAt(seq, i) \in Seq(A)
         /\ Len(RemoveAt(seq, i)) = Len(seq) - 1
         /\ \A k \in 1..(Len(seq)-1) : RemoveAt(seq, i)[k] = IF k < i THEN seq[k] ELSE seq[k+1]
<1> DEFINE u == SubSeq(seq, 1, i-1)
           v == SubSeq(seq, i+1, Len(seq))
<1>1. /\ u \in Seq(A) /\ Len(u) = i - 1
      /\ \A k \in 1..(i-1) : u[k] = seq[k]
  <2>1. \A k \in 1..(i-1) : seq[k] \in A
    OBVIOUS
  <2>2. /\ u \in Seq(A) /\ Len(u) = IF 1 <= i - 1 THEN (i-1) - 1 + 1 ELSE 0
        /\ \A k \in 1..((i-1)-1+1) : u[k] = seq[1+k-1]
    BY <2>1, SubSeqProperties
  <2> HIDE DEF u
  <2>3. (i-1)-1+1 = i-1 /\ \A k \in 1..(i-1) : 1+k-1 = k
    OBVIOUS
  <2>4. Len(u) = i - 1
    BY <2>2
  <2> QED BY <2>2, <2>3, <2>4
<1>2. /\ v \in Seq(A) /\ Len(v) = Len(seq) - i
      /\ \A k \in 1..(Len(seq)-i) : v[k] = seq[i+k]
  <2>1. \A k \in (i+1)..Len(seq) : seq[k] \in A
    OBVIOUS
  <2>2. /\ v \in Seq(A) /\ Len(v) = IF i + 1 <= Len(seq) THEN Len(seq) - (i+1) + 1 ELSE 0
        /\ \A k \in 1..(Len(seq)-(i+1)+1) : v[k] = seq[(i+1)+k-1]
    BY <2>1, SubSeqProperties
  <2> HIDE DEF v
  <2> QED BY <2>2
<1>3. RemoveAt(seq, i) = u \o v
  BY DEF RemoveAt
<1> HIDE DEF u, v
<1>4. /\ u \o v \in Seq(A) /\ Len(u \o v) = Len(u) + Len(v)
      /\ \A k \in 1..(Len(u) + Len(v)) : (u \o v)[k] = IF k <= Len(u) THEN u[k] ELSE v[k - Len(u)]
  BY <1>1, <1>2, ConcatProperties
<1>5. ASSUME NEW k \in 1..(Len(seq)-1)
      PROVE  (u \o v)[k] = IF k < i THEN seq[k] ELSE seq[k+1]
  <2>1. CASE k < i
    BY <1>1, <1>2, <1>4, <2>1
  <2>2. CASE k >= i
    <3>1. k - (i-1) \in 1..(Len(seq)-i) /\ i + (k - (i-1)) = k + 1
      BY <2>2
    <3>2. v[k - (i-1)] = seq[k+1]
      BY <1>2, <3>1
    <3> QED BY <1>1, <1>2, <1>4, <2>2, <3>2
  <2>3. k < i \/ k >= i
    OBVIOUS
  <2> QED BY <2>1, <2>2, <2>3
<1> QED BY <1>1, <1>2, <1>3, <1>4, <1>5

LEMMA InsertedIs ==
  ASSUME NEW A, NEW seq \in Seq(A), NEW i \in 1..(Len(seq)+1), NEW e \in A
  PROVE  /\ InsertAt(seq, i, e) \in Seq(A)
         /\ Len(InsertAt(seq, i, e)) = Len(seq) + 1
         /\ \A k \in 1..(Len(seq)+1) :
              InsertAt(seq, i, e)[k] = IF k < i THEN seq[k] ELSE IF k = i THEN e ELSE seq[k-1]
<1> DEFINE u == SubSeq(seq, 1, i-1)
           v == SubSeq(seq, i, Len(seq))
           w == u \o <<e>>
<1>1. /\ u \in Seq(A) /\ Len(u) = i - 1
      /\ \A k \in 1..(i-1) : u[k] = seq[k]
  <2>1. \A k \in 1..(i-1) : seq[k] \in A
    OBVIOUS
  <2>2. /\ u \in Seq(A) /\ Len(u) = IF 1 <= i - 1 THEN (i-1) - 1 + 1 ELSE 0
        /\ \A k \in 1..((i-1)-1+1) : u[k] = seq[1+k-1]
    BY <2>1, SubSeqProperties
  <2> HIDE DEF u
  <2>3. (i-1)-1+1 = i-1 /\ \A k \in 1..(i-1) : 1+k-1 = k
    OBVIOUS
  <2>4. Len(u) = i - 1
    BY <2>2
  <2> QED BY <2>2, <2>3, <2>4
<1>2. /\ v \in Seq(A) /\ Len(v) = Len(seq) - i + 1
      /\ \A k \in 1..(Len(seq)-i+1) : v[k] = seq[i+k-1]
  <2>1. \A k \in i..Len(seq) : seq[k] \in A
    OBVIOUS
  <2>2. /\ v \in Seq(A) /\ Len(v) = IF i <= Len(seq) THEN Len(seq) - i + 1 ELSE 0
        /\ \A k \in 1..(Len(seq)-i+1) : v[k] = seq[i+k-1]
    BY <2>1, SubSeqProperties
  <2> HIDE DEF v
  <2> QED BY <2>2
<1>3. InsertAt(seq, i, e) = w \o v
  BY DEF InsertAt
<1> HIDE DEF u, v
<1>4. /\ w \in Seq(A) /\ Len(w) = i
      /\ \A k \in 1..i : w[k] = IF k < i THEN seq[k] ELSE e
  <2>1. <<e>> \in Seq(A) /\ Len(<<e>>) = 1 /\ <<e>>[1] = e
    OBVIOUS
  <2>2. /\ w \in Seq(A) /\ Len(w) = Len(u) + 1
        /\ \A k \in 1..(Len(u) + 1) : w[k] = IF k <= Len(u) THEN u[k] ELSE <<e>>[k - Len(u)]
    BY <1>1, <2>1, ConcatProperties
  <2> HIDE DEF w
  <2> QED BY <1>1, <2>1, <2>2
<1> HIDE DEF w
<1>5. /\ w \o v \in Seq(A) /\ Len(w \o v) = Len(w) + Len(v)
      /\ \A k \in 1..(Len(w) + Len(v)) : (w \o v)[k] = IF k <= Len(w) THEN w[k] ELSE v[k - Len(w)]
  BY <1>2, <1>4, ConcatProperties
<1>6. ASSUME NEW k \in 1..(Len(seq)+1)
      PROVE  (w \o v)[k] = IF k < i THEN seq[k] ELSE IF k = i THEN e ELSE seq[k-1]
  <2>1. CASE k <= i
    BY <1>2, <1>4, <1>5, <2>1
  <2>2. CASE k > i
    <3>1. k - i \in 1..(Len(seq)-i+1) /\ i + (k - i) - 1 = k - 1
      BY <2>2
    <3>2. v[k - i] = seq[k-1]
      BY <1>2, <3>1
    <3> QED BY <1>2, <1>4, <1>5, <2>2, <3>2
  <2>3. k <= i \/ k > i
    OBVIOUS
  <2> QED BY <2>1, <2>2, <2>3
<1> QED BY <1>2, <1>3, <1>4, <1>5, <1>6

LEMMA PlaceIs ==
  ASSUME NEW A, NEW seq \in Seq(A), NEW p \in ToSet(seq)
  PROVE  Place(seq, p) \in 1..Len(seq) /\ seq[Place(seq, p)] = p
BY ToSetIs DEF Place

\* Without p: all but p, in their order, and each still once.
LEMMA WithoutIs ==
  ASSUME NEW A, NEW seq \in Seq(A), IsInjective(seq), NEW p \in ToSet(seq)
  PROVE  /\ Without(seq, p) \in Seq(A)
         /\ Len(Without(seq, p)) = Len(seq) - 1
         /\ IsInjective(Without(seq, p))
         /\ ToSet(Without(seq, p)) = ToSet(seq) \ {p}
<1> DEFINE i == Place(seq, p)
           r == Without(seq, p)
<1>1. i \in 1..Len(seq) /\ seq[i] = p
  BY PlaceIs
<1>2. /\ r \in Seq(A) /\ Len(r) = Len(seq) - 1
      /\ \A k \in 1..(Len(seq)-1) : r[k] = IF k < i THEN seq[k] ELSE seq[k+1]
  BY <1>1, RemovedIs DEF Without
<1> HIDE DEF i, r
<1>3. DOMAIN seq = 1..Len(seq) /\ DOMAIN r = 1..(Len(seq)-1) /\ Len(seq) \in Nat
  BY <1>2
<1>4. \A j, k \in 1..Len(seq) : seq[j] = seq[k] => j = k
  BY <1>3 DEF IsInjective
<1>5. \A j, k \in DOMAIN r : r[j] = r[k] => j = k
  BY <1>1, <1>2, <1>3, <1>4
<1>6. IsInjective(r)
  BY <1>5 DEF IsInjective
<1>7. ASSUME NEW x \in ToSet(r) PROVE x \in ToSet(seq) \ {p}
  <2>1. PICK k \in 1..(Len(seq)-1) : r[k] = x
    BY <1>3 DEF ToSet
  <2>2. PICK j \in 1..Len(seq) : j # i /\ seq[j] = x
    BY <1>1, <1>2, <1>3, <2>1
  <2> QED BY <1>1, <1>3, <1>4, <2>2 DEF ToSet
<1>8. ASSUME NEW x \in ToSet(seq) \ {p} PROVE x \in ToSet(r)
  <2>1. PICK j \in 1..Len(seq) : seq[j] = x
    BY <1>3 DEF ToSet
  <2>2. CASE j < i
    BY <1>1, <1>2, <1>3, <2>1, <2>2 DEF ToSet
  <2>3. CASE j > i
    <3>1. j - 1 \in 1..(Len(seq)-1) /\ r[j-1] = seq[(j-1)+1] /\ (j-1)+1 = j
      BY <1>1, <1>2, <1>3, <2>3
    <3> QED BY <1>3, <2>1, <3>1 DEF ToSet
  <2>4. j # i
    BY <1>1, <2>1
  <2> QED BY <1>1, <2>2, <2>3, <2>4
<1>9. ToSet(r) = ToSet(seq) \ {p}
  BY <1>7, <1>8
<1> QED BY <1>2, <1>6, <1>9 DEF r

\* The same of putting in somebody who was not there.
LEMMA InsertedOnce ==
  ASSUME NEW A, NEW seq \in Seq(A), IsInjective(seq), NEW i \in 1..(Len(seq)+1),
         NEW e \in A, e \notin ToSet(seq)
  PROVE  /\ IsInjective(InsertAt(seq, i, e))
         /\ ToSet(InsertAt(seq, i, e)) = ToSet(seq) \union {e}
<1> DEFINE r == InsertAt(seq, i, e)
<1>1. /\ r \in Seq(A) /\ Len(r) = Len(seq) + 1
      /\ \A k \in 1..(Len(seq)+1) : r[k] = IF k < i THEN seq[k] ELSE IF k = i THEN e ELSE seq[k-1]
  BY InsertedIs
<1> HIDE DEF r
<1>2. DOMAIN seq = 1..Len(seq) /\ DOMAIN r = 1..(Len(seq)+1) /\ Len(seq) \in Nat
  BY <1>1
<1>3. \A j, k \in 1..Len(seq) : seq[j] = seq[k] => j = k
  BY <1>2 DEF IsInjective
<1>4. \A j \in 1..Len(seq) : seq[j] # e
  BY <1>2 DEF ToSet
<1>5. \A j, k \in DOMAIN r : r[j] = r[k] => j = k
  <2> DEFINE old(k) == IF k < i THEN k ELSE k - 1
  <2>1. \A k \in DOMAIN r : k # i => old(k) \in 1..Len(seq) /\ r[k] = seq[old(k)]
    BY <1>1, <1>2
  <2>2. i \in DOMAIN r /\ r[i] = e
    BY <1>1, <1>2
  <2>3. \A j, k \in DOMAIN r : j # i /\ k # i /\ old(j) = old(k) => j = k
    BY <1>2
  <2> HIDE DEF old
  <2> QED BY <1>3, <1>4, <2>1, <2>2, <2>3
<1>6. IsInjective(r)
  BY <1>5 DEF IsInjective
<1>7. ASSUME NEW x \in ToSet(r) PROVE x \in ToSet(seq) \union {e}
  BY <1>1, <1>2 DEF ToSet
<1>8. e \in ToSet(r)
  BY <1>1, <1>2 DEF ToSet
<1>9. ASSUME NEW x \in ToSet(seq) PROVE x \in ToSet(r)
  <2>1. PICK j \in 1..Len(seq) : seq[j] = x
    BY <1>2 DEF ToSet
  <2>2. CASE j < i
    BY <1>1, <1>2, <2>1, <2>2 DEF ToSet
  <2>3. CASE j >= i
    <3>1. j + 1 \in 1..(Len(seq)+1) /\ r[j+1] = seq[(j+1)-1] /\ (j+1)-1 = j
      BY <1>1, <1>2, <2>3
    <3> QED BY <1>2, <2>1, <3>1 DEF ToSet
  <2> QED BY <2>2, <2>3
<1>10. ToSet(r) = ToSet(seq) \union {e}
  BY <1>7, <1>8, <1>9
<1> QED BY <1>6, <1>10 DEF r

\* And of two sequences one after the other.
LEMMA JoinedOnce ==
  ASSUME NEW A, NEW u \in Seq(A), NEW v \in Seq(A), IsInjective(u), IsInjective(v),
         ToSet(u) \intersect ToSet(v) = {}
  PROVE  /\ u \o v \in Seq(A) /\ IsInjective(u \o v)
         /\ ToSet(u \o v) = ToSet(u) \union ToSet(v)
<1> DEFINE w == u \o v
<1>1. /\ w \in Seq(A) /\ Len(w) = Len(u) + Len(v)
      /\ \A k \in 1..(Len(u) + Len(v)) : w[k] = IF k <= Len(u) THEN u[k] ELSE v[k - Len(u)]
  BY ConcatProperties
<1> HIDE DEF w
<1>2. /\ DOMAIN u = 1..Len(u) /\ DOMAIN v = 1..Len(v) /\ DOMAIN w = 1..(Len(u) + Len(v))
      /\ Len(u) \in Nat /\ Len(v) \in Nat
  BY <1>1
<1>3. /\ \A j, k \in 1..Len(u) : u[j] = u[k] => j = k
      /\ \A j, k \in 1..Len(v) : v[j] = v[k] => j = k
  BY <1>2 DEF IsInjective
<1>4. \A j \in 1..Len(u), k \in 1..Len(v) : u[j] # v[k]
  BY <1>2 DEF ToSet
<1>5. \A k \in DOMAIN w : \/ k \in 1..Len(u) /\ w[k] = u[k]
                          \/ k - Len(u) \in 1..Len(v) /\ w[k] = v[k - Len(u)] /\ k > Len(u)
  BY <1>1, <1>2
<1>6. \A j, k \in DOMAIN w : w[j] = w[k] => j = k
  BY <1>2, <1>3, <1>4, <1>5
<1>7. IsInjective(w)
  BY <1>6 DEF IsInjective
<1>8. ToSet(w) \subseteq ToSet(u) \union ToSet(v)
  BY <1>2, <1>5 DEF ToSet
<1>9. ToSet(u) \subseteq ToSet(w)
  BY <1>1, <1>2 DEF ToSet
<1>10. ToSet(v) \subseteq ToSet(w)
  <2> SUFFICES ASSUME NEW k \in 1..Len(v) PROVE v[k] \in ToSet(w)
    BY <1>2 DEF ToSet
  <2>1. k + Len(u) \in DOMAIN w /\ w[k + Len(u)] = v[k]
    BY <1>1, <1>2
  <2> QED BY <2>1 DEF ToSet
<1> QED BY <1>1, <1>7, <1>8, <1>9, <1>10 DEF w

-----------------------------------------------------------------------------
(* The ring *)

\* Nobody twice, and the cursor points at somebody.
Ring(s) == s \in Queues /\ IsInjective(s.queue) /\ InRange(s)

LEMMA SmallRemainder ==
  ASSUME NEW n \in Nat \ {0}, NEW x \in Nat, x < n + n
  PROVE  x % n = IF x < n THEN x ELSE x - n
OBVIOUS

\* The cursor of a ring that has lost somebody.
LEMMA NormalIs ==
  ASSUME NEW s \in Queues, IsInjective(s.queue), s.cursor <= Len(s.queue)
  PROVE  /\ Ring(Normal(s))
         /\ Normal(s).queue = s.queue /\ Normal(s).away = s.away
         /\ Normal(s).cursor = IF s.cursor < Len(s.queue) THEN s.cursor ELSE 0
<1> DEFINE n == Len(s.queue)
           t == Normal(s)
<1>1. /\ s.queue \in Seq(Reviewers) /\ n \in Nat /\ s.cursor \in Nat
      /\ s.queue = <<>> <=> n = 0
  BY DEF Queues
<1>2. t = [s EXCEPT !.cursor = IF s.queue = <<>> THEN 0 ELSE s.cursor % n]
  BY DEF Normal
<1>3. n # 0 => s.cursor % n = IF s.cursor < n THEN s.cursor ELSE 0
  BY <1>1, SmallRemainder
<1>4. t = [s EXCEPT !.cursor = IF s.cursor < n THEN s.cursor ELSE 0]
  BY <1>1, <1>2, <1>3
<1> HIDE DEF t
<1>5. /\ t.queue = s.queue /\ t.away = s.away
      /\ t.cursor = IF s.cursor < n THEN s.cursor ELSE 0
      /\ t \in Queues
  BY <1>1, <1>4 DEF Queues
<1>6. InRange(t)
  BY <1>1, <1>5 DEF InRange
<1> QED BY <1>5, <1>6 DEF Ring, t

LEMMA NormalRing ==
  ASSUME NEW s \in Queues, IsInjective(s.queue)
  PROVE  Ring(Normal(s)) /\ Normal(s).queue = s.queue /\ Normal(s).away = s.away
<1> DEFINE n == Len(s.queue)
           c == IF s.queue = <<>> THEN 0 ELSE s.cursor % n
           t == Normal(s)
<1>1. /\ s.queue \in Seq(Reviewers) /\ n \in Nat /\ s.cursor \in Nat
      /\ s.queue = <<>> <=> n = 0
  BY DEF Queues
<1>2. n # 0 => s.cursor % n \in 0..(n-1)
  BY <1>1
<1>3. t = [s EXCEPT !.cursor = c]
  BY DEF Normal
<1>4. c \in Nat /\ IF n = 0 THEN c = 0 ELSE c < n
  BY <1>1, <1>2
<1> HIDE DEF t, c
<1>5. t.queue = s.queue /\ t.away = s.away /\ t.cursor = c /\ t \in Queues
  BY <1>3, <1>4 DEF Queues
<1>6. InRange(t)
  BY <1>1, <1>4, <1>5 DEF InRange
<1> QED BY <1>5, <1>6 DEF Ring, t

\* The place in a queue of n, with the cursor at c, of whoever is k-th in the line.
Spot(n, c, k) == IF c + k <= n THEN c + k ELSE c + k - n

LEMMA SpotIs ==
  ASSUME NEW n \in Nat \ {0}, NEW c \in 0..(n-1), NEW k \in 1..n
  PROVE  ((c + k - 1) % n) + 1 = Spot(n, c, k) /\ Spot(n, c, k) \in 1..n
<1> DEFINE x == c + k - 1
<1>1. x \in Nat /\ x < n + n /\ c + k = x + 1
  OBVIOUS
<1> HIDE DEF x
<1>2. x % n = IF x < n THEN x ELSE x - n
  BY <1>1, SmallRemainder
<1>3. (x % n) + 1 = Spot(n, c, k)
  BY <1>1, <1>2 DEF Spot
<1> QED BY <1>3 DEF x, Spot

LEMMA SpotOf ==
  ASSUME NEW n \in Nat \ {0}, NEW c \in 0..(n-1), NEW i \in 1..n, NEW k \in 1..n
  PROVE  Spot(n, c, k) = i <=> k = IF i > c THEN i - c ELSE i - c + n
BY DEF Spot

\* How places and cursor move when place i, the a-th in the line, is taken out.
LEMMA SpotTakenOut ==
  ASSUME NEW n \in Nat \ {0}, NEW c \in 0..(n-1), NEW i \in 1..n, NEW a \in 1..n,
         Spot(n, c, a) = i, NEW k \in 1..(n-1),
         NEW d, d = IF i <= c THEN c - 1 ELSE IF c < n - 1 THEN c ELSE 0
  PROVE  LET x == Spot(n - 1, d, k)
             y == IF k < a THEN k ELSE k + 1
         IN  /\ x \in 1..(n-1) /\ y \in 1..n
             /\ (IF x < i THEN x ELSE x + 1) = Spot(n, c, y)
<1>1. a = IF i > c THEN i - c ELSE i - c + n
  BY SpotOf
<1>2. CASE i <= c
  BY <1>1, <1>2 DEF Spot
<1>3. CASE i > c /\ c < n - 1
  BY <1>1, <1>3 DEF Spot
<1>4. CASE i > c /\ c = n - 1
  BY <1>1, <1>4 DEF Spot
<1> QED BY <1>2, <1>3, <1>4

\* Who stands where in the line.
LEMMA LineIs ==
  ASSUME NEW s, Ring(s)
  PROVE  /\ Line(s) \in Seq(Reviewers)
         /\ Len(Line(s)) = Len(s.queue)
         /\ \A k \in 1..Len(s.queue) : Line(s)[k] = s.queue[Spot(Len(s.queue), s.cursor, k)]
         /\ IsInjective(Line(s))
         /\ ToSet(Line(s)) = Queued(s)
<1> DEFINE n == Len(s.queue)
           c == s.cursor
           Q == s.queue
           r == Line(s)
<1>1. /\ Q \in Seq(Reviewers) /\ n \in Nat
      /\ DOMAIN Q = 1..n /\ \A j \in 1..n : Q[j] \in Reviewers
      /\ n # 0 => c \in 0..(n-1)
  BY DEF Ring, Queues, InRange
<1>2. \A j, k \in 1..n : Q[j] = Q[k] => j = k
  BY <1>1 DEF Ring, IsInjective
<1>3. r = [k \in 1..n |-> Q[((c + k - 1) % n) + 1]]
  BY DEF Line
<1>4. Queued(s) = ToSet(Q)
  BY DEF Queued
<1> HIDE DEF Q, c, n, r
<1>5. ASSUME NEW k \in 1..n PROVE Spot(n, c, k) \in 1..n /\ r[k] = Q[Spot(n, c, k)]
  <2>1. n \in Nat \ {0}
    BY <1>1
  <2>2. ((c + k - 1) % n) + 1 = Spot(n, c, k) /\ Spot(n, c, k) \in 1..n
    BY <1>1, <2>1, SpotIs
  <2> QED BY <1>3, <2>2
<1>6. r \in Seq(Reviewers) /\ Len(r) = n /\ DOMAIN r = 1..n
  <2>1. \A k \in 1..n : r[k] \in Reviewers
    BY <1>1, <1>5
  <2>2. r \in [1..n -> Reviewers]
    BY <1>3, <2>1
  <2> QED BY <1>1, <2>2
<1>7. ASSUME NEW j \in 1..n, NEW k \in 1..n, Spot(n, c, j) = Spot(n, c, k) PROVE j = k
  <2>1. n \in Nat \ {0}
    BY <1>1
  <2> DEFINE i == Spot(n, c, j)
  <2>2. c \in 0..(n-1) /\ i \in 1..n /\ Spot(n, c, k) = i
    BY <1>1, <1>5, <1>7, <2>1
  <2>3. Spot(n, c, j) = i
    OBVIOUS
  <2> HIDE DEF i
  <2>4. j = IF i > c THEN i - c ELSE i - c + n
    BY <2>1, <2>2, <2>3, SpotOf
  <2>5. k = IF i > c THEN i - c ELSE i - c + n
    BY <2>1, <2>2, SpotOf
  <2> QED BY <2>4, <2>5
<1>8. \A j, k \in DOMAIN r : r[j] = r[k] => j = k
  BY <1>2, <1>5, <1>6, <1>7
<1>9. IsInjective(r)
  BY <1>8 DEF IsInjective
<1>10. ToSet(r) \subseteq ToSet(Q)
  BY <1>1, <1>5, <1>6 DEF ToSet
<1>11. ToSet(Q) \subseteq ToSet(r)
  <2> SUFFICES ASSUME NEW j \in 1..n PROVE Q[j] \in ToSet(r)
    BY <1>1 DEF ToSet
  <2>1. PICK k \in 1..n : Spot(n, c, k) = j
    <3> DEFINE k == IF j > c THEN j - c ELSE j - c + n
    <3>1. k \in 1..n /\ n \in Nat \ {0}
      BY <1>1
    <3> HIDE DEF k
    <3>2. Spot(n, c, k) = j
      BY <1>1, <3>1, SpotOf DEF k
    <3> QED BY <3>1, <3>2
  <2> QED BY <2>1, <1>5, <1>6 DEF ToSet
<1>12. ToSet(r) = Queued(s)
  BY <1>4, <1>10, <1>11
<1>13. \A k \in 1..n : r[k] = Q[Spot(n, c, k)]
  BY <1>5
<1> QED BY <1>6, <1>9, <1>12, <1>13 DEF Q, c, n, r

LEMMA TakenOutIs ==
  ASSUME NEW s, Ring(s), NEW p \in Queued(s)
  PROVE  LET t == TakenOut(s, p)
             i == Place(s.queue, p)
         IN  /\ Ring(t)
             /\ t.queue = Without(s.queue, p)
             /\ t.away = s.away
             /\ Queued(t) = Queued(s) \ {p}
             /\ t.cursor = IF i <= s.cursor THEN s.cursor - 1
                           ELSE IF s.cursor < Len(s.queue) - 1 THEN s.cursor ELSE 0
<1> DEFINE i == Place(s.queue, p)
           n == Len(s.queue)
           c == s.cursor
           d == IF i <= c THEN c - 1 ELSE c
           u == [s EXCEPT !.queue = Without(s.queue, p), !.cursor = d]
<1>1. /\ s \in Queues /\ s.queue \in Seq(Reviewers) /\ n \in Nat /\ c \in Nat
      /\ IsInjective(s.queue) /\ p \in ToSet(s.queue)
  BY DEF Ring, Queues, Queued
<1>2. i \in 1..n /\ n # 0
  BY <1>1, PlaceIs
<1>3. c < n
  BY <1>1, <1>2 DEF Ring, InRange
<1>4. /\ Without(s.queue, p) \in Seq(Reviewers) /\ Len(Without(s.queue, p)) = n - 1
      /\ IsInjective(Without(s.queue, p)) /\ ToSet(Without(s.queue, p)) = ToSet(s.queue) \ {p}
  BY <1>1, WithoutIs
<1>5. TakenOut(s, p) = Normal(u)
  <2>1. (Position(s, p) < c) <=> (i <= c)
    BY <1>1, <1>2 DEF Position
  <2> HIDE DEF i
  <2> QED BY <2>1 DEF TakenOut
<1> HIDE DEF i
<1>6. d \in Nat /\ d <= n - 1
  BY <1>1, <1>2, <1>3
<1>7. /\ u \in Queues /\ u.queue = Without(s.queue, p) /\ u.cursor = d /\ u.away = s.away
  <2> HIDE DEF d
  <2> QED BY <1>1, <1>4, <1>6 DEF Queues
<1> HIDE DEF u, d
<1>8. /\ Ring(Normal(u)) /\ Normal(u).queue = u.queue /\ Normal(u).away = u.away
      /\ Normal(u).cursor = IF d < n - 1 THEN d ELSE 0
  BY <1>4, <1>6, <1>7, NormalIs
<1>9. (IF d < n - 1 THEN d ELSE 0) = IF i <= c THEN c - 1 ELSE IF c < n - 1 THEN c ELSE 0
  BY <1>1, <1>2, <1>3 DEF d
<1> QED BY <1>4, <1>5, <1>7, <1>8, <1>9 DEF i, Queued

\* Taking somebody out leaves the others in line as they stood.
LEMMA LineTakenOut ==
  ASSUME NEW s, Ring(s), NEW p \in Queued(s)
  PROVE  Line(TakenOut(s, p)) = Without(Line(s), p)
<1> DEFINE Q == s.queue
           n == Len(Q)
           c == s.cursor
           i == Place(Q, p)
           L == Line(s)
           a == Place(L, p)
           w == Without(L, p)
           t == TakenOut(s, p)
           P == t.queue
           d == t.cursor
           v == Line(t)
<1>1. /\ Q \in Seq(Reviewers) /\ n \in Nat /\ p \in ToSet(Q) /\ DOMAIN Q = 1..n
      /\ IsInjective(Q) /\ c \in Nat
      /\ n # 0 => c < n
  BY DEF Ring, Queues, Queued, InRange
<1>2. i \in 1..n /\ Q[i] = p
  BY <1>1, PlaceIs
<1>3. /\ L \in Seq(Reviewers) /\ Len(L) = n /\ ToSet(L) = Queued(s)
      /\ \A k \in 1..n : L[k] = Q[Spot(n, c, k)]
  BY LineIs
<1>4. a \in 1..n /\ L[a] = p
  BY <1>3, PlaceIs
<1>5. /\ Ring(t) /\ P = RemoveAt(Q, i)
      /\ d = IF i <= c THEN c - 1 ELSE IF c < n - 1 THEN c ELSE 0
  BY TakenOutIs DEF Without
<1>6. w = RemoveAt(L, a)
  BY DEF Without
<1>7. /\ v \in Seq(Reviewers) /\ Len(v) = Len(P)
      /\ \A k \in 1..Len(P) : v[k] = P[Spot(Len(P), d, k)]
  BY <1>5, LineIs
<1> HIDE DEF Q, n, c, i, L, a, w, t, P, d, v
<1>8. /\ Len(P) = n - 1
      /\ \A k \in 1..(n-1) : P[k] = IF k < i THEN Q[k] ELSE Q[k+1]
  BY <1>1, <1>2, <1>5, RemovedIs DEF n
<1>9. /\ w \in Seq(Reviewers) /\ Len(w) = n - 1
      /\ \A k \in 1..(n-1) : w[k] = IF k < a THEN L[k] ELSE L[k+1]
  BY <1>3, <1>4, <1>6, RemovedIs
<1>10. n \in Nat \ {0} /\ c \in 0..(n-1)
  BY <1>1, <1>2
<1>11. Spot(n, c, a) = i
  <2>1. Spot(n, c, a) \in 1..n
    BY <1>4, <1>10, SpotIs
  <2>2. Q[Spot(n, c, a)] = Q[i]
    BY <1>2, <1>3, <1>4
  <2> QED BY <1>1, <1>2, <2>1, <2>2 DEF IsInjective
<1>12. ASSUME NEW k \in 1..(n-1) PROVE v[k] = w[k]
  <2> DEFINE x == Spot(n - 1, d, k)
             y == IF k < a THEN k ELSE k + 1
  <2>1. /\ x \in 1..(n-1) /\ y \in 1..n
        /\ (IF x < i THEN x ELSE x + 1) = Spot(n, c, y)
    BY <1>2, <1>4, <1>5, <1>10, <1>11, SpotTakenOut
  <2>2. w[k] = L[y]
    BY <1>9
  <2> HIDE DEF x, y
  <2>3. v[k] = P[x]
    BY <1>7, <1>8 DEF x
  <2>4. P[x] = Q[IF x < i THEN x ELSE x + 1]
    BY <1>8, <2>1
  <2> QED BY <1>3, <2>1, <2>2, <2>3, <2>4
<1>13. v = w
  <2>1. Len(v) = Len(w) /\ \A k \in 1..Len(v) : v[k] = w[k]
    BY <1>7, <1>8, <1>9, <1>12
  <2> QED BY <1>7, <1>9, <2>1, SeqEqual
<1> QED BY <1>13 DEF v, w, t, L

LEMMA RepositionedIs ==
  ASSUME NEW s, Ring(s), NEW p \in Reviewers
  PROVE  /\ Ring(Repositioned(s, p))
         /\ Repositioned(s, p).away = s.away
         /\ Queued(Repositioned(s, p)) = Queued(s)
<1>1. CASE p \notin Queued(s)
  BY <1>1 DEF Repositioned
<1>2. CASE p \in Queued(s)
  <2> DEFINE t == TakenOut(s, p)
             x == InsertAt(t.queue, t.cursor + 1, p)
             u == [t EXCEPT !.queue = x]
  <2>1. Ring(t) /\ t.away = s.away /\ Queued(t) = Queued(s) \ {p}
    BY <1>2, TakenOutIs
  <2>2. Repositioned(s, p) = u
    BY <1>2 DEF Repositioned
  <2> HIDE DEF t
  <2>3. /\ t.queue \in Seq(Reviewers) /\ IsInjective(t.queue) /\ t.cursor \in Nat
        /\ t.cursor <= Len(t.queue) /\ p \notin ToSet(t.queue) /\ t \in Queues
    BY <2>1 DEF Ring, InRange, Queues, Queued
  <2>4. t.cursor + 1 \in 1..(Len(t.queue) + 1)
    BY <2>3
  <2>5. x \in Seq(Reviewers) /\ Len(x) = Len(t.queue) + 1
    BY <2>3, <2>4, InsertedIs
  <2>6. IsInjective(x) /\ ToSet(x) = ToSet(t.queue) \union {p}
    BY <2>3, <2>4, InsertedOnce
  <2> HIDE DEF x
  <2>7. u \in Queues /\ u.queue = x /\ u.away = t.away /\ u.cursor = t.cursor
    BY <2>3, <2>5 DEF Queues
  <2> HIDE DEF u
  <2>8. InRange(u)
    BY <2>3, <2>5, <2>7 DEF InRange
  <2> QED BY <1>2, <2>1, <2>2, <2>6, <2>7, <2>8 DEF Ring, Queued
<1> QED BY <1>1, <1>2

LEMMA SpotPutFirst ==
  ASSUME NEW n \in Nat \ {0}, NEW d \in Nat, n = 1 => d = 0, n > 1 => d < n - 1, NEW k \in 2..n
  PROVE  LET x == Spot(n, d, k)
             y == Spot(n - 1, d, k - 1)
         IN  /\ x \in 1..n /\ x # d + 1
             /\ (IF x < d + 1 THEN x ELSE x - 1) = y
BY DEF Spot

\* Repositioning puts exactly one in front of the others.
LEMMA LineRepositioned ==
  ASSUME NEW s, Ring(s), NEW p \in Queued(s)
  PROVE  Line(Repositioned(s, p)) = <<p>> \o Without(Line(s), p)
<1> DEFINE n == Len(s.queue)
           t == TakenOut(s, p)
           P == t.queue
           d == t.cursor
           x == InsertAt(P, d + 1, p)
           u == Repositioned(s, p)
           v == Line(u)
           w == Line(t)
           z == <<p>> \o w
<1>1. s.queue \in Seq(Reviewers) /\ IsInjective(s.queue) /\ n \in Nat /\ p \in ToSet(s.queue)
  BY DEF Ring, Queues, Queued
<1>2. p \in Reviewers /\ n \in Nat \ {0}
  BY <1>1, ToSetIs
<1>3. Ring(t) /\ P = Without(s.queue, p)
  BY TakenOutIs
<1>4. Len(P) = n - 1
  BY <1>1, <1>3, WithoutIs
<1>5. u = [t EXCEPT !.queue = x]
  BY DEF Repositioned
<1>6. Ring(u)
  BY <1>2, RepositionedIs
<1>7. /\ w \in Seq(Reviewers) /\ w = Without(Line(s), p) /\ Len(w) = Len(P)
      /\ \A k \in 1..Len(P) : w[k] = P[Spot(Len(P), d, k)]
  BY <1>3, LineIs, LineTakenOut
<1>8. t \in Queues /\ P \in Seq(Reviewers) /\ d \in Nat /\ IF P = <<>> THEN d = 0 ELSE d < Len(P)
  BY <1>3 DEF Ring, InRange, Queues
<1>9. u.queue = x /\ u.cursor = d
  BY <1>5, <1>8 DEF Queues
<1>10. /\ v \in Seq(Reviewers) /\ Len(v) = Len(u.queue)
       /\ \A k \in 1..Len(u.queue) : v[k] = u.queue[Spot(Len(u.queue), u.cursor, k)]
  BY <1>6, LineIs
<1> HIDE DEF n, t, P, d, u, v, w, x
<1>11. n = 1 => d = 0
  BY <1>2, <1>4, <1>8
<1>12. n > 1 => d < n - 1
  BY <1>2, <1>4, <1>8
<1>13. /\ Len(x) = n
       /\ \A k \in 1..n : x[k] = IF k < d + 1 THEN P[k] ELSE IF k = d + 1 THEN p ELSE P[k-1]
  <2>1. d + 1 \in 1..(Len(P) + 1) /\ Len(P) + 1 = n
    BY <1>2, <1>4, <1>8, <1>11, <1>12
  <2>2. /\ Len(x) = Len(P) + 1
        /\ \A k \in 1..(Len(P)+1) :
             x[k] = IF k < d + 1 THEN P[k] ELSE IF k = d + 1 THEN p ELSE P[k-1]
    <3> DEFINE e == d + 1
    <3>1. e \in 1..(Len(P) + 1)
      BY <2>1
    <3>2. x = InsertAt(P, e, p)
      BY DEF x
    <3> HIDE DEF e, x
    <3>3. /\ Len(x) = Len(P) + 1
          /\ \A k \in 1..(Len(P)+1) :
               x[k] = IF k < e THEN P[k] ELSE IF k = e THEN p ELSE P[k-1]
      BY <1>2, <1>8, <3>1, <3>2, InsertedIs
    <3> QED BY <3>3 DEF e
  <2> QED BY <2>1, <2>2
<1>14. \A k \in 1..n : v[k] = x[Spot(n, d, k)]
  BY <1>9, <1>10, <1>13
<1>15. /\ z \in Seq(Reviewers) /\ Len(z) = n
       /\ z[1] = p /\ \A k \in 2..n : z[k] = w[k-1]
  <2>1. <<p>> \in Seq(Reviewers) /\ Len(<<p>>) = 1 /\ <<p>>[1] = p
    BY <1>2
  <2>2. /\ z \in Seq(Reviewers) /\ Len(z) = 1 + (n - 1)
        /\ \A k \in 1..(1 + (n - 1)) : z[k] = IF k <= 1 THEN <<p>>[k] ELSE w[k-1]
    BY <1>4, <1>7, <2>1, ConcatProperties
  <2> HIDE DEF z
  <2>3. 1 + (n - 1) = n
    BY <1>2
  <2>4. z[1] = p
    BY <1>2, <2>1, <2>2, <2>3
  <2>5. \A k \in 2..n : z[k] = w[k-1]
    BY <1>2, <2>2, <2>3
  <2> QED BY <2>2, <2>3, <2>4, <2>5
<1> HIDE DEF z
<1>16. v[1] = p
  <2>1. Spot(n, d, 1) = d + 1 /\ d + 1 \in 1..n
    BY <1>2, <1>8, <1>11, <1>12 DEF Spot
  <2> QED BY <1>2, <1>13, <1>14, <2>1
<1>17. ASSUME NEW k \in 2..n PROVE v[k] = w[k-1]
  <2> DEFINE j == Spot(n, d, k)
             y == Spot(n - 1, d, k - 1)
  <2>1. j \in 1..n /\ j # d + 1 /\ (IF j < d + 1 THEN j ELSE j - 1) = y
    BY <1>2, <1>8, <1>11, <1>12, SpotPutFirst
  <2>2. w[k-1] = P[y]
    <3>1. k - 1 \in 1..(n-1)
      BY <1>2
    <3> QED BY <1>4, <1>7, <3>1
  <2>3. v[k] = x[j]
    BY <1>2, <1>14
  <2> HIDE DEF j, y
  <2>4. x[j] = P[IF j < d + 1 THEN j ELSE j - 1]
    BY <1>13, <2>1
  <2> QED BY <2>1, <2>2, <2>3, <2>4
<1>18. v = z
  <2>1. Len(v) = n
    BY <1>9, <1>10, <1>13
  <2>2. \A k \in 1..n : v[k] = z[k]
    <3>1. \A k \in 1..n : k = 1 \/ k \in 2..n
      BY <1>2
    <3> QED BY <1>15, <1>16, <1>17, <3>1
  <2> QED BY <1>10, <1>15, <2>1, <2>2, SeqEqual
<1> QED BY <1>7, <1>18 DEF u, v, w, z

-----------------------------------------------------------------------------
(* What a run does to the queue and the absences *)

Absences == [who : Reviewers, until : 1..LastDay]

\* The invariant's part about queue and absences.
Good(s) == Ring(s) /\ AwayOnce(s) /\ Queued(s) \intersect Away(s) = {}

LEMMA AwayIs ==
  ASSUME NEW s, s \in Queues
  PROVE  /\ s.away \in Seq(Absences) /\ Len(s.away) \in Nat /\ DOMAIN s.away = 1..Len(s.away)
         /\ \A e \in ToSet(s.away) : e \in Absences /\ \E k \in DOMAIN s.away : s.away[k] = e
         /\ \A k \in DOMAIN s.away : s.away[k] \in ToSet(s.away)
<1>1. s.away \in Seq(Absences)
  BY DEF Queues, Absences
<1> QED BY <1>1, ToSetIs

\* Nobody has two absences.
LEMMA OneAbsence ==
  ASSUME NEW s, s \in Queues, AwayOnce(s), NEW e \in ToSet(s.away), NEW f \in ToSet(s.away), e.who = f.who
  PROVE  e = f
<1>1. PICK j \in DOMAIN s.away, k \in DOMAIN s.away : s.away[j] = e /\ s.away[k] = f
  BY AwayIs
<1>2. j = k
  BY <1>1 DEF AwayOnce
<1> QED BY <1>1, <1>2

LEMMA AwayOnceAmong ==
  ASSUME NEW s, s \in Queues, AwayOnce(s), NEW S, NEW u, u.away = Among(s.away, S)
  PROVE  AwayOnce(u)
<1> DEFINE r == Among(s.away, S)
<1>1. /\ r \in Seq(Absences)
      /\ \A j, k \in DOMAIN r : j < k =>
              \E a, b \in DOMAIN s.away : a < b /\ r[j] = s.away[a] /\ r[k] = s.away[b]
  BY AwayIs, AmongIs
<1> HIDE DEF r
<1>2. DOMAIN r \subseteq Nat /\ DOMAIN s.away \subseteq Nat
  BY <1>1, AwayIs
<1>3. \A j, k \in DOMAIN r : j < k => r[j].who # r[k].who
  <2> SUFFICES ASSUME NEW j \in DOMAIN r, NEW k \in DOMAIN r, j < k PROVE r[j].who # r[k].who
    OBVIOUS
  <2>1. PICK a \in DOMAIN s.away, b \in DOMAIN s.away : a < b /\ r[j] = s.away[a] /\ r[k] = s.away[b]
    BY <1>1
  <2>2. a \in Nat /\ b \in Nat /\ a # b
    BY <1>2, <2>1
  <2>3. s.away[a].who # s.away[b].who
    BY <2>2 DEF AwayOnce
  <2> QED BY <2>1, <2>3
<1>4. \A j, k \in DOMAIN r : r[j].who = r[k].who => j = k
  BY <1>2, <1>3
<1>5. u.away = r
  BY DEF r
<1> QED BY <1>4, <1>5 DEF AwayOnce

LEMMA AppendedIs ==
  ASSUME NEW s, Ring(s), NEW p \in Reviewers \ Queued(s)
  PROVE  LET u == [s EXCEPT !.queue = Append(@, p)]
         IN Ring(u) /\ u.away = s.away /\ Queued(u) = Queued(s) \union {p}
<1> DEFINE x == s.queue \o <<p>>
           u == [s EXCEPT !.queue = Append(@, p)]
<1>1. /\ s \in Queues /\ s.queue \in Seq(Reviewers) /\ IsInjective(s.queue)
      /\ s.cursor \in Nat /\ s.cursor <= Len(s.queue)
  BY DEF Ring, InRange, Queues
<1>2. <<p>> \in Seq(Reviewers) /\ IsInjective(<<p>>) /\ ToSet(<<p>>) = {p}
  BY DEF IsInjective, ToSet
<1>3. x \in Seq(Reviewers) /\ IsInjective(x) /\ ToSet(x) = ToSet(s.queue) \union {p}
  <2>1. ToSet(s.queue) \intersect ToSet(<<p>>) = {}
    BY <1>2 DEF Queued
  <2> DEFINE v == <<p>>
  <2>2. v \in Seq(Reviewers) /\ IsInjective(v) /\ ToSet(v) = {p} /\ ToSet(s.queue) \intersect ToSet(v) = {}
    BY <1>2, <2>1
  <2>3. x = s.queue \o v
    OBVIOUS
  <2> HIDE DEF v, x
  <2> QED BY <1>1, <2>2, <2>3, JoinedOnce
<1>4. Append(s.queue, p) = x /\ Len(x) = Len(s.queue) + 1
  BY <1>1, AppendIsConcat
<1> HIDE DEF x
<1>5. u = [s EXCEPT !.queue = x]
  BY <1>4
<1> HIDE DEF u
<1>6. u \in Queues /\ u.queue = x /\ u.cursor = s.cursor /\ u.away = s.away
  BY <1>1, <1>3, <1>5 DEF Queues
<1>7. InRange(u)
  BY <1>1, <1>4, <1>6 DEF InRange
<1> QED BY <1>3, <1>6, <1>7 DEF Ring, Queued, u

LEMMA ReturnIs ==
  ASSUME NEW s, Ring(s), NEW e \in Absences, e.who \notin Queued(s)
  PROVE  /\ Ring(Return(s, e))
         /\ Return(s, e).away = s.away
         /\ Queued(Return(s, e)) = Queued(s) \union {e.who}
<1> DEFINE u == [s EXCEPT !.queue = Append(@, e.who)]
<1>1. e.who \in Reviewers
  BY DEF Absences
<1>2. Ring(u) /\ u.away = s.away /\ Queued(u) = Queued(s) \union {e.who}
  BY <1>1, AppendedIs
<1>3. Return(s, e) = Repositioned(u, e.who)
  BY DEF Return
<1> HIDE DEF u
<1> QED BY <1>1, <1>2, <1>3, RepositionedIs

\* The loop of Restored: back[n] has the first n back whose date has come.
LEMMA RestoredLoop ==
  ASSUME NEW s, s \in Queues
  PROVE  \E back :
           /\ Restored(s) = [back[Len(Among(s.away, Due(s)))]
                               EXCEPT !.away = Among(@, ToSet(@) \ Due(s))]
           /\ \A n \in 0..Len(Among(s.away, Due(s))) :
                back[n] = IF n = 0 THEN s ELSE Return(back[n-1], Among(s.away, Due(s))[n])
<1> DEFINE due == Among(s.away, Due(s))
           N == Len(due)
           Turn(f, n) == IF n = 0 THEN s ELSE Return(f[n-1], due[n])
           T == {m \in 0..N : \E f : f = [n \in 0..m |-> Turn(f, n)]}
           back == CHOOSE f : f = [n \in 0..N |-> Turn(f, n)]
<1>1. N \in Nat
  BY AwayIs, AmongIs
<1>2. Restored(s) = [back[N] EXCEPT !.away = Among(@, ToSet(@) \ Due(s))]
  BY DEF Restored
<1> HIDE DEF due, N
<1>3. 0 \in T
  <2> DEFINE f == [n \in 0..0 |-> s]
  <2>1. f = [n \in 0..0 |-> Turn(f, n)]
    OBVIOUS
  <2> HIDE DEF Turn, f
  <2>2. \E g : g = [n \in 0..0 |-> Turn(g, n)]
    BY <2>1
  <2> QED BY <1>1, <2>2
<1>4. ASSUME NEW m \in 0..(N-1), m \in T PROVE m + 1 \in T
  <2>1. PICK f : f = [n \in 0..m |-> Turn(f, n)]
    BY <1>4
  <2> DEFINE g == [n \in 0..(m+1) |-> IF n = m + 1 THEN Turn(f, m + 1) ELSE f[n]]
  <2>2. ASSUME NEW n \in 0..(m+1) PROVE g[n] = Turn(g, n)
    <3>1. n # 0 => g[n-1] = f[n-1]
      OBVIOUS
    <3>2. Turn(g, n) = Turn(f, n)
      BY <3>1
    <3>3. n # m + 1 => n \in 0..m
      OBVIOUS
    <3>4. n # m + 1 => f[n] = Turn(f, n)
      <4> HIDE DEF Turn, g
      <4> QED BY <2>1, <3>3
    <3> HIDE DEF Turn
    <3> QED BY <3>2, <3>4
  <2>3. g = [n \in 0..(m+1) |-> g[n]]
    <3> HIDE DEF Turn
    <3> QED OBVIOUS
  <2> HIDE DEF g, Turn
  <2>4. g = [n \in 0..(m+1) |-> Turn(g, n)]
    BY <2>2, <2>3
  <2> QED BY <1>1, <2>4
<1>5. N \in T
  <2> HIDE DEF T, Turn
  <2>1. \A n \in 0..(N-1) : n \in T => n + 1 \in T
    BY <1>4
  <2>2. \A n \in 0..N : n \in T
    BY <1>1, <1>3, <2>1, Turns
  <2> QED BY <1>1, <2>2
<1>6. back = [n \in 0..N |-> Turn(back, n)]
  <2>1. \E f : f = [n \in 0..N |-> Turn(f, n)]
    <3> HIDE DEF Turn
    <3> QED BY <1>5
  <2> HIDE DEF Turn
  <2> QED BY <2>1
<1>7. \A n \in 0..N : back[n] = Turn(back, n)
  <2> HIDE DEF back, Turn
  <2> QED BY <1>6
<1> HIDE DEF back
<1> QED BY <1>2, <1>7 DEF due, N

\* The runs bring back exactly those whose date has come.
LEMMA RestoredIs ==
  ASSUME NEW s, Good(s), today \in Nat
  PROVE  LET r == Restored(s)
         IN  /\ Good(r)
             /\ Queued(r) \union Away(r) = Queued(s) \union Away(s)
             /\ \A e \in ToSet(r.away) : e.until > today
<1> DEFINE due == Among(s.away, Due(s))
           N == Len(due)
           r == Restored(s)
<1>1. s \in Queues /\ Ring(s) /\ AwayOnce(s) /\ Queued(s) \intersect Away(s) = {}
  BY DEF Good, Ring
<1>2. Due(s) \subseteq ToSet(s.away)
  BY DEF Due
<1>3. /\ due \in Seq(Absences) /\ N \in Nat /\ DOMAIN due = 1..N
      /\ ToSet(due) = Due(s)
  BY <1>1, <1>2, AwayIs, AmongIs
<1>4. AwayOnce([s EXCEPT !.away = due])
  <2>1. [s EXCEPT !.away = due].away = due
    BY <1>1 DEF Queues
  <2> QED BY <1>1, <2>1, AwayOnceAmong
<1>5. \A j, k \in 1..N : due[j].who = due[k].who => j = k
  <2>1. [s EXCEPT !.away = due].away = due
    BY <1>1 DEF Queues
  <2> HIDE DEF due
  <2> QED BY <1>3, <1>4, <2>1 DEF AwayOnce
<1>6. PICK back : /\ r = [back[N] EXCEPT !.away = Among(@, ToSet(@) \ Due(s))]
                  /\ \A n \in 0..N : back[n] = IF n = 0 THEN s ELSE Return(back[n-1], due[n])
  BY <1>1, RestoredLoop
<1> HIDE DEF due, N
<1> DEFINE Back(n) == {due[k].who : k \in 1..n}
           Right(n) == /\ Ring(back[n]) /\ back[n].away = s.away
                       /\ Queued(back[n]) = Queued(s) \union Back(n)
           T == {n \in 0..N : Right(n)}
<1>7. 0 \in T
  <2>1. back[0] = s
    BY <1>3, <1>6
  <2>2. Back(0) = {}
    OBVIOUS
  <2>3. Right(0)
    BY <1>1, <2>1, <2>2
  <2> HIDE DEF Right
  <2> QED BY <1>3, <2>3
<1>8. ASSUME NEW n \in 0..(N-1), n \in T PROVE n + 1 \in T
  <2> DEFINE e == due[n+1]
             t == back[n]
  <2>1. n + 1 \in 1..N /\ n + 1 \in 0..N /\ n + 1 # 0 /\ (n + 1) - 1 = n
    BY <1>3
  <2>2. back[n+1] = Return(t, e)
    BY <1>6, <2>1
  <2>3. Ring(t) /\ t.away = s.away /\ Queued(t) = Queued(s) \union Back(n)
    BY <1>8
  <2>4. e \in Absences /\ e \in ToSet(s.away)
    <3>1. e \in ToSet(due) /\ e \in Absences
      BY <1>3, <2>1, ToSetIs
    <3> QED BY <1>2, <1>3, <3>1
  <2>5. e.who \notin Queued(t)
    <3>1. e.who \notin Queued(s)
      BY <1>1, <2>4 DEF Away
    <3>2. e.who \notin Back(n)
      <4>1. \A k \in 1..n : k \in 1..N /\ k # n + 1
        BY <1>3
      <4> QED BY <1>5, <2>1, <4>1
    <3> QED BY <2>3, <3>1, <3>2
  <2>6. Back(n+1) = Back(n) \union {e.who}
    <3>1. \A k \in 1..(n+1) : k \in 1..n \/ k = n + 1
      OBVIOUS
    <3>2. 1..n \subseteq 1..(n+1) /\ n + 1 \in 1..(n+1)
      OBVIOUS
    <3> QED BY <3>1, <3>2
  <2> HIDE DEF e, t, Back
  <2>7. Ring(Return(t, e)) /\ Return(t, e).away = t.away /\ Queued(Return(t, e)) = Queued(t) \union {e.who}
    BY <2>3, <2>4, <2>5, ReturnIs
  <2>8. Right(n+1)
    BY <2>2, <2>3, <2>6, <2>7
  <2> HIDE DEF Right
  <2> QED BY <2>1, <2>8
<1>9. Right(N)
  <2>1. N \in T
    <3> HIDE DEF T
    <3>1. \A n \in 0..(N-1) : n \in T => n + 1 \in T
      BY <1>8
    <3>2. \A n \in 0..N : n \in T
      BY <1>3, <1>7, <3>1, Turns
    <3> QED BY <1>3, <3>2
  <2> HIDE DEF Right
  <2> QED BY <2>1
<1> DEFINE t == back[N]
           left == Among(s.away, ToSet(s.away) \ Due(s))
           gone == {e.who : e \in Due(s)}
<1>10. Back(N) = gone
  BY <1>3 DEF ToSet
<1>11. Ring(t) /\ t.away = s.away /\ Queued(t) = Queued(s) \union gone /\ t \in Queues
  BY <1>9, <1>10 DEF Ring
<1>12. left \in Seq(Absences) /\ ToSet(left) = ToSet(s.away) \ Due(s)
  BY <1>1, AwayIs, AmongIs
<1>13. r = [t EXCEPT !.away = left]
  BY <1>6, <1>11
<1> HIDE DEF t, left, r
<1>14. r \in Queues /\ r.queue = t.queue /\ r.cursor = t.cursor /\ r.away = left
  BY <1>11, <1>12, <1>13 DEF Queues, Absences
<1>15. Ring(r) /\ Queued(r) = Queued(s) \union gone
  BY <1>11, <1>14 DEF Ring, InRange, Queued
<1>16. AwayOnce(r)
  BY <1>1, <1>14, AwayOnceAmong DEF left
<1>17. Away(r) = {e.who : e \in ToSet(s.away) \ Due(s)}
  BY <1>12, <1>14 DEF Away
<1>18. Queued(r) \intersect Away(r) = {}
  <2> SUFFICES ASSUME NEW e \in ToSet(s.away) \ Due(s), e.who \in Queued(r) PROVE FALSE
    BY <1>17
  <2>1. e.who \notin Queued(s)
    BY <1>1 DEF Away
  <2>2. PICK f \in Due(s) : f.who = e.who
    BY <1>15, <2>1
  <2> QED BY <1>1, <1>2, <2>2, OneAbsence
<1>19. Queued(r) \union Away(r) = Queued(s) \union Away(s)
  <2>1. Away(s) = gone \union Away(r)
    BY <1>2, <1>17 DEF Away
  <2> QED BY <1>15, <2>1
<1>20. \A e \in ToSet(r.away) : e.until > today
  <2> SUFFICES ASSUME NEW e \in ToSet(r.away) PROVE e.until > today
    OBVIOUS
  <2>1. e \in ToSet(s.away) /\ e \notin Due(s) /\ e \in Absences
    BY <1>1, <1>12, <1>14, AwayIs
  <2>2. ~(e.until <= today) /\ e.until \in Nat
    BY <2>1, DaysAssumption DEF Due, Absences
  <2> QED BY <2>2
<1> QED BY <1>15, <1>16, <1>18, <1>19, <1>20 DEF Good, r

LEMMA ListedIs ==
  ASSUME NEW S \in SUBSET Reviewers
  PROVE  Listed(S) \in Seq(Reviewers) /\ IsInjective(Listed(S)) /\ ToSet(Listed(S)) = S
<1>1. Listing \in Seq(Reviewers) /\ IsInjective(Listing) /\ ToSet(Listing) = Reviewers
  BY ListingAssumption DEF Reviewers
<1>2. /\ Among(Listing, S) \in Seq(Reviewers)
      /\ ToSet(Among(Listing, S)) = ToSet(Listing) \intersect S
      /\ IsInjective(Among(Listing, S))
  BY <1>1, AmongIs, AmongInjective
<1> QED BY <1>1, <1>2 DEF Listed

\* A sync leaves in the queue the Producers that were in it, and adds those who
\* are neither in it nor away.
LEMMA SyncedIs ==
  ASSUME NEW s, Good(s), NEW S \in SUBSET Reviewers
  PROVE  LET u == Synced(s, Listed(S))
         IN  /\ Good(u)
             /\ Queued(u) = S \ (Away(s) \ Queued(s))
             /\ u.away = s.away
<1> DEFINE list == Listed(S)
           new == Among(list, Reviewers \ (Queued(s) \union Away(s)))
           all == s.queue \o new
           kept == Among(all, S)
           t == [s EXCEPT !.queue = kept]
           u == Synced(s, list)
<1>1. /\ s \in Queues /\ s.queue \in Seq(Reviewers) /\ IsInjective(s.queue) /\ ToSet(s.queue) = Queued(s)
      /\ AwayOnce(s) /\ Queued(s) \intersect Away(s) = {}
  BY DEF Good, Ring, Queues, Queued
<1>2. list \in Seq(Reviewers) /\ IsInjective(list) /\ ToSet(list) = S
  BY ListedIs
<1>3. /\ new \in Seq(Reviewers) /\ IsInjective(new)
      /\ ToSet(new) = S \ (Queued(s) \union Away(s))
  <2>1. /\ new \in Seq(Reviewers)
        /\ ToSet(new) = ToSet(list) \intersect (Reviewers \ (Queued(s) \union Away(s)))
    BY <1>2, AmongIs
  <2>2. IsInjective(new)
    BY <1>2, AmongInjective
  <2> QED BY <1>2, <2>1, <2>2
<1>4. u = Normal(t)
  BY <1>2 DEF Synced
<1> HIDE DEF list, new, u
<1>5. all \in Seq(Reviewers) /\ IsInjective(all) /\ ToSet(all) = Queued(s) \union ToSet(new)
  BY <1>1, <1>3, JoinedOnce
<1> HIDE DEF all
<1>6. kept \in Seq(Reviewers) /\ IsInjective(kept) /\ ToSet(kept) = ToSet(all) \intersect S
  BY <1>5, AmongIs, AmongInjective
<1> HIDE DEF kept
<1>7. t \in Queues /\ t.queue = kept /\ t.away = s.away
  BY <1>1, <1>6 DEF Queues
<1> HIDE DEF t
<1>8. Ring(u) /\ u.queue = kept /\ u.away = s.away
  BY <1>4, <1>6, <1>7, NormalRing
<1>9. Queued(u) = S \ (Away(s) \ Queued(s))
  BY <1>1, <1>3, <1>5, <1>6, <1>8 DEF Queued
<1>10. AwayOnce(u) /\ Away(u) = Away(s)
  BY <1>1, <1>8 DEF AwayOnce, Away
<1>11. Queued(u) \intersect Away(u) = {}
  BY <1>1, <1>9, <1>10
<1> QED BY <1>8, <1>9, <1>10, <1>11 DEF Good, u, list

LEMMA NextIs ==
  ASSUME NEW s, Good(s), NEW skip
  PROVE  /\ Next1(s, skip) # Nobody => Next1(s, skip) \in Queued(s) \ skip /\ Next1(s, skip) \in Reviewers
         /\ Good(Advanced(s, skip))
         /\ Queued(Advanced(s, skip)) = Queued(s) /\ Advanced(s, skip).away = s.away
<1>1. CASE Eligible(s, skip) = {}
  BY <1>1 DEF Next1, Advanced
<1>2. CASE Eligible(s, skip) # {}
  <2> DEFINE E == Eligible(s, skip)
             n == Len(s.queue)
             k == Min(E)
             c == (s.cursor + k) % n
             t == Advanced(s, skip)
  <2>1. s \in Queues /\ Ring(s) /\ s.queue \in Seq(Reviewers) /\ n \in Nat /\ s.cursor \in Nat
    BY DEF Good, Ring, Queues
  <2>2. E \subseteq 1..n /\ \A j \in E : Line(s)[j] \notin skip
    BY DEF Eligible
  <2>3. k \in E
    <3> HIDE DEF E
    <3>1. E \subseteq Nat /\ E # {}
      BY <1>2, <2>2 DEF E
    <3>2. \E x \in E : \A y \in E : x <= y
      BY <3>1, LeastNatural
    <3> QED BY <3>2 DEF Min
  <2>4. Next1(s, skip) = Line(s)[k] /\ t = [s EXCEPT !.cursor = c]
    BY <1>2 DEF Next1, Advanced
  <2> HIDE DEF E, k
  <2>5. Line(s) \in Seq(Reviewers) /\ Len(Line(s)) = n /\ ToSet(Line(s)) = Queued(s)
    BY <2>1, LineIs
  <2>6. Next1(s, skip) \in Queued(s) \ skip /\ Next1(s, skip) \in Reviewers
    BY <2>2, <2>3, <2>4, <2>5, ToSetIs
  <2>7. n # 0 /\ c \in 0..(n-1)
    BY <2>1, <2>2, <2>3
  <2> HIDE DEF c, t
  <2>8. t \in Queues /\ t.queue = s.queue /\ t.cursor = c /\ t.away = s.away
    BY <2>1, <2>4, <2>7 DEF Queues
  <2>9. InRange(t)
    BY <2>1, <2>7, <2>8 DEF InRange
  <2>10. Good(t) /\ Queued(t) = Queued(s)
    BY <2>8, <2>9 DEF Good, Ring, AwayOnce, Queued, Away
  <2> QED BY <2>6, <2>8, <2>10 DEF t
<1> QED BY <1>1, <1>2

LEMMA RepositionedGood ==
  ASSUME NEW s, Good(s), NEW p \in Reviewers
  PROVE  /\ Good(Repositioned(s, p))
         /\ Repositioned(s, p).away = s.away
         /\ Queued(Repositioned(s, p)) = Queued(s)
BY RepositionedIs DEF Good, AwayOnce, Away

LEMMA SteppedAwayIs ==
  ASSUME NEW s, Good(s), NEW p \in Queued(s), NEW d \in 1..LastDay
  PROVE  LET u == SteppedAway(s, p, d)
         IN  /\ Good(u)
             /\ Queued(u) = Queued(s) \ {p} /\ Away(u) = Away(s) \union {p}
             /\ ToSet(u.away) = ToSet(s.away) \union {Entry(p, d)}
<1> DEFINE e == Entry(p, d)
           t == TakenOut(s, p)
           x == Append(s.away, e)
           u == SteppedAway(s, p, d)
           N == Len(s.away)
<1>1. /\ s \in Queues /\ Ring(s) /\ AwayOnce(s) /\ Queued(s) \intersect Away(s) = {}
      /\ s.queue \in Seq(Reviewers)
  BY DEF Good, Ring, Queues
<1>2. p \in Reviewers /\ e \in Absences /\ e.who = p
  BY <1>1, ToSetIs DEF Queued, Entry, Absences
<1>3. Ring(t) /\ t \in Queues /\ t.away = s.away /\ Queued(t) = Queued(s) \ {p}
  BY <1>1, TakenOutIs DEF Ring
<1>4. s.away \in Seq(Absences) /\ N \in Nat /\ DOMAIN s.away = 1..N
  BY <1>1, AwayIs
<1>5. u = [t EXCEPT !.away = x]
  BY <1>3 DEF SteppedAway
<1> HIDE DEF e, t, u, N
<1>6. /\ x \in Seq(Absences) /\ DOMAIN x = 1..(N+1)
      /\ \A k \in 1..N : x[k] = s.away[k]
      /\ x[N+1] = e
  BY <1>2, <1>4, AppendProperties DEF N
<1> HIDE DEF x
<1>7. u \in Queues /\ u.queue = t.queue /\ u.cursor = t.cursor /\ u.away = x
  BY <1>3, <1>5, <1>6 DEF Queues, Absences
<1>8. Ring(u) /\ Queued(u) = Queued(s) \ {p}
  BY <1>3, <1>7 DEF Ring, InRange, Queued
<1>9. \A k \in 1..(N+1) : k \in 1..N \/ k = N + 1
  BY <1>4
<1>10. 1..N \subseteq 1..(N+1) /\ N + 1 \in 1..(N+1)
  BY <1>4
<1>11. ToSet(x) = ToSet(s.away) \union {e}
  BY <1>4, <1>6, <1>9, <1>10 DEF ToSet
<1>12. Away(u) = Away(s) \union {p}
  BY <1>2, <1>7, <1>11 DEF Away
<1>13. AwayOnce(u)
  <2>1. \A k \in 1..N : s.away[k].who # p
    BY <1>1, <1>4 DEF Away, ToSet
  <2>2. \A j, k \in 1..N : s.away[j].who = s.away[k].who => j = k
    BY <1>1, <1>4 DEF AwayOnce
  <2>3. \A j, k \in DOMAIN x : x[j].who = x[k].who => j = k
    BY <1>2, <1>6, <1>9, <2>1, <2>2
  <2> QED BY <1>7, <2>3 DEF AwayOnce
<1>14. Queued(u) \intersect Away(u) = {}
  BY <1>1, <1>8, <1>12
<1> QED BY <1>7, <1>8, <1>11, <1>12, <1>13, <1>14 DEF Good, u, e

-----------------------------------------------------------------------------
(* A run of the queue, from its load to its save *)

\* The absences whose end is put off.
LEMMA StayedAwayIs ==
  ASSUME NEW s, Good(s), NEW p \in Away(s), NEW d \in 1..LastDay
  PROVE  LET u == [s EXCEPT !.away = [k \in DOMAIN @ |-> IF @[k].who = p THEN Entry(p, d) ELSE @[k]]]
         IN  /\ Good(u)
             /\ Queued(u) = Queued(s) /\ Away(u) = Away(s)
             /\ \A e \in ToSet(u.away) : e \in ToSet(s.away) \/ e.until = d
<1> DEFINE x == [k \in DOMAIN s.away |-> IF s.away[k].who = p THEN Entry(p, d) ELSE s.away[k]]
           u == [s EXCEPT !.away = [k \in DOMAIN @ |-> IF @[k].who = p THEN Entry(p, d) ELSE @[k]]]
           N == Len(s.away)
<1>1. s \in Queues /\ Ring(s) /\ AwayOnce(s) /\ Queued(s) \intersect Away(s) = {}
  BY DEF Good, Ring
<1>2. s.away \in Seq(Absences) /\ N \in Nat /\ DOMAIN s.away = 1..N
  BY <1>1, AwayIs
<1>3. \A k \in 1..N : s.away[k] \in Absences /\ s.away[k] \in ToSet(s.away)
  BY <1>1, <1>2, AwayIs
<1>4. p \in Reviewers
  <2>1. PICK e \in ToSet(s.away) : e.who = p
    BY DEF Away
  <2> QED BY <1>1, <2>1, AwayIs DEF Absences
<1>5. Entry(p, d) \in Absences /\ Entry(p, d).who = p /\ Entry(p, d).until = d
  BY <1>4 DEF Entry, Absences
<1>6. u = [s EXCEPT !.away = x]
  BY <1>1 DEF Queues
<1>7. \A k \in 1..N : /\ x[k].who = s.away[k].who
                      /\ x[k] = s.away[k] \/ x[k] = Entry(p, d)
                      /\ x[k] \in Absences
  BY <1>2, <1>3, <1>5
<1>8. x \in Seq(Absences) /\ DOMAIN x = 1..N
  <2> x = [k \in 1..N |-> x[k]]
    BY <1>2
  <2> HIDE DEF x, N
  <2>1. x \in [1..N -> Absences]
    BY <1>7
  <2> QED BY <1>2, <2>1
<1> HIDE DEF x, u, N
<1>9. u \in Queues /\ u.queue = s.queue /\ u.cursor = s.cursor /\ u.away = x
  BY <1>1, <1>6, <1>8 DEF Queues, Absences
<1>10. Ring(u) /\ Queued(u) = Queued(s)
  BY <1>1, <1>9 DEF Ring, InRange, Queued
<1>11. AwayOnce(u)
  <2> SUFFICES ASSUME NEW j \in 1..N, NEW k \in 1..N, x[j].who = x[k].who PROVE j = k
    BY <1>8, <1>9 DEF AwayOnce
  <2> QED BY <1>1, <1>2, <1>7 DEF AwayOnce
<1>12. \A e \in ToSet(u.away) : \E k \in 1..N : u.away[k] = e /\ x[k] = e
  BY <1>8, <1>9, ToSetIs DEF N
<1>13. Away(u) = Away(s)
  <2>1. \A q : q \in Away(u) => q \in Away(s)
    BY <1>3, <1>7, <1>12 DEF Away
  <2>2. \A e \in ToSet(s.away) : \E k \in 1..N : x[k].who = e.who /\ x[k] \in ToSet(u.away)
    <3> SUFFICES ASSUME NEW e \in ToSet(s.away) PROVE \E k \in 1..N : x[k].who = e.who /\ x[k] \in ToSet(u.away)
      OBVIOUS
    <3>1. PICK k \in 1..N : s.away[k] = e
      BY <1>1, <1>2, AwayIs
    <3>2. x[k] \in ToSet(x)
      BY <1>8 DEF ToSet
    <3> QED BY <1>7, <1>9, <3>1, <3>2
  <2>3. \A q : q \in Away(s) => q \in Away(u)
    BY <2>2 DEF Away
  <2> QED BY <2>1, <2>3
<1>14. \A e \in ToSet(u.away) : e \in ToSet(s.away) \/ e.until = d
  BY <1>3, <1>5, <1>7, <1>12
<1> QED BY <1>1, <1>10, <1>11, <1>13, <1>14 DEF Good, u

\* The Producers who were in the queue or away when the run loaded the state are
\* still in one of the two.
Stays(s) == (Queued(roster) \union Away(roster)) \intersect producers \subseteq Queued(s) \union Away(s)

\* No absence has come to its end.
InTime(s) == \A e \in ToSet(s.away) : e.until > today

\* What a run may save.
Savable(s) == Good(s) /\ Stays(s) /\ InTime(s)

Rows == [reviewer : Reviewers \union {Nobody}, method : Methods, skipped : Seq(Reviewers)]

LEMMA SoundIs == QueueSound <=> QueueTypeOK /\ Good(roster)
BY DEF QueueSound, QueueTypeOK, Good, Ring

LEMMA PreparedIs ==
  ASSUME QueueSound, NEW s \in Prepared
  PROVE  Savable(s)
<1> DEFINE r == Restored(roster)
           u == Synced(r, Listed(producers))
<1>1. Good(roster) /\ today \in Nat /\ producers \in SUBSET Reviewers
  BY SoundIs, DaysAssumption DEF QueueTypeOK
<1>2. /\ Good(r) /\ Queued(r) \union Away(r) = Queued(roster) \union Away(roster)
      /\ \A e \in ToSet(r.away) : e.until > today
  BY <1>1, RestoredIs
<1>3. s = r \/ s = u
  BY DEF Prepared
<1> HIDE DEF r
<1>4. CASE s = r
  BY <1>2, <1>4 DEF Savable, Stays, InTime
<1>5. CASE s = u
  <2>1. Good(u) /\ Queued(u) = producers \ (Away(r) \ Queued(r)) /\ u.away = r.away
    BY <1>1, <1>2, SyncedIs
  <2> HIDE DEF u
  <2>2. Away(u) = Away(r) /\ InTime(u)
    BY <1>2, <2>1 DEF Away, InTime
  <2>3. Stays(u)
    BY <2>1, <2>2 DEF Stays
  <2> QED BY <1>5, <2>1, <2>2, <2>3 DEF Savable
<1> QED BY <1>3, <1>4, <1>5

LEMMA SavableAs ==
  ASSUME NEW s, Savable(s), NEW t, Good(t), Queued(t) = Queued(s), t.away = s.away
  PROVE  Savable(t)
BY DEF Savable, Stays, InTime, Away

LEMMA SavableNext ==
  ASSUME NEW s, Savable(s), NEW skip
  PROVE  Savable(Advanced(s, skip))
BY NextIs, SavableAs DEF Savable

LEMMA SavableRepositioned ==
  ASSUME NEW s, Savable(s), NEW p \in Reviewers
  PROVE  Savable(Repositioned(s, p))
BY RepositionedGood, SavableAs DEF Savable

LEMMA SavableSteppedAway ==
  ASSUME NEW s, Savable(s), NEW p \in Queued(s), NEW d \in 1..LastDay, d > today
  PROVE  Savable(SteppedAway(s, p, d))
<1> DEFINE u == SteppedAway(s, p, d)
<1>1. /\ Good(u) /\ Queued(u) = Queued(s) \ {p} /\ Away(u) = Away(s) \union {p}
      /\ ToSet(u.away) = ToSet(s.away) \union {Entry(p, d)}
  BY SteppedAwayIs DEF Savable
<1> HIDE DEF u
<1>2. Entry(p, d).until = d
  BY DEF Entry
<1>3. InTime(u)
  BY <1>1, <1>2 DEF Savable, InTime
<1>4. Stays(u)
  BY <1>1 DEF Savable, Stays
<1> QED BY <1>1, <1>3, <1>4 DEF Savable, u

LEMMA ReportIs ==
  ASSUME NEW before, Savable(before), NEW after, Savable(after),
         NEW changed \in BOOLEAN, Report(changed, before, after)
  PROVE  Savable(roster') /\ UNCHANGED <<producers, edits, today>>
<1>1. CASE roster' = after
  BY <1>1 DEF Report
<1>2. CASE roster' = roster /\ before = roster
  BY <1>2 DEF Report
<1> QED BY <1>1, <1>2 DEF Report

-----------------------------------------------------------------------------
(* The rows *)

RowsKept ==
  /\ rows' \in [Items -> Rows]
  /\ \A i \in Items : Len(rows'[i].skipped) > Len(rows[i].skipped)
       => ~Contains(rows'[i].skipped, rows'[i].reviewer)

\* What a run does to queue and rows.
Step == Savable(roster') /\ RowsKept /\ UNCHANGED <<producers, edits, today>>

LEMMA RowIs ==
  ASSUME rows \in [Items -> Rows], NEW i \in Items, NEW r \in Rows, Row(i, r),
         Len(r.skipped) > Len(rows[i].skipped) => ~Contains(r.skipped, r.reviewer)
  PROVE  RowsKept
<1>1. rows' = [rows EXCEPT ![i] = r]
  BY DEF Row
<1>2. rows' \in [Items -> Rows]
  BY <1>1
<1> SUFFICES ASSUME NEW j \in Items, Len(rows'[j].skipped) > Len(rows[j].skipped)
             PROVE  ~Contains(rows'[j].skipped, rows'[j].reviewer)
  BY <1>2 DEF RowsKept
<1>3. CASE j = i
  BY <1>1, <1>3
<1>4. CASE j # i
  <2>1. rows'[j] = rows[j] /\ rows[j] \in Rows
    BY <1>1, <1>4
  <2>2. Len(rows[j].skipped) \in Nat
    BY <2>1 DEF Rows
  <2> QED BY <2>1, <2>2
<1> QED BY <1>3, <1>4

\* A row that keeps the record of who passed.
LEMMA RowAs ==
  ASSUME rows \in [Items -> Rows], NEW i \in Items, NEW r \in Rows, Row(i, r),
         r.skipped = rows[i].skipped
  PROVE  RowsKept
<1>1. Len(r.skipped) \in Nat
  BY DEF Rows
<1>2. ~(Len(r.skipped) > Len(rows[i].skipped))
  BY <1>1
<1> QED BY <1>2, RowIs

LEMMA RowsSame ==
  ASSUME rows \in [Items -> Rows], UNCHANGED rows
  PROVE  RowsKept
<1>1. \A i \in Items : Len(rows[i].skipped) \in Nat
  BY DEF Rows
<1> QED BY <1>1 DEF RowsKept

LEMMA ClearedIs ==
  ASSUME rows \in [Items -> Rows], NEW i \in Items
  PROVE  Cleared(i) \in Rows /\ Cleared(i).skipped = rows[i].skipped
<1>1. rows[i] \in Rows
  OBVIOUS
<1> QED BY <1>1 DEF Cleared, Rows, Methods

LEMMA ReviewedIs ==
  ASSUME rows \in [Items -> Rows], NEW i \in Items, NEW p \in Reviewers, NEW how \in Methods
  PROVE  /\ Reviewed(i, p, how) \in Rows /\ Reviewed(i, p, how).skipped = rows[i].skipped
         /\ Reviewed(i, p, how).reviewer = p
<1>1. rows[i] \in Rows
  OBVIOUS
<1> QED BY <1>1 DEF Reviewed, Rows

LEMMA ConfirmedIs ==
  ASSUME rows \in [Items -> Rows], NEW i \in Items, NEW p \in Reviewers, NEW how \in Methods,
         NEW r \in Confirmed(i, p, how), Row(i, r)
  PROVE  RowsKept
<1>1. rows[i] \in Rows
  OBVIOUS
<1>2. r = Reviewed(i, p, how) \/ r = rows[i]
  BY DEF Confirmed
<1>3. r \in Rows /\ r.skipped = rows[i].skipped
  BY <1>1, <1>2, ReviewedIs
<1> QED BY <1>3, RowAs

\* The assumptions of the lemmas on the actions.
Loaded(s) == QueueSound /\ rows \in [Items -> Rows] /\ Savable(s)

LEMMA LoadedIs ==
  ASSUME QueueSound, NEW s \in Prepared
  PROVE  Loaded(s)
BY PreparedIs DEF Loaded, QueueSound, QueueTypeOK, Rows

LEMMA NotConfirmedIs ==
  ASSUME NEW s, Loaded(s), NEW t, Savable(t), NEW i \in Items, NotConfirmed(i, s, t)
  PROVE  Step
<1>1. rows \in [Items -> Rows] /\ Savable(s)
  BY DEF Loaded
<1>2. CASE Row(i, Cleared(i)) /\ Report(TRUE, s, t)
  <2>1. RowsKept
    BY <1>1, <1>2, ClearedIs, RowAs
  <2> QED BY <1>1, <1>2, <2>1, ReportIs DEF Step
<1>3. CASE \E changed \in BOOLEAN : UNCHANGED rows /\ Report(changed, s, t)
  BY <1>1, <1>3, ReportIs, RowsSame DEF Step
<1> QED BY <1>2, <1>3 DEF NotConfirmed

-----------------------------------------------------------------------------
(* The actions of the queue *)

LEMMA AuthorIs ==
  ASSUME NEW i \in Items
  PROVE  AuthorOf(i) \subseteq Reviewers
BY AuthorAssumption DEF AuthorOf

LEMMA AssignNextStep ==
  ASSUME QueueSound, NEW i \in Items, AssignNext(i)
  PROVE  Step
<1>1. PICK s \in Prepared :
        LET p == Next1(s, AuthorOf(i)) t == Advanced(s, AuthorOf(i)) IN
          IF p = Nobody THEN UNCHANGED rows /\ Report(FALSE, s, s)
          ELSE \/ \E r \in Confirmed(i, p, "round-robin") : Row(i, r) /\ Report(TRUE, s, t)
               \/ NotConfirmed(i, s, t)
  BY DEF AssignNext
<1> DEFINE p == Next1(s, AuthorOf(i))
           t == Advanced(s, AuthorOf(i))
<1>2. Loaded(s) /\ rows \in [Items -> Rows] /\ Savable(s) /\ Savable(t)
  BY LoadedIs, SavableNext DEF Loaded
<1>3. p # Nobody => p \in Reviewers
  BY <1>2, NextIs DEF Savable
<1>4. \/ p = Nobody /\ UNCHANGED rows /\ Report(FALSE, s, s)
      \/ p # Nobody /\ \E r \in Confirmed(i, p, "round-robin") : Row(i, r) /\ Report(TRUE, s, t)
      \/ NotConfirmed(i, s, t)
  BY <1>1
<1> HIDE DEF p, t
<1>5. CASE p = Nobody /\ UNCHANGED rows /\ Report(FALSE, s, s)
  BY <1>2, <1>5, RowsSame, ReportIs DEF Step
<1>6. CASE p # Nobody /\ \E r \in Confirmed(i, p, "round-robin") : Row(i, r) /\ Report(TRUE, s, t)
  BY <1>2, <1>3, <1>6, ConfirmedIs, ReportIs DEF Step, Methods
<1>7. CASE NotConfirmed(i, s, t)
  BY <1>2, <1>7, NotConfirmedIs
<1> QED BY <1>4, <1>5, <1>6, <1>7

LEMMA PassStep ==
  ASSUME QueueSound, NEW i \in Items, Pass(i)
  PROVE  Step
<1> DEFINE passer == rows[i].reviewer
           list == rows[i].skipped \o (IF Contains(rows[i].skipped, passer) THEN <<>> ELSE <<passer>>)
           skip == ToSet(list) \union AuthorOf(i)
<1>1. PICK s \in Prepared :
        LET p == Next1(s, skip) t == Advanced(s, skip) IN
          IF p = Nobody THEN UNCHANGED rows /\ Report(FALSE, s, s)
          ELSE \/ /\ Row(i, [Reviewed(i, p, "round-robin") EXCEPT !.skipped = list])
                  /\ Report(TRUE, s, Repositioned(t, passer))
               \/ NotConfirmed(i, s, t)
  BY DEF Pass
<1> DEFINE p == Next1(s, skip)
           t == Advanced(s, skip)
           r == [Reviewed(i, p, "round-robin") EXCEPT !.skipped = list]
<1>2. Loaded(s) /\ rows \in [Items -> Rows] /\ Savable(s) /\ Savable(t)
  BY LoadedIs, SavableNext DEF Loaded
<1>3. p # Nobody => p \in Reviewers /\ p \notin skip
  <2> HIDE DEF skip
  <2> QED BY <1>2, NextIs DEF Savable
<1>4. rows[i] \in Rows /\ passer \in Reviewers
  BY <1>2 DEF Pass, Rows
<1>5. list \in Seq(Reviewers)
  <2>1. rows[i].skipped \in Seq(Reviewers)
    BY <1>4 DEF Rows
  <2> HIDE DEF passer
  <2> QED BY <1>4, <2>1
<1>6. \/ p = Nobody /\ UNCHANGED rows /\ Report(FALSE, s, s)
      \/ p # Nobody /\ Row(i, r) /\ Report(TRUE, s, Repositioned(t, passer))
      \/ NotConfirmed(i, s, t)
  BY <1>1
<1>7. p # Nobody => r \in Rows /\ r.skipped = list /\ r.reviewer = p
  <2> SUFFICES ASSUME p # Nobody PROVE r \in Rows /\ r.skipped = list /\ r.reviewer = p
    OBVIOUS
  <2> HIDE DEF p, list, passer
  <2>1. Reviewed(i, p, "round-robin") \in Rows /\ Reviewed(i, p, "round-robin").reviewer = p
    BY <1>2, <1>3, ReviewedIs DEF Methods
  <2> QED BY <1>5, <2>1 DEF Rows
<1>8. p # Nobody => ~Contains(list, p)
  <2> HIDE DEF list, p
  <2>1. \A k \in 1..Len(list) : list[k] \in ToSet(list)
    BY <1>5, ToSetIs
  <2> QED BY <1>3, <2>1 DEF Contains
<1> HIDE DEF r, list, skip, p, t, passer
<1>9. CASE p = Nobody /\ UNCHANGED rows /\ Report(FALSE, s, s)
  BY <1>2, <1>9, RowsSame, ReportIs DEF Step
<1>10. CASE p # Nobody /\ Row(i, r) /\ Report(TRUE, s, Repositioned(t, passer))
  <2>1. RowsKept
    BY <1>2, <1>7, <1>8, <1>10, RowIs
  <2>2. Savable(Repositioned(t, passer))
    BY <1>2, <1>4, SavableRepositioned
  <2> QED BY <1>2, <1>10, <2>1, <2>2, ReportIs DEF Step
<1>11. CASE NotConfirmed(i, s, t)
  BY <1>2, <1>11, NotConfirmedIs
<1> QED BY <1>6, <1>9, <1>10, <1>11

LEMMA ReleaseStep ==
  ASSUME QueueSound, NEW i \in Items, Release(i)
  PROVE  Step
<1> DEFINE u(s) == IF rows[i].method = "round-robin" THEN Repositioned(s, rows[i].reviewer) ELSE s
<1>1. PICK s \in Prepared : \/ Row(i, Cleared(i)) /\ Report(TRUE, s, u(s))
                            \/ NotConfirmed(i, s, s)
  BY DEF Release
<1>2. Loaded(s) /\ rows \in [Items -> Rows] /\ Savable(s)
  BY LoadedIs DEF Loaded
<1>3. rows[i].reviewer \in Reviewers
  BY <1>2 DEF Release, Rows
<1>4. Savable(u(s))
  BY <1>2, <1>3, SavableRepositioned
<1> HIDE DEF u
<1>5. CASE Row(i, Cleared(i)) /\ Report(TRUE, s, u(s))
  <2>1. RowsKept
    BY <1>2, <1>5, ClearedIs, RowAs
  <2> QED BY <1>2, <1>4, <1>5, <2>1, ReportIs DEF Step
<1>6. CASE NotConfirmed(i, s, s)
  BY <1>2, <1>6, NotConfirmedIs
<1> QED BY <1>1, <1>5, <1>6

LEMMA ClosedStep ==
  ASSUME QueueSound, NEW i \in Items, Closed(i)
  PROVE  Step
<1>1. PICK s \in Prepared : Row(i, NoRow) /\ Report(rows[i] # NoRow, s, s)
  BY DEF Closed
<1>2. rows \in [Items -> Rows] /\ Savable(s)
  BY LoadedIs DEF Loaded
<1>3. NoRow \in Rows /\ NoRow.skipped = <<>> /\ Len(rows[i].skipped) \in Nat
  BY <1>2 DEF NoRow, Rows, Methods
<1>4. RowsKept
  BY <1>1, <1>2, <1>3, RowIs
<1>5. (rows[i] # NoRow) \in BOOLEAN
  OBVIOUS
<1> QED BY <1>1, <1>2, <1>4, <1>5, ReportIs DEF Step

LEMMA ReconcileStep ==
  ASSUME QueueSound, NEW i \in Items, NEW p \in Reviewers, Reconcile(i, p)
  PROVE  Step
<1>1. PICK s \in Prepared :
        IF p = Authors[i] THEN Row(i, Cleared(i)) /\ Report(rows[i].reviewer # Nobody, s, s)
        ELSE \/ \E r \in Confirmed(i, p, "lifecycle") : Row(i, r) /\ Report(TRUE, s, s)
             \/ NotConfirmed(i, s, s)
  BY DEF Reconcile
<1>2. Loaded(s) /\ rows \in [Items -> Rows] /\ Savable(s)
  BY LoadedIs DEF Loaded
<1>3. CASE Row(i, Cleared(i)) /\ Report(rows[i].reviewer # Nobody, s, s)
  <2>1. RowsKept
    BY <1>2, <1>3, ClearedIs, RowAs
  <2>2. (rows[i].reviewer # Nobody) \in BOOLEAN
    OBVIOUS
  <2> QED BY <1>2, <1>3, <2>1, <2>2, ReportIs DEF Step
<1>4. CASE \E r \in Confirmed(i, p, "lifecycle") : Row(i, r) /\ Report(TRUE, s, s)
  BY <1>2, <1>4, ConfirmedIs, ReportIs DEF Step, Methods
<1>5. CASE NotConfirmed(i, s, s)
  BY <1>2, <1>5, NotConfirmedIs
<1> QED BY <1>1, <1>3, <1>4, <1>5

LEMMA TakeOverStep ==
  ASSUME QueueSound, NEW i \in Items, NEW p \in Reviewers, NEW how \in {"claim", "manual"}, TakeOver(i, p, how)
  PROVE  Step
<1>1. PICK s \in Prepared :
        \/ \E r \in Confirmed(i, p, how) : Row(i, r) /\ Report(TRUE, s, s)
        \/ NotConfirmed(i, s, s)
  BY DEF TakeOver
<1>2. Loaded(s) /\ rows \in [Items -> Rows] /\ Savable(s)
  BY LoadedIs DEF Loaded
<1>3. CASE \E r \in Confirmed(i, p, how) : Row(i, r) /\ Report(TRUE, s, s)
  BY <1>2, <1>3, ConfirmedIs, ReportIs DEF Step, Methods
<1>4. CASE NotConfirmed(i, s, s)
  BY <1>2, <1>4, NotConfirmedIs
<1> QED BY <1>1, <1>3, <1>4

LEMMA StepAwayStep ==
  ASSUME QueueSound, NEW i \in Items, NEW p \in Reviewers, NEW d \in 1..LastDay, StepAway(i, p, d)
  PROVE  Step
<1> DEFINE skip == AuthorOf(i) \union {p}
<1>1. d > today
  BY DEF StepAway
<1>2. PICK s \in Prepared :
        /\ p \in Queued(s)
        /\ LET n == Next1(s, skip) t == Advanced(s, skip) IN
             \/ UNCHANGED rows /\ Report(TRUE, s, SteppedAway(s, p, d))
             \/ n # Nobody /\ \E r \in Confirmed(i, n, "round-robin") :
                               Row(i, r) /\ Report(TRUE, s, SteppedAway(t, p, d))
             \/ n = Nobody /\ Row(i, Cleared(i)) /\ Report(TRUE, s, SteppedAway(t, p, d))
             \/ NotConfirmed(i, s, t)
  BY DEF StepAway
<1> DEFINE n == Next1(s, skip)
           t == Advanced(s, skip)
<1> HIDE DEF skip
<1>3. Loaded(s) /\ rows \in [Items -> Rows] /\ Savable(s) /\ Savable(t)
  BY LoadedIs, SavableNext DEF Loaded
<1>4. n # Nobody => n \in Reviewers
  BY <1>3, NextIs DEF Savable
<1>5. p \in Queued(t)
  BY <1>2, <1>3, NextIs DEF Savable
<1> HIDE DEF n, t
<1>6. Savable(SteppedAway(s, p, d)) /\ Savable(SteppedAway(t, p, d))
  BY <1>1, <1>2, <1>3, <1>5, SavableSteppedAway
<1>7. CASE UNCHANGED rows /\ Report(TRUE, s, SteppedAway(s, p, d))
  BY <1>3, <1>6, <1>7, RowsSame, ReportIs DEF Step
<1>8. CASE n # Nobody /\ \E r \in Confirmed(i, n, "round-robin") :
                           Row(i, r) /\ Report(TRUE, s, SteppedAway(t, p, d))
  BY <1>3, <1>4, <1>6, <1>8, ConfirmedIs, ReportIs DEF Step, Methods
<1>9. CASE Row(i, Cleared(i)) /\ Report(TRUE, s, SteppedAway(t, p, d))
  <2>1. RowsKept
    BY <1>3, <1>9, ClearedIs, RowAs
  <2> QED BY <1>3, <1>6, <1>9, <2>1, ReportIs DEF Step
<1>10. CASE NotConfirmed(i, s, t)
  BY <1>3, <1>10, NotConfirmedIs
<1> QED BY <1>2, <1>7, <1>8, <1>9, <1>10 DEF n, t

LEMMA StayAwayStep ==
  ASSUME QueueSound, NEW p \in Reviewers, NEW d \in 1..LastDay, StayAway(p, d)
  PROVE  Step
<1> DEFINE u(s) == [s EXCEPT !.away = [k \in DOMAIN @ |-> IF @[k].who = p THEN Entry(p, d) ELSE @[k]]]
<1>1. d > today /\ UNCHANGED rows
  BY DEF StayAway
<1>2. PICK s \in Prepared : p \in Away(s) /\ Report(TRUE, s, u(s))
  BY DEF StayAway
<1>3. rows \in [Items -> Rows] /\ Savable(s)
  BY LoadedIs DEF Loaded
<1>4. /\ Good(u(s)) /\ Queued(u(s)) = Queued(s) /\ Away(u(s)) = Away(s)
      /\ \A e \in ToSet(u(s).away) : e \in ToSet(s.away) \/ e.until = d
  BY <1>2, <1>3, StayedAwayIs DEF Savable
<1> HIDE DEF u
<1>5. Savable(u(s))
  BY <1>1, <1>3, <1>4 DEF Savable, Stays, InTime
<1> QED BY <1>1, <1>2, <1>3, <1>5, RowsSame, ReportIs DEF Step

LEMMA OtherRunStep ==
  ASSUME QueueSound, OtherRun
  PROVE  Step
<1>1. PICK s \in Prepared : UNCHANGED rows /\ Report(FALSE, s, s)
  BY DEF OtherRun
<1>2. rows \in [Items -> Rows] /\ Savable(s)
  BY LoadedIs DEF Loaded
<1> QED BY <1>1, <1>2, RowsSame, ReportIs DEF Step

-----------------------------------------------------------------------------
(* The queue as a whole *)

\* A step that is no run leaves queue and rows alone.
Aside == UNCHANGED <<roster, rows>> /\ producers' \subseteq Reviewers /\ edits' \in 0..MaxEdits /\ today' \in 0..LastDay

LEMMA QueueSteps ==
  ASSUME QueueSound, [QueueNext]_queueVars
  PROVE  \/ Step
         \/ Aside /\ (UNCHANGED queueVars \/ edits' = edits + 1 \/ today' = today + 1)
<1>1. ASSUME NEW i \in Items,
             \/ AssignNext(i) \/ Pass(i) \/ Release(i) \/ Closed(i)
             \/ \E p \in Reviewers :
                   \/ Reconcile(i, p)
                   \/ \E how \in {"claim", "manual"} : TakeOver(i, p, how)
                   \/ \E d \in 1..LastDay : StepAway(i, p, d)
      PROVE  Step
  BY <1>1, AssignNextStep, PassStep, ReleaseStep, ClosedStep, ReconcileStep, TakeOverStep, StepAwayStep
<1>2. CASE \E p \in Reviewers, d \in 1..LastDay : StayAway(p, d)
  BY <1>2, StayAwayStep
<1>3. CASE OtherRun
  BY <1>3, OtherRunStep
<1>4. producers \subseteq Reviewers /\ edits \in 0..MaxEdits /\ today \in 0..LastDay
  BY DEF QueueSound, QueueTypeOK
<1>5. CASE EditMembers
  BY <1>4, <1>5, DaysAssumption DEF EditMembers, Aside
<1>6. CASE NextDay
  BY <1>4, <1>6, DaysAssumption DEF NextDay, Aside
<1>7. CASE UNCHANGED queueVars
  BY <1>4, <1>7 DEF queueVars, Aside
<1> QED BY <1>1, <1>2, <1>3, <1>5, <1>6, <1>7 DEF QueueNext

LEMMA QueueSoundStep ==
  ASSUME QueueSound, [QueueNext]_queueVars
  PROVE  QueueSound'
<1>1. /\ producers \subseteq Reviewers /\ edits \in 0..MaxEdits /\ today \in 0..LastDay
      /\ Good(roster) /\ rows \in [Items -> Rows]
  BY SoundIs DEF QueueTypeOK, Rows
<1>2. CASE Step
  <2>1. /\ Good(roster') /\ rows' \in [Items -> Rows] /\ UNCHANGED <<producers, edits, today>>
    BY <1>2 DEF Step, Savable, RowsKept
  <2>2. roster' \in Queues
    BY <2>1 DEF Good, Ring
  <2> QED BY <1>1, <2>1, <2>2 DEF QueueSound, QueueTypeOK, Good, Ring, Rows
<1>3. CASE Aside
  <2>1. roster' \in Queues
    BY <1>1, <1>3 DEF Good, Ring, Aside
  <2> QED BY <1>1, <1>3, <2>1 DEF QueueSound, QueueTypeOK, Good, Ring, Rows, Aside
<1> QED BY <1>2, <1>3, QueueSteps

LEMMA QueueSoundInit == QueueInit => QueueSound
<1> SUFFICES ASSUME QueueInit PROVE QueueSound
  OBVIOUS
<1> DEFINE list == Listed(producers)
<1>1. producers \in SUBSET Reviewers /\ roster = [queue |-> list, cursor |-> 0, away |-> <<>>]
  BY DEF QueueInit
<1>2. list \in Seq(Reviewers) /\ IsInjective(list)
  BY <1>1, ListedIs
<1> HIDE DEF list
<1>3. roster \in Queues
  BY <1>1, <1>2 DEF Queues
<1>4. rows \in [Items -> Rows]
  BY DEF QueueInit, NoRow, Rows, Methods
<1>5. QueueTypeOK
  BY <1>3, <1>4, DaysAssumption DEF QueueInit, QueueTypeOK, Rows
<1>6. InRange(roster)
  <2>1. Len(list) \in Nat /\ (list # <<>> => Len(list) # 0)
    BY <1>2
  <2> QED BY <1>1, <2>1 DEF InRange
<1>7. roster.away = <<>> /\ ToSet(<<>>) = {} /\ DOMAIN <<>> = {}
  BY <1>1 DEF ToSet
<1>8. AwayOnce(roster) /\ Away(roster) = {}
  BY <1>7 DEF AwayOnce, Away
<1> QED BY <1>1, <1>2, <1>5, <1>6, <1>8 DEF QueueSound

\* Nobody is in the queue twice, nobody is in it and away at once, and
\* current_index points into the queue: whatever the Producers do, and however
\* members.md is edited between two runs.
THEOREM QueueSoundHolds == QueueSpec => []QueueSound
<1>1. QueueInit => QueueSound
  BY QueueSoundInit
<1>2. QueueSound /\ [QueueNext]_queueVars => QueueSound'
  BY QueueSoundStep
<1> QED BY <1>1, <1>2, PTL DEF QueueSpec

\* The index arithmetic of taking somebody out of the queue, and of putting
\* them back as next, keeps the line of the others, for queues of every length
\* and at every position of the index.
THEOREM LineKeptHolds == QueueSpec => []LineKept
<1>1. QueueSound => LineKept
  <2> SUFFICES ASSUME QueueSound PROVE LineKept
    OBVIOUS
  <2>1. Ring(roster)
    BY SoundIs DEF Good
  <2> QED BY <2>1, LineTakenOut, LineRepositioned DEF LineKept
<1> QED BY <1>1, QueueSoundHolds, PTL

\* A pass gives the item to somebody who has not passed on it before, and no
\* other run makes the list of those who have any longer.
THEOREM PassesMoveOn == QueueSpec => PassMovesOn
<1>1. QueueSound /\ [QueueNext]_queueVars =>
        [\A i \in Items : Len(rows'[i].skipped) > Len(rows[i].skipped)
           => ~Contains(rows'[i].skipped, rows'[i].reviewer)]_queueVars
  <2> SUFFICES ASSUME QueueSound, [QueueNext]_queueVars, NEW i \in Items,
                      Len(rows'[i].skipped) > Len(rows[i].skipped)
               PROVE  ~Contains(rows'[i].skipped, rows'[i].reviewer)
    OBVIOUS
  <2>1. CASE Step
    BY <2>1 DEF Step, RowsKept
  <2>2. CASE Aside
    <3>1. rows[i].skipped \in Seq(Reviewers)
      BY DEF QueueSound, QueueTypeOK
    <3>2. Len(rows[i].skipped) \in Nat
      BY <3>1
    <3> QED BY <2>2, <3>2 DEF Aside
  <2> QED BY <2>1, <2>2, QueueSteps
<1> QED BY <1>1, QueueSoundHolds, PTL DEF QueueSpec, PassMovesOn

\* Passes, releases, departures, returns and syncs, in any order, lose no
\* Producer.
THEOREM NobodyIsForgotten == QueueSpec => NobodyForgotten
<1>1. QueueSound /\ [QueueNext]_queueVars =>
        [(Queued(roster) \union Away(roster)) \intersect producers
           \subseteq Queued(roster') \union Away(roster')]_queueVars
  <2> SUFFICES ASSUME QueueSound, [QueueNext]_queueVars
               PROVE  (Queued(roster) \union Away(roster)) \intersect producers
                        \subseteq Queued(roster') \union Away(roster')
    OBVIOUS
  <2>1. CASE Step
    BY <2>1 DEF Step, Savable, Stays
  <2>2. CASE Aside
    BY <2>2 DEF Aside
  <2> QED BY <2>1, <2>2, QueueSteps
<1> QED BY <1>1, QueueSoundHolds, PTL DEF QueueSpec, NobodyForgotten

\* Every run that changes anything saves no absence whose date has come,
\* whatever its handler does and reports.
THEOREM EveryoneReturnsInTime == QueueSpec => ReturnsInTime
<1>1. QueueSound /\ [QueueNext]_queueVars =>
        [today' = today /\ edits' = edits => \A e \in ToSet(roster'.away) : e.until > today]_queueVars
  <2> SUFFICES ASSUME QueueSound, [QueueNext]_queueVars, ~UNCHANGED queueVars, today' = today, edits' = edits
               PROVE  \A e \in ToSet(roster'.away) : e.until > today
    OBVIOUS
  <2>1. edits \in Nat /\ today \in Nat
    BY DaysAssumption DEF QueueSound, QueueTypeOK
  <2>2. edits' # edits + 1 /\ today' # today + 1
    BY <2>1
  <2>3. Step
    BY <2>2, QueueSteps
  <2> QED BY <2>3 DEF Step, Savable, InTime
<1> QED BY <1>1, QueueSoundHolds, PTL DEF QueueSpec, ReturnsInTime
=============================================================================
