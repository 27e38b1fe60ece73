---------------------------- MODULE DeferredProofs ----------------------------
(* What holds of deferred events for any events, artifacts, times and faults. *)
EXTENDS Deferred, FiniteSetTheorems, WellFoundedInduction, TLAPS

Mark == [reason : Reasons, scanned : BOOLEAN]
GapSets == UNION {[D -> Mark] : D \in SUBSET Events}
Rows == [seen : SUBSET Events, gaps : GapSets, closed : SUBSET Events, receipts : SUBSET Commands,
         applied : [Commands -> Nat], safe : [Surfaces -> 0 .. Never]]

Typed ==
  /\ clock \in Nat /\ made \in [Events -> 0 .. Never] /\ shown \subseteq Events
  /\ live \in [Events -> {"same", "other", "gone"}] /\ run \in [Events -> RunStates]
  /\ started \in [Events -> 0 .. Never] /\ due \subseteq Events
  /\ artifact \in [Events -> {Exact} \union Flawed] /\ saved \in Rows
  /\ swept \in Nat /\ faults \in 0 .. MaxFaults /\ reruns \in 0 .. MaxReruns
  /\ answered \subseteq Commands /\ missed \subseteq Events

\* Nothing is known of an event before it happens, and GitHub lists it in time.
EventsSound ==
  \A e \in Events :
    /\ made[e] = Never \/ made[e] <= clock
    /\ made[e] = Never => run[e] = "none" /\ e \notin shown
    /\ e \notin shown => clock <= made[e] + Overlap

\* A receipt stands for an effect, and the effect without a receipt is the
\* doing of the direct job, after which there is nothing to replay.
EffectsSound ==
  \A c \in Commands :
    /\ saved.applied[c] \in 0 .. 1
    /\ c \in saved.receipts => run[c] = "good" /\ saved.applied[c] = 1
    /\ saved.applied[c] = 1 => c \in saved.receipts \/ run[c] = "empty"

\* A run that was not there so long after the event can only be created too late.
MissingSound ==
  \A e \in DOMAIN saved.gaps :
    saved.gaps[e].reason = "observer_run_missing" =>
      made[e] + Correlation < clock /\ (run[e] = "none" \/ started[e] > made[e] + Correlation)

ClosedSound ==
  \A e \in saved.closed : /\ e \notin Comments
                          /\ e \in Reviews => e \in saved.seen
                          /\ e \in Commands => saved.applied[e] = 1 \/ e \in answered

\* The sweeps have looked so far back that nothing lies between the last good
\* one and the floor of the next.
SweepsSound ==
  /\ clock \in Window .. MaxTime /\ swept \in Window .. clock
  /\ clock + Overlap <= swept + Window
  /\ \A f \in Surfaces : saved.safe[f] = Never \/ saved.safe[f] <= clock
  /\ \A e \in Events : /\ made[e] + Overlap < swept => e \in Known(saved) \union missed
                       /\ saved.safe[SurfaceOf(e)] # Never /\ made[e] + Overlap < saved.safe[SurfaceOf(e)]
                            => e \in Known(saved) \union missed
                       /\ live[e] = "gone" => e \in Known(saved) \union missed

Inv == Typed /\ EventsSound /\ EffectsSound /\ MissingSound /\ ClosedSound /\ SweepsSound

-----------------------------------------------------------------------------
(* Constants and rows *)

LEMMA Bounds == /\ {Overlap, MissingAfter, Correlation, Window, Retention, MaxTime, MaxEvents, MaxFaults, MaxReruns} \subseteq Nat
                /\ Correlation < MissingAfter
                /\ Overlap \in Nat \ {0} /\ Overlap <= MissingAfter /\ MissingAfter <= Window /\ Window <= MaxTime
                /\ Never \in Nat /\ Never = MaxTime + 1
  BY DeferredAssumption DEF DeferredAssumption, Never

LEMMA Kinds == /\ Comments \subseteq Events /\ Commands \subseteq Events /\ Reviews \subseteq Events
               /\ Comments \intersect Commands = {} /\ Comments \intersect Reviews = {}
               /\ Commands \intersect Reviews = {}
  BY DeferredAssumption DEF DeferredAssumption, Events

LEMMA GapSetsHave == ASSUME NEW g \in GapSets
                     PROVE  /\ DOMAIN g \subseteq Events /\ g \in [DOMAIN g -> Mark]
                            /\ \A k \in DOMAIN g : g[k] \in Mark
  BY DEF GapSets

LEMMA GapSetsFrom == ASSUME NEW D \in SUBSET Events, NEW g \in [D -> Mark]
                     PROVE  g \in GapSets
  BY DEF GapSets

LEMMA GapRow ==
  ASSUME NEW s \in Rows, NEW e \in Events, NEW r \in Reasons
  PROVE  LET t == Gap(s, e, r) IN
         /\ t \in Rows /\ t.seen = s.seen /\ t.closed = s.closed /\ t.receipts = s.receipts
         /\ t.applied = s.applied /\ t.safe = s.safe
         /\ DOMAIN t.gaps = DOMAIN s.gaps \union {e}
         /\ t.gaps[e].reason = r /\ \A k \in DOMAIN s.gaps \ {e} : t.gaps[k] = s.gaps[k]
<1> DEFINE scanned == e \in DOMAIN s.gaps /\ s.gaps[e].scanned
           D == DOMAIN s.gaps \union {e}
           g == [k \in D |-> IF k = e THEN [reason |-> r, scanned |-> scanned] ELSE s.gaps[k]]
<1>1. Gap(s, e, r) = [s EXCEPT !.gaps = g] BY DEF Gap
<1>2. s.gaps \in GapSets BY DEF Rows
<1>3. DOMAIN s.gaps \subseteq Events /\ \A k \in DOMAIN s.gaps : s.gaps[k] \in Mark
  BY <1>2, GapSetsHave
<1>4. scanned \in BOOLEAN BY <1>3 DEF Mark
<1>5. g \in [D -> Mark] /\ D \in SUBSET Events
  <2>1. [reason |-> r, scanned |-> scanned] \in Mark BY <1>4 DEF Mark
  <2> HIDE DEF scanned
  <2> QED BY <1>3, <2>1
<1>6. g \in GapSets BY <1>5, GapSetsFrom
<1>7. /\ DOMAIN g = D /\ g[e].reason = r
      /\ \A k \in DOMAIN s.gaps \ {e} : g[k] = s.gaps[k]
  OBVIOUS
<1> HIDE DEF g, D
<1> QED BY <1>1, <1>6, <1>7 DEF Rows, D

LEMMA SeeRow ==
  ASSUME NEW s \in Rows, NEW e \in Events
  PROVE  LET t == See(s, e) IN
         /\ t \in Rows /\ t.seen = s.seen \union {e} /\ t.closed = s.closed /\ t.receipts = s.receipts
         /\ t.applied = s.applied /\ t.safe = s.safe /\ t.gaps = s.gaps
  BY DEF See, Rows

LEMMA CloseRow ==
  ASSUME NEW s \in Rows, NEW e \in Events
  PROVE  LET t == Close(s, e) IN
         /\ t \in Rows /\ t.seen = s.seen /\ t.closed = s.closed \union {e} /\ t.receipts = s.receipts
         /\ t.applied = s.applied /\ t.safe = s.safe
         /\ DOMAIN t.gaps = DOMAIN s.gaps \ {e}
         /\ \A k \in DOMAIN s.gaps \ {e} : t.gaps[k] = s.gaps[k]
<1> DEFINE D == DOMAIN s.gaps \ {e}
           g == [k \in D |-> s.gaps[k]]
<1> DEFINE c == [s EXCEPT !.gaps = g]
<1>1. Close(s, e) = [c EXCEPT !.closed = @ \union {e}]
  BY DEF Close, Cleared, Restrict
<1>2. s.gaps \in GapSets BY DEF Rows
<1>3. g \in [D -> Mark] /\ D \in SUBSET Events BY <1>2, GapSetsHave
<1>4. g \in GapSets BY <1>3, GapSetsFrom
<1>5. DOMAIN g = D /\ \A k \in D : g[k] = s.gaps[k] OBVIOUS
<1> HIDE DEF g, D
<1>6. /\ c \in Rows /\ c.gaps = g /\ c.seen = s.seen /\ c.closed = s.closed
      /\ c.receipts = s.receipts /\ c.applied = s.applied /\ c.safe = s.safe
  BY <1>4 DEF Rows
<1> HIDE DEF c
<1>7. LET t == [c EXCEPT !.closed = @ \union {e}] IN
      /\ t \in Rows /\ t.gaps = c.gaps /\ t.seen = c.seen /\ t.closed = c.closed \union {e}
      /\ t.receipts = c.receipts /\ t.applied = c.applied /\ t.safe = c.safe
  BY <1>6 DEF Rows
<1> QED BY <1>1, <1>5, <1>6, <1>7 DEF D

\* A command that changes the state, and its receipt.
Effect(s, c) == [s EXCEPT !.applied[c] = @ + 1, !.receipts = @ \union {c}]

LEMMA AppliedRow ==
  ASSUME NEW s \in Rows, NEW c \in Commands
  PROVE  LET t == [s EXCEPT !.applied[c] = @ + 1] IN
         /\ t \in Rows /\ t.seen = s.seen /\ t.closed = s.closed /\ t.receipts = s.receipts
         /\ t.applied[c] = s.applied[c] + 1 /\ t.safe = s.safe /\ t.gaps = s.gaps
         /\ \A k \in Commands \ {c} : t.applied[k] = s.applied[k]
<1>1. s.applied \in [Commands -> Nat] BY DEF Rows
<1> DEFINE a == [s.applied EXCEPT ![c] = @ + 1]
<1>2. /\ a \in [Commands -> Nat] /\ a[c] = s.applied[c] + 1
      /\ \A k \in Commands \ {c} : a[k] = s.applied[k]
  BY <1>1
<1>3. [s EXCEPT !.applied[c] = @ + 1] = [s EXCEPT !.applied = a] OBVIOUS
<1> HIDE DEF a
<1> QED BY <1>2, <1>3 DEF Rows

LEMMA EffectRow ==
  ASSUME NEW s \in Rows, NEW c \in Commands
  PROVE  LET t == Effect(s, c) IN
         /\ t \in Rows /\ t.seen = s.seen /\ t.closed = s.closed
         /\ t.receipts = s.receipts \union {c}
         /\ t.applied[c] = s.applied[c] + 1 /\ t.safe = s.safe /\ t.gaps = s.gaps
         /\ \A k \in Commands \ {c} : t.applied[k] = s.applied[k]
<1> DEFINE b == [s EXCEPT !.applied[c] = @ + 1]
<1>1. /\ b \in Rows /\ b.seen = s.seen /\ b.closed = s.closed /\ b.receipts = s.receipts
      /\ b.applied[c] = s.applied[c] + 1 /\ b.safe = s.safe /\ b.gaps = s.gaps
      /\ \A k \in Commands \ {c} : b.applied[k] = s.applied[k]
  BY AppliedRow
<1>2. Effect(s, c) = [b EXCEPT !.receipts = s.receipts \union {c}] BY DEF Effect
<1> HIDE DEF b
<1>3. s.receipts \union {c} \in SUBSET Commands BY DEF Rows
<1> QED BY <1>1, <1>2, <1>3 DEF Rows

-----------------------------------------------------------------------------
(* What a reconcile run may make of the row *)

Fit(e) == run[e] = "good" /\ artifact[e].version = 3 /\ Aspects \ {"told"} \subseteq artifact[e].right

\* The outcomes of Replayed.
Outcome(s, t, e, fails, does) ==
  \/ t = s
  \/ \E r \in Reasons \ {"observer_run_missing"} : t = Gap(s, e, r)
  \/ Fit(e) /\ e \in Comments /\ t = See(s, e)
  \/ Fit(e) /\ e \notin Commands /\ t = Failed(See(s, e), e)
  \/ Fit(e) /\ e \in Reviews /\ t = Close(See(s, e), e)
  \/ Fit(e) /\ e \in Commands /\ e \in s.receipts /\ t = Close(s, e)
  \/ Fit(e) /\ e \in Commands /\ Executes(e, fails) /\ does = "answers" /\ t = Close(s, e)
  \/ Fit(e) /\ e \in Commands \ s.receipts /\ t = Effect(s, e)

LEMMA Fitting ==
  ASSUME Typed, NEW e \in Events, run[e] = "good", Parsed(e), Admitted(artifact[e]), OfRun(artifact[e])
  PROVE  Fit(e)
<1>1. artifact[e].version = 3 /\ "source" \in artifact[e].right
  <2>1. Authority(artifact[e]) = "trusted_exact_identity" BY DEF Admitted
  <2>2. artifact[e] \in Artifacts
    BY DeferredAssumption DEF Typed, DeferredAssumption, Exact, Artifacts, Versions
  <2>3. artifact[e].version \in {2, 3} BY <2>2 DEF Artifacts, Versions
  <2> QED BY <2>1, <2>3 DEF Authority
<1>2. {"fits", "complete", "keyed"} \subseteq artifact[e].right
  BY <1>1 DEF Parsed, Parses, Identified, Complete, Keyed
<1>3. "attempt" \in artifact[e].right BY DEF OfRun
<1> QED BY <1>1, <1>2, <1>3 DEF Fit, Aspects

LEMMA ReasonsHave == {"reconcile_failed_closed", "artifact", "observer_failed"} \subseteq Reasons \ {"observer_run_missing"}
  BY DEF Reasons

LEMMA HandledOutcome ==
  ASSUME Typed, NEW e \in Events, NEW fails, NEW does \in Outcomes,
         run[e] = "good", Loaded(e), Parsed(e), Admitted(artifact[e]), "pr" \notin fails
  PROVE  Outcome(saved, Handled(saved, e, "event" \notin fails, does), e, fails, does)
<1> DEFINE t == Handled(saved, e, "event" \notin fails, does)
<1>1. t = Failed(saved, e) => Outcome(saved, t, e, fails, does)
  BY ReasonsHave DEF Outcome, Failed
<1>2. CASE ~OfRun(artifact[e])
  BY <1>1, <1>2 DEF Handled
<1>3. CASE OfRun(artifact[e])
  <2>1. Fit(e) BY <1>3, Fitting
  <2>2. CASE e \in Comments
    <3>1. t = CommentReplayed(saved, e, "event" \notin fails) BY <1>3, <2>2, Kinds DEF Handled
    <3>2. t = See(saved, e) \/ t = Failed(See(saved, e), e) BY <3>1 DEF CommentReplayed
    <3> QED BY <2>1, <2>2, <3>2, Kinds DEF Outcome
  <2>3. CASE e \in Commands
    <3>1. t = CommandReplayed(saved, e, "event" \notin fails, does)
      BY <1>3, <2>3, Kinds DEF Handled
    <3>2. CASE "event" \in fails \/ live[e] # "same"
      <4>1. t = Failed(saved, e) BY <3>1, <3>2 DEF CommandReplayed
      <4> QED BY <4>1, <1>1
    <3>3. CASE "event" \notin fails /\ live[e] = "same" /\ e \in saved.receipts
      <4>1. t = Close(saved, e) BY <3>1, <3>3 DEF CommandReplayed
      <4> QED BY <4>1, <2>1, <2>3, <3>3 DEF Outcome
    <3>4. CASE "event" \notin fails /\ live[e] = "same" /\ e \notin saved.receipts
      <4>1. t = CASE does = "changes" -> Effect(saved, e)
                  [] does = "answers" -> Close(saved, e)
                  [] OTHER -> Failed(saved, e)
        BY <3>1, <3>4 DEF CommandReplayed, Effect
      <4>2. CASE does = "changes"
        <5>1. t = Effect(saved, e) BY <4>1, <4>2
        <5> QED BY <5>1, <2>1, <2>3, <3>4 DEF Outcome
      <4>3. CASE does = "answers"
        <5>1. t = Close(saved, e) BY <4>1, <4>3
        <5>2. Executes(e, fails) BY <1>3, <2>3, <3>4 DEF Executes
        <5> QED BY <5>1, <5>2, <2>1, <2>3, <4>3 DEF Outcome
      <4>4. CASE does = "breaks"
        <5>1. t = Failed(saved, e) BY <4>1, <4>4
        <5> QED BY <5>1, <1>1
      <4> QED BY <4>2, <4>3, <4>4 DEF Outcomes
    <3> QED BY <3>2, <3>3, <3>4
  <2>4. CASE e \in Reviews
    <3>1. t = ReviewReplayed(saved, e, "event" \notin fails) BY <1>3, <2>4, Kinds DEF Handled
    <3>2. t \in {Failed(saved, e), Close(See(saved, e), e), Failed(See(saved, e), e)}
      BY <3>1 DEF ReviewReplayed
    <3> QED BY <1>1, <2>1, <2>4, <3>2, Kinds DEF Outcome
  <2> QED BY <2>2, <2>3, <2>4 DEF Events
<1> QED BY <1>2, <1>3

LEMMA ReplayedOutcome ==
  ASSUME Typed, NEW e \in Events, NEW fails, NEW does \in Outcomes
  PROVE  Outcome(saved, Replayed(saved, e, fails, does), e, fails, does)
<1> DEFINE t == Replayed(saved, e, fails, does)
<1>1. t = saved \/ t = Failed(saved, e) \/ t = Gap(saved, e, "artifact") \/ t = Gap(saved, e, "observer_failed")
      => Outcome(saved, t, e, fails, does)
  BY ReasonsHave DEF Outcome, Failed
<1>2. CASE ~Loaded(e)
  <2>1. t = saved BY <1>2 DEF Replayed
  <2> QED BY <1>1, <2>1
<1>3. CASE Loaded(e) /\ run[e] = "failed"
  <2>1. t = NotSuccess(saved, e) BY <1>3 DEF Replayed
  <2>2. t \in {saved, Gap(saved, e, "observer_failed")} BY <2>1 DEF NotSuccess
  <2> QED BY <1>1, <2>2
<1>4. CASE Loaded(e) /\ run[e] = "good" /\ ~Parsed(e)
  <2>1. t = NotParsed(saved, e, fails) BY <1>4 DEF Replayed
  <2>2. t \in {saved, Failed(saved, e), Gap(saved, e, "artifact")} BY <2>1 DEF NotParsed
  <2> QED BY <1>1, <2>2
<1>5. CASE Loaded(e) /\ run[e] = "good" /\ Parsed(e)
  <2>1. t = CASE "pr" \in fails -> Failed(saved, e)
              [] "pr" \notin fails /\ ~Admitted(artifact[e]) -> Gap(saved, e, "artifact")
              [] OTHER -> Handled(saved, e, "event" \notin fails, does)
    BY <1>5 DEF Replayed
  <2>2. CASE "pr" \in fails
    BY <1>1, <2>1, <2>2
  <2>3. CASE "pr" \notin fails /\ ~Admitted(artifact[e])
    BY <1>1, <2>1, <2>3
  <2>4. CASE "pr" \notin fails /\ Admitted(artifact[e])
    <3>1. t = Handled(saved, e, "event" \notin fails, does) BY <2>1, <2>4
    <3> QED BY <3>1, <1>5, <2>4, HandledOutcome
  <2> QED BY <2>2, <2>3, <2>4
<1> QED BY <1>2, <1>3, <1>4, <1>5 DEF Loaded

\* What becomes of the row s and of the event e in it.
RowStep(s, t, e) ==
  /\ t \in Rows /\ t.safe = s.safe /\ Known(s) \subseteq Known(t)
  /\ s.seen \subseteq t.seen /\ t.seen \subseteq s.seen \union {e}
  /\ s.closed \subseteq t.closed /\ t.closed \subseteq s.closed \union {e}
  /\ s.receipts \subseteq t.receipts /\ t.receipts \subseteq s.receipts \union {e}
  /\ \A c \in Commands \ {e} : t.applied[c] = s.applied[c]
  /\ \A k \in DOMAIN t.gaps : t.gaps[k].reason = "observer_run_missing" =>
       k \in DOMAIN s.gaps /\ s.gaps[k].reason = "observer_run_missing"

\* How an event is taken in, and done.
Done(s, t, e, fails, does) ==
  /\ e \in Commands => \/ t.applied[e] = s.applied[e] /\ t.receipts = s.receipts
                       \/ e \notin s.receipts /\ e \in t.receipts /\ t.applied[e] = s.applied[e] + 1
  /\ e \in t.closed \ s.closed =>
       /\ e \notin Comments /\ (e \in Reviews => e \in t.seen)
       /\ e \in Commands => e \in s.receipts \/ (Executes(e, fails) /\ does = "answers")
  /\ \/ t.seen = s.seen /\ t.closed = s.closed /\ t.applied = s.applied
     \/ Fit(e)

LEMMA OutcomeStep ==
  ASSUME NEW s \in Rows, NEW e \in Events, NEW t, NEW fails, NEW does,
         Outcome(s, t, e, fails, does)
  PROVE  RowStep(s, t, e) /\ Done(s, t, e, fails, does)
<1>1. CASE t = s
  BY <1>1 DEF RowStep, Done
<1>2. ASSUME NEW r \in Reasons \ {"observer_run_missing"}, t = Gap(s, e, r)
      PROVE  RowStep(s, t, e) /\ Done(s, t, e, fails, does)
  BY <1>2, GapRow DEF RowStep, Done, Known
<1>3. CASE Fit(e) /\ e \in Comments /\ t = See(s, e)
  BY <1>3, SeeRow, Kinds DEF RowStep, Done, Known
<1>4. CASE Fit(e) /\ e \notin Commands /\ t = Failed(See(s, e), e)
  <2> DEFINE u == See(s, e)
  <2>1. u \in Rows /\ u.seen = s.seen \union {e} /\ u.closed = s.closed /\ u.receipts = s.receipts
        /\ u.applied = s.applied /\ u.safe = s.safe /\ u.gaps = s.gaps
    BY SeeRow
  <2>2. t = Gap(u, e, "reconcile_failed_closed") BY <1>4 DEF Failed
  <2> HIDE DEF u
  <2>3. /\ t \in Rows /\ t.seen = s.seen \union {e} /\ t.closed = s.closed /\ t.receipts = s.receipts
        /\ t.applied = s.applied /\ t.safe = s.safe /\ DOMAIN t.gaps = DOMAIN s.gaps \union {e}
        /\ t.gaps[e].reason = "reconcile_failed_closed"
        /\ \A k \in DOMAIN s.gaps \ {e} : t.gaps[k] = s.gaps[k]
    <3>1. "reconcile_failed_closed" \in Reasons BY DEF Reasons
    <3> QED BY <2>1, <2>2, <3>1, GapRow
  <2> QED BY <1>4, <2>3 DEF RowStep, Done, Known
<1>5. CASE Fit(e) /\ e \in Reviews /\ t = Close(See(s, e), e)
  <2> DEFINE u == See(s, e)
  <2>1. u \in Rows /\ u.seen = s.seen \union {e} /\ u.closed = s.closed /\ u.receipts = s.receipts
        /\ u.applied = s.applied /\ u.safe = s.safe /\ u.gaps = s.gaps
    BY SeeRow
  <2>2. t = Close(u, e) BY <1>5
  <2> HIDE DEF u
  <2> QED BY <1>5, <2>1, <2>2, CloseRow, Kinds DEF RowStep, Done, Known
<1>6. CASE Fit(e) /\ e \in Commands /\ e \in s.receipts /\ t = Close(s, e)
  BY <1>6, CloseRow, Kinds DEF RowStep, Done, Known
<1>7. CASE Fit(e) /\ e \in Commands /\ Executes(e, fails) /\ does = "answers" /\ t = Close(s, e)
  BY <1>7, CloseRow, Kinds DEF RowStep, Done, Known
<1>8. CASE Fit(e) /\ e \in Commands \ s.receipts /\ t = Effect(s, e)
  BY <1>8, EffectRow DEF RowStep, Done, Known
<1> QED BY <1>1, <1>2, <1>3, <1>4, <1>5, <1>6, <1>7, <1>8 DEF Outcome

-----------------------------------------------------------------------------
(* What a sweep makes of it *)

LEMMA Greatest ==
  ASSUME NEW n \in Nat, NEW S \in SUBSET (0 .. n), S # {}
  PROVE  \E t \in S : \A x \in S : x <= t
<1> DEFINE R == {ss \in Nat \X Nat : ss[1] < ss[2]}
           T == {x \in Nat : n - x \in S}
<1>1. IsWellFoundedOn(R, Nat)
  BY NatLessThanWellFounded DEF OpToRel
<1>2. T \subseteq Nat /\ T # {}
  <2>1. PICK x \in S : TRUE OBVIOUS
  <2>2. x \in 0 .. n /\ n - (n - x) = x OBVIOUS
  <2>3. n - x \in T BY <2>1, <2>2
  <2> QED BY <2>3
<1>3. PICK y \in T : \A z \in T : ~(<<z, y>> \in R)
  <2> HIDE DEF T, R
  <2> QED BY <1>1, <1>2, WFMin
<1>4. n - y \in S /\ y \in Nat BY <1>3
<1>5. \A x \in S : x <= n - y
  <2> SUFFICES ASSUME NEW x \in S, x > n - y PROVE FALSE BY <1>4
  <2>1. x \in 0 .. n /\ n - (n - x) = x OBVIOUS
  <2>2. n - x \in T /\ n - x < y BY <2>1, <1>4
  <2>3. <<n - x, y>> \in R BY <2>2, <1>4, <2>1
  <2> QED BY <1>3, <2>2, <2>3
<1> QED BY <1>4, <1>5

Listed(s, fails) == UNION {Discovered(s, f) : f \in Surfaces \ fails}

\* What the sweeper finds when it calls a run missing.
TooLate(e) == /\ run[e] = "none" \/ ~(started[e] <= made[e] + Correlation)
              /\ clock >= made[e] + MissingAfter

LEMMA ReasonMissing ==
  ASSUME NEW s, NEW e, NEW readable \in BOOLEAN
  PROVE  /\ Reason(s, e, readable) \in Reasons
         /\ Reason(s, e, readable) = "observer_run_missing" =>
              /\ run[e] = "none" \/ ~(started[e] <= made[e] + Correlation)
              /\ clock >= made[e] + MissingAfter
  BY DEF Reason, Reasons, Waiting, RunMissing, Correlated

LEMMA SweptRow ==
  ASSUME NEW s \in Rows, NEW fails, clock \in Nat, shown \subseteq Events,
         \A e \in shown : made[e] \in 0 .. clock, clock <= MaxTime
  PROVE  LET t == Swept(s, fails) IN
         /\ t \in Rows /\ t.seen = s.seen /\ t.closed = s.closed
         /\ t.receipts = s.receipts /\ t.applied = s.applied
         /\ Known(s) \subseteq Known(t) /\ Listed(s, fails) \subseteq Known(t)
         /\ \A k \in DOMAIN t.gaps : t.gaps[k].reason = "observer_run_missing" =>
              \/ k \in DOMAIN s.gaps /\ s.gaps[k].reason = "observer_run_missing"
              \/ k \in shown /\ TooLate(k)
         /\ \A f \in Surfaces :
              \/ t.safe[f] = s.safe[f]
              \/ f \notin fails /\ t.safe[f] \in 0 .. clock
                 /\ \E e \in Discovered(s, f) : t.safe[f] = made[e]
<1> DEFINE surfaces == Surfaces \ fails
           noted == {e \in Listed(s, fails) : ~Skipped(s, e)}
           newest(f) == CHOOSE t \in {made[e] : e \in Discovered(s, f)} :
                          \A e \in Discovered(s, f) : made[e] <= t
           D == DOMAIN s.gaps \union noted
           mark(e) == [reason |-> Reason(s, e, "runs" \notin fails), scanned |-> "runs" \notin fails]
           g == [e \in D |-> IF e \in noted THEN mark(e) ELSE s.gaps[e]]
           w == [f \in Surfaces |-> IF f \in surfaces /\ Discovered(s, f) # {} THEN newest(f) ELSE s.safe[f]]
<1>1. Swept(s, fails) = [s EXCEPT !.gaps = g, !.safe = w]
  BY DEF Swept, Listed
<1>2. Listed(s, fails) \subseteq shown BY DEF Listed, Discovered
<1>3. s.gaps \in GapSets /\ DOMAIN s.gaps \subseteq Events /\ \A k \in DOMAIN s.gaps : s.gaps[k] \in Mark
  BY GapSetsHave DEF Rows
<1>4. \A e : mark(e) \in Mark
  <2> TAKE e
  <2>1. Reason(s, e, "runs" \notin fails) \in Reasons BY ReasonMissing
  <2> QED BY <2>1 DEF Mark
<1>5. g \in GapSets
  <2>1. D \in SUBSET Events BY <1>2, <1>3
  <2>2. g \in [D -> Mark]
    <3> HIDE DEF noted, mark
    <3> QED BY <1>3, <1>4
  <2> HIDE DEF g, D
  <2> QED BY <2>1, <2>2, GapSetsFrom
<1>6. ASSUME NEW f \in Surfaces, Discovered(s, f) # {}
      PROVE  newest(f) \in 0 .. clock /\ \E e \in Discovered(s, f) : newest(f) = made[e]
  <2> DEFINE S == {made[e] : e \in Discovered(s, f)}
  <2>1. S \in SUBSET (0 .. clock) /\ S # {} BY <1>6 DEF Discovered
  <2>2. \E t \in S : \A x \in S : x <= t
    <3> HIDE DEF S
    <3> QED BY <2>1, Greatest
  <2>3. \E t \in S : \A e \in Discovered(s, f) : made[e] <= t BY <2>2
  <2>4. newest(f) \in S BY <2>3
  <2> QED BY <2>1, <2>4
<1>7. \A f \in Surfaces :
        \/ w[f] = s.safe[f]
        \/ f \notin fails /\ w[f] \in 0 .. clock /\ \E e \in Discovered(s, f) : w[f] = made[e]
  <2> HIDE DEF newest
  <2> QED BY <1>6
<1>8. w \in [Surfaces -> 0 .. Never]
  <2>1. \A f \in Surfaces : w[f] \in 0 .. Never
    <3>1. s.safe \in [Surfaces -> 0 .. Never] BY DEF Rows
    <3> HIDE DEF w
    <3> QED BY <1>7, <3>1, Bounds
  <2> QED BY <2>1
<1>9. /\ DOMAIN g = DOMAIN s.gaps \union noted
      /\ \A k \in DOMAIN g : g[k].reason = "observer_run_missing" =>
              \/ k \in DOMAIN s.gaps /\ s.gaps[k].reason = "observer_run_missing"
              \/ k \in shown /\ TooLate(k)
  <2> SUFFICES ASSUME NEW k \in DOMAIN g, g[k].reason = "observer_run_missing", k \in noted
               PROVE  k \in shown /\ TooLate(k)
    OBVIOUS
  <2>1. Reason(s, k, "runs" \notin fails) = "observer_run_missing" OBVIOUS
  <2> QED BY <2>1, <1>2, ReasonMissing DEF TooLate
<1>10. Listed(s, fails) \subseteq s.seen \union s.closed \union DOMAIN s.gaps \union noted
  BY DEF Skipped
<1> HIDE DEF g, w, noted
<1> DEFINE b == [s EXCEPT !.gaps = g]
<1>11. b \in Rows /\ b.gaps = g /\ b.seen = s.seen /\ b.closed = s.closed
       /\ b.receipts = s.receipts /\ b.applied = s.applied
  BY <1>5 DEF Rows
<1> HIDE DEF b
<1>12. LET t == [b EXCEPT !.safe = w] IN
       /\ t \in Rows /\ t.gaps = b.gaps /\ t.seen = b.seen /\ t.closed = b.closed
       /\ t.receipts = b.receipts /\ t.applied = b.applied /\ t.safe = w
  BY <1>8, <1>11 DEF Rows
<1>13. Swept(s, fails) = [b EXCEPT !.safe = w] BY <1>1 DEF b
<1> QED BY <1>7, <1>9, <1>10, <1>11, <1>12, <1>13 DEF Known

-----------------------------------------------------------------------------
(* Every step keeps the invariant *)

LEMMA Faults ==
  ASSUME Typed, NEW S, IsFiniteSet(S), Fail(S)
  PROVE  faults' \in 0 .. MaxFaults
<1>1. Cardinality(S) \in Nat BY FS_CardinalityType
<1>2. faults \in Nat /\ MaxFaults \in Nat BY Bounds DEF Typed
<1> QED BY <1>1, <1>2 DEF Fail

LEMMA FailSets ==
  ASSUME NEW S, S \in SUBSET {"save"} \/ S \in SUBSET {"pr", "event", "save"}
                  \/ S \in SUBSET {"comments", "reviews", "runs", "save"}
  PROVE  IsFiniteSet(S)
<1>1. IsFiniteSet({"save"}) BY FS_Singleton
<1>2. IsFiniteSet({"save"} \union {"event"}) BY <1>1, FS_AddElement
<1>3. IsFiniteSet({"save"} \union {"event"} \union {"pr"}) BY <1>2, FS_AddElement
<1>4. IsFiniteSet({"save"} \union {"runs"}) BY <1>1, FS_AddElement
<1>5. IsFiniteSet({"save"} \union {"runs"} \union {"reviews"}) BY <1>4, FS_AddElement
<1>6. IsFiniteSet({"save"} \union {"runs"} \union {"reviews"} \union {"comments"}) BY <1>5, FS_AddElement
<1>7. /\ {"pr", "event", "save"} = {"save"} \union {"event"} \union {"pr"}
      /\ {"comments", "reviews", "runs", "save"} = {"save"} \union {"runs"} \union {"reviews"} \union {"comments"}
  OBVIOUS
<1> QED BY <1>1, <1>3, <1>6, <1>7, FS_Subset

LEMMA Inits == Init => Inv
<1> SUFFICES ASSUME Init PROVE Inv OBVIOUS
<1>1. <<>> \in GapSets
  <2>1. <<>> \in [{} -> Mark] OBVIOUS
  <2> QED BY <2>1, GapSetsFrom
<1>2. saved \in Rows /\ saved.gaps = <<>> /\ saved.closed = {} /\ saved.receipts = {}
      /\ saved.applied = [c \in Commands |-> 0] /\ saved.safe = [f \in Surfaces |-> Never]
  BY <1>1, Bounds DEF Init, Rows
<1>3. Typed BY <1>2, Bounds DEF Init, Typed, RunStates
<1>4. DOMAIN saved.gaps = {} BY <1>2
<1>5. EventsSound /\ EffectsSound /\ MissingSound /\ ClosedSound
  BY <1>2, <1>4, Bounds DEF Init, EventsSound, EffectsSound, MissingSound, ClosedSound
<1>6. \A e \in Events : made[e] = Never /\ SurfaceOf(e) \in Surfaces
  BY DEF Init, SurfaceOf, Surfaces
<1>7. SweepsSound
  BY <1>2, <1>6, Bounds DEF Init, SweepsSound
<1> QED BY <1>3, <1>5, <1>7 DEF Inv

\* Steps of GitHub and of people.
LEMMA TickStep == ASSUME Inv, Tick PROVE Inv'
<1>1. Typed' BY Bounds DEF Inv, Typed, Tick
<1>2. EventsSound' BY Bounds DEF Inv, Typed, EventsSound, Tick
<1>3. EffectsSound' /\ ClosedSound' BY DEF Inv, EffectsSound, ClosedSound, Tick
<1>4. MissingSound'
  <2>1. DOMAIN saved.gaps \subseteq Events BY GapSetsHave DEF Inv, Typed, Rows
  <2> QED BY <2>1, Bounds DEF Inv, Typed, MissingSound, Tick
<1>5. SweepsSound' BY Bounds DEF Inv, Typed, Rows, SweepsSound, Known, Tick
<1> QED BY <1>1, <1>2, <1>3, <1>4, <1>5 DEF Inv

LEMMA EventTypes ==
  ASSUME Inv
  PROVE  /\ \A e \in Events : made[e] \in 0 .. Never /\ made[e] \in Nat /\ SurfaceOf(e) \in Surfaces
         /\ clock \in Nat /\ clock < Never
         /\ DOMAIN saved.gaps \subseteq Events
  BY GapSetsHave, Bounds DEF Inv, Typed, Rows, SweepsSound, SurfaceOf, Surfaces

LEMMA OccurStep == ASSUME Inv, NEW e \in Events, Occur(e) PROVE Inv'
<1>1. made[e] = Never /\ made' = [made EXCEPT ![e] = clock]
      /\ UNCHANGED <<clock, shown, live, run, started, artifact, due, saved, swept, faults, reruns, answered, missed>>
  BY DEF Occur, Happen
<1>2. Typed' BY <1>1, Bounds, EventTypes DEF Inv, Typed
<1>3. EventsSound' BY <1>1, Bounds, EventTypes DEF Inv, Typed, EventsSound
<1>4. EffectsSound' /\ ClosedSound' BY <1>1 DEF Inv, EffectsSound, ClosedSound
<1>5. MissingSound' BY <1>1, EventTypes, Bounds DEF Inv, Typed, MissingSound
<1>6. SweepsSound' BY <1>1, Bounds, EventTypes DEF Inv, Typed, Rows, SweepsSound, Known
<1> QED BY <1>2, <1>3, <1>4, <1>5, <1>6 DEF Inv

LEMMA StillSweeps == ASSUME Inv, UNCHANGED <<clock, made, live, saved, swept, missed>>
                     PROVE  SweepsSound'
  BY DEF Inv, SweepsSound, Known

LEMMA AppearStep == ASSUME Inv, NEW e \in Events, Appear(e) PROVE Inv'
<1>1. /\ made[e] # Never /\ shown' = shown \union {e}
      /\ UNCHANGED <<clock, made, live, run, started, artifact, due, saved, swept, faults, reruns, answered, missed>>
  BY DEF Appear
<1>2. Typed' BY <1>1 DEF Inv, Typed
<1>3. EventsSound' BY <1>1 DEF Inv, EventsSound
<1>4. EffectsSound' /\ MissingSound' /\ ClosedSound'
  BY <1>1 DEF Inv, EffectsSound, MissingSound, ClosedSound
<1>5. SweepsSound' BY <1>1, StillSweeps
<1> QED BY <1>2, <1>3, <1>4, <1>5 DEF Inv

LEMMA FadeStep == ASSUME Inv, NEW e \in Events, Fade(e) PROVE Inv'
<1>1. PICK l \in {"other", "gone"} :
        /\ live' = [live EXCEPT ![e] = l]
        /\ missed' = IF l = "gone" /\ e \notin Known(saved) THEN missed \union {e} ELSE missed
  BY DEF Fade
<1>2. Fail({e}) /\ UNCHANGED <<clock, made, shown, run, started, artifact, due, saved, swept, reruns, answered>>
  BY DEF Fade
<1>3. faults' \in 0 .. MaxFaults BY <1>2, FS_Singleton, Faults DEF Inv
<1>4. missed \subseteq missed' /\ missed' \subseteq Events BY <1>1 DEF Inv, Typed
<1>5. Typed' BY <1>1, <1>2, <1>3, <1>4 DEF Inv, Typed
<1>6. EventsSound' BY <1>2 DEF Inv, EventsSound
<1>7. EffectsSound' /\ MissingSound' /\ ClosedSound'
  BY <1>2 DEF Inv, EffectsSound, MissingSound, ClosedSound
<1>8. \A k \in Events : live'[k] = "gone" => k \in Known(saved) \union missed'
  <2> SUFFICES ASSUME NEW k \in Events, live'[k] = "gone" PROVE k \in Known(saved) \union missed'
    OBVIOUS
  <2>1. CASE k # e
    <3>1. live[k] = "gone" BY <1>1, <2>1 DEF Inv, Typed
    <3> QED BY <1>4, <3>1 DEF Inv, SweepsSound
  <2>2. CASE k = e
    <3>1. l = "gone" BY <1>1, <2>2 DEF Inv, Typed
    <3> QED BY <1>1, <2>2, <3>1
  <2> QED BY <2>1, <2>2
<1>9. SweepsSound'
  <2>1. saved' = saved /\ Known(saved') = Known(saved) BY <1>2
  <2> QED BY <1>2, <1>4, <1>8, <2>1 DEF Inv, SweepsSound
<1> QED BY <1>5, <1>6, <1>7, <1>9 DEF Inv

LEMMA StartStep == ASSUME Inv, NEW e \in Events, Start(e) PROVE Inv'
<1>1. /\ run[e] = "none" /\ made[e] # Never /\ run' = [run EXCEPT ![e] = "waiting"]
      /\ started' = [started EXCEPT ![e] = clock]
      /\ Fail({k \in {e} : clock > made[k] + Correlation})
      /\ UNCHANGED <<clock, made, shown, live, artifact, due, saved, swept, reruns, answered, missed>>
  BY DEF Start
<1>2. faults' \in 0 .. MaxFaults
  <2>1. IsFiniteSet({k \in {e} : clock > made[k] + Correlation}) BY FS_Singleton, FS_Subset
  <2> QED BY <1>1, <2>1, Faults DEF Inv
<1>3. clock \in 0 .. Never BY EventTypes, Bounds
<1>4. Typed' BY <1>1, <1>2, <1>3 DEF Inv, Typed, RunStates
<1>5. EventsSound' BY <1>1, EventTypes DEF Inv, Typed, EventsSound
<1>6. \A k \in Events \ {e} : run'[k] = run[k] /\ started'[k] = started[k] BY <1>1 DEF Inv, Typed
<1>7. EffectsSound' BY <1>1, <1>6, Kinds DEF Inv, EffectsSound
<1>8. MissingSound'
  <2> SUFFICES ASSUME NEW k \in DOMAIN saved.gaps, saved.gaps[k].reason = "observer_run_missing"
               PROVE  made[k] + Correlation < clock
                      /\ (run'[k] = "none" \/ started'[k] > made[k] + Correlation)
    BY <1>1 DEF MissingSound
  <2>1. k \in Events BY EventTypes
  <2>2. made[k] + Correlation < clock /\ (run[k] = "none" \/ started[k] > made[k] + Correlation)
    BY DEF Inv, MissingSound
  <2>3. CASE k # e BY <1>6, <2>1, <2>2, <2>3
  <2>4. CASE k = e
    <3>1. started'[k] = clock BY <1>1, <2>4 DEF Inv, Typed
    <3> QED BY <2>1, <2>2, <2>4, <3>1, EventTypes, Bounds
  <2> QED BY <2>3, <2>4
<1>9. ClosedSound' BY <1>1 DEF Inv, ClosedSound
<1>10. SweepsSound' BY <1>1, StillSweeps
<1> QED BY <1>4, <1>5, <1>7, <1>8, <1>9, <1>10 DEF Inv

LEMMA EndStep == ASSUME Inv, NEW e \in Events, End(e) PROVE Inv'
<1>1. PICK r \in Over, a \in {Exact} \union Flawed :
        /\ run' = [run EXCEPT ![e] = r] /\ artifact' = [artifact EXCEPT ![e] = a]
        /\ Fail({a} \ {Exact})
        /\ due' = IF r = "empty" THEN due ELSE due \union {e}
  BY DEF End
<1>2. run[e] = "waiting" /\ UNCHANGED <<clock, made, shown, live, started, saved, swept, reruns, answered, missed>>
  BY DEF End
<1>3. faults' \in 0 .. MaxFaults
  <2>1. IsFiniteSet({a} \ {Exact}) BY FS_Singleton, FS_Subset
  <2> QED BY <1>1, <2>1, Faults DEF Inv
<1>4. Typed' BY <1>1, <1>2, <1>3 DEF Inv, Typed, RunStates
<1>5. \A k \in Events \ {e} : run'[k] = run[k] BY <1>1 DEF Inv, Typed
<1>6. EventsSound' BY <1>2, <1>5 DEF Inv, EventsSound
<1>7. EffectsSound' BY <1>2, <1>5, Kinds DEF Inv, EffectsSound
<1>8. MissingSound' BY <1>2, <1>5, EventTypes DEF Inv, MissingSound
<1>9. ClosedSound' BY <1>2 DEF Inv, ClosedSound
<1>10. SweepsSound' BY <1>2, StillSweeps
<1> QED BY <1>4, <1>6, <1>7, <1>8, <1>9, <1>10 DEF Inv

LEMMA RerunStep == ASSUME Inv, NEW e \in Events, Rerun(e) PROVE Inv'
<1>1. /\ reruns < MaxReruns /\ reruns' = reruns + 1 /\ due' = due \union {e}
      /\ UNCHANGED <<clock, made, shown, live, run, started, artifact, saved, swept, faults, answered, missed>>
  BY DEF Rerun
<1>2. Typed' BY <1>1, Bounds DEF Inv, Typed
<1>3. EventsSound' BY <1>1 DEF Inv, EventsSound
<1>4. EffectsSound' /\ MissingSound' /\ ClosedSound'
  BY <1>1 DEF Inv, EffectsSound, MissingSound, ClosedSound
<1>5. SweepsSound' BY <1>1, StillSweeps
<1> QED BY <1>2, <1>3, <1>4, <1>5 DEF Inv

\* Steps of the bot.
LEMMA DirectStep == ASSUME Inv, NEW e \in Events, NEW fails \in SUBSET {"save"}, Direct(e, fails)
                    PROVE  Inv'
<1>1. /\ e \notin Reviews /\ made[e] = Never /\ made' = [made EXCEPT ![e] = clock] /\ Fail(fails)
      /\ run' = [run EXCEPT ![e] = "empty"] /\ started' = [started EXCEPT ![e] = clock]
      /\ saved' = CASE "save" \in fails -> saved
                    [] "save" \notin fails /\ e \in Comments -> See(saved, e)
                    [] OTHER -> [saved EXCEPT !.applied[e] = @ + 1]
      /\ UNCHANGED <<clock, shown, live, artifact, due, swept, reruns, answered, missed>>
  BY DEF Direct, Happen
<1>2. run[e] = "none" /\ e \notin shown BY <1>1 DEF Inv, EventsSound
<1>3. e \in Commands => saved.applied[e] = 0 /\ e \notin saved.receipts
  BY <1>2 DEF Inv, EffectsSound
<1>4. saved \in Rows BY DEF Inv, Typed
<1>5. /\ saved' \in Rows /\ saved'.closed = saved.closed /\ saved'.receipts = saved.receipts
      /\ saved'.safe = saved.safe /\ saved'.gaps = saved.gaps /\ saved.seen \subseteq saved'.seen
      /\ \A c \in Commands \ {e} : saved'.applied[c] = saved.applied[c]
      /\ e \in Commands => saved'.applied[e] \in 0 .. 1
  <2>1. CASE "save" \in fails BY <1>1, <1>3, <1>4, <2>1
  <2>2. CASE "save" \notin fails /\ e \in Comments
    <3>1. saved' = See(saved, e) BY <1>1, <2>2
    <3> QED BY <1>4, <2>2, <3>1, SeeRow, Kinds
  <2>3. CASE "save" \notin fails /\ e \in Commands
    <3>1. saved' = [saved EXCEPT !.applied[e] = @ + 1] BY <1>1, <2>3, Kinds
    <3> QED BY <1>3, <1>4, <2>3, <3>1, AppliedRow
  <2> QED BY <1>1, <2>1, <2>2, <2>3 DEF Events
<1>6. faults' \in 0 .. MaxFaults BY <1>1, FailSets, Faults DEF Inv
<1>7. Typed' BY <1>1, <1>5, <1>6, Bounds, EventTypes DEF Inv, Typed, RunStates, Over
<1>8. /\ \A k \in Events \ {e} : run'[k] = run[k] /\ made'[k] = made[k] /\ started'[k] = started[k]
      /\ run'[e] = "empty" /\ made'[e] = clock
  BY <1>1 DEF Inv, Typed
<1>9. EventsSound' BY <1>1, <1>2, <1>8, EventTypes, Bounds DEF Inv, EventsSound
<1>10. EffectsSound' BY <1>3, <1>5, <1>8, Kinds DEF Inv, EffectsSound
<1>11. MissingSound'
  <2>1. e \in DOMAIN saved.gaps => saved.gaps[e].reason # "observer_run_missing"
    BY <1>1, EventTypes, Bounds DEF Inv, MissingSound
  <2> QED BY <1>1, <1>5, <1>8, <2>1, EventTypes DEF Inv, MissingSound
<1>12. ClosedSound'
  <2>1. \A c \in Commands : saved.applied[c] = 1 => saved'.applied[c] = 1 BY <1>3, <1>5
  <2> QED BY <1>1, <1>5, <2>1 DEF Inv, ClosedSound
<1>13. SweepsSound'
  <2>1. Known(saved) \subseteq Known(saved') BY <1>5 DEF Known
  <2>2. /\ clock \in Window .. MaxTime /\ swept \in Window .. clock
        /\ clock + Overlap <= swept + Window
        /\ \A f \in Surfaces : saved.safe[f] = Never \/ saved.safe[f] <= clock
    BY DEF Inv, SweepsSound
  <2>3. ASSUME NEW k \in Events
        PROVE  /\ made'[k] + Overlap < swept => k \in Known(saved') \union missed
               /\ saved.safe[SurfaceOf(k)] # Never /\ made'[k] + Overlap < saved.safe[SurfaceOf(k)]
                    => k \in Known(saved') \union missed
    <3>1. CASE k = e
      <4>1. made'[k] = clock /\ clock \in Nat /\ swept \in Nat BY <1>8, <2>2, <3>1, EventTypes, Bounds
      <4>2. saved.safe[SurfaceOf(k)] \in 0 .. Never BY <1>4, EventTypes DEF Rows
      <4>3. saved.safe[SurfaceOf(k)] = Never \/ saved.safe[SurfaceOf(k)] <= clock BY <2>2, EventTypes
      <4> QED BY <2>2, <4>1, <4>2, <4>3, Bounds
    <3>2. CASE k # e
      <4>1. made'[k] = made[k] BY <1>8, <3>2
      <4> QED BY <2>1, <4>1 DEF Inv, SweepsSound
    <3> QED BY <3>1, <3>2
  <2>4. \A k \in Events : live[k] = "gone" => k \in Known(saved') \union missed
    BY <2>1 DEF Inv, SweepsSound
  <2> QED BY <1>1, <1>5, <2>2, <2>3, <2>4 DEF SweepsSound
<1> QED BY <1>7, <1>9, <1>10, <1>11, <1>12, <1>13 DEF Inv

\* The row after a reconcile run, saved or not.
LEMMA ReconcileOutcome ==
  ASSUME Inv, NEW e \in Events, NEW fails \in SUBSET {"pr", "event", "save"}, NEW does \in Outcomes,
         Reconcile(e, fails, does)
  PROVE  RowStep(saved, saved', e) /\ Done(saved, saved', e, fails, does)
<1>1. saved \in Rows BY DEF Inv, Typed
<1>2. Outcome(saved, saved', e, fails, does)
  <2>1. CASE "save" \in fails
    <3>1. saved' = saved BY <2>1 DEF Reconcile
    <3> QED BY <3>1 DEF Outcome
  <2>2. CASE "save" \notin fails
    <3>1. saved' = Replayed(saved, e, fails, does) BY <2>2 DEF Reconcile
    <3> QED BY <3>1, ReplayedOutcome DEF Inv
  <2> QED BY <2>1, <2>2
<1> QED BY <1>1, <1>2, OutcomeStep

LEMMA ReconcileStep ==
  ASSUME Inv, NEW e \in Events, NEW fails \in SUBSET {"pr", "event", "save"}, NEW does \in Outcomes,
         Reconcile(e, fails, does)
  PROVE  Inv'
<1>1. /\ Fail(fails) /\ due' = due \ {e}
      /\ answered' = IF Executes(e, fails) /\ does = "answers" THEN answered \union {e} ELSE answered
      /\ UNCHANGED <<clock, made, shown, live, run, started, artifact, swept, reruns, missed>>
  BY DEF Reconcile
<1>2. RowStep(saved, saved', e) BY ReconcileOutcome
<1>3. Done(saved, saved', e, fails, does) BY ReconcileOutcome
<1>4. faults' \in 0 .. MaxFaults BY <1>1, FailSets, Faults DEF Inv
<1>5. answered' \subseteq Commands /\ answered \subseteq answered'
  BY <1>1 DEF Executes, Inv, Typed
<1>6. Typed' BY <1>1, <1>2, <1>4, <1>5 DEF Inv, Typed, RowStep
<1>7. EventsSound' BY <1>1 DEF Inv, EventsSound
<1>8. EffectsSound'
  <2> SUFFICES ASSUME NEW c \in Commands
               PROVE  /\ saved'.applied[c] \in 0 .. 1
                      /\ c \in saved'.receipts => run[c] = "good" /\ saved'.applied[c] = 1
                      /\ saved'.applied[c] = 1 => c \in saved'.receipts \/ run[c] = "empty"
    BY <1>1 DEF EffectsSound
  <2>1. CASE c # e
    BY <1>2, <2>1 DEF Inv, EffectsSound, RowStep
  <2>2. CASE c = e /\ saved'.applied[e] = saved.applied[e] /\ saved'.receipts = saved.receipts
    BY <2>2 DEF Inv, EffectsSound
  <2>3. CASE c = e /\ e \notin saved.receipts /\ e \in saved'.receipts
             /\ saved'.applied[e] = saved.applied[e] + 1
    <3>1. saved.applied \in [Commands -> Nat] BY DEF Inv, Typed, Rows
    <3>2. saved'.applied # saved.applied BY <2>3, <3>1
    <3>3. run[e] = "good" BY <1>3, <3>2 DEF Done, Fit
    <3>4. saved.applied[e] = 0 BY <2>3, <3>3 DEF Inv, EffectsSound
    <3> QED BY <2>3, <3>3, <3>4
  <2> QED BY <1>3, <2>1, <2>2, <2>3 DEF Done
<1>9. MissingSound' BY <1>1, <1>2 DEF Inv, MissingSound, RowStep
<1>10. ClosedSound'
  <2> SUFFICES ASSUME NEW k \in saved'.closed
               PROVE  /\ k \notin Comments
                      /\ k \in Reviews => k \in saved'.seen
                      /\ k \in Commands => saved'.applied[k] = 1 \/ k \in answered'
    BY DEF ClosedSound
  <2>1. \A c \in Commands : saved.applied[c] = 1 => saved'.applied[c] = 1
    <3> SUFFICES ASSUME NEW c \in Commands, saved.applied[c] = 1, c = e PROVE saved'.applied[c] = 1
      BY <1>2 DEF RowStep
    <3>1. CASE saved'.applied[e] = saved.applied[e] BY <3>1
    <3>2. CASE saved'.applied[e] = saved.applied[e] + 1
      <4>1. saved'.applied[e] \in 0 .. 1 BY <1>8 DEF EffectsSound
      <4> QED BY <3>2, <4>1
    <3> QED BY <1>3, <3>1, <3>2 DEF Done
  <2>2. CASE k \in saved.closed
    BY <1>2, <1>5, <2>1, <2>2 DEF Inv, ClosedSound, RowStep
  <2>3. CASE k \in saved'.closed \ saved.closed
    <3>1. k = e BY <1>2, <2>3 DEF RowStep
    <3>2. e \in Commands /\ e \in saved.receipts => saved'.applied[e] = 1
      BY <2>1 DEF Inv, EffectsSound
    <3> QED BY <1>1, <1>3, <2>3, <3>1, <3>2 DEF Done
  <2> QED BY <2>2, <2>3
<1>11. SweepsSound' BY <1>1, <1>2 DEF Inv, SweepsSound, RowStep
<1> QED BY <1>6, <1>7, <1>8, <1>9, <1>10, <1>11 DEF Inv

\* What a surface that was listed leaves unlisted was known of before.
LEMMA ListedOrKnown ==
  ASSUME Inv, NEW fails, NEW e \in Events, SurfaceOf(e) \notin fails, made[e] + Overlap < clock
  PROVE  e \in Listed(saved, fails) \union Known(saved) \union missed
<1> DEFINE f == SurfaceOf(e)
<1>1. f \in Surfaces /\ made[e] \in Nat /\ clock \in Nat BY EventTypes
<1>2. e \in shown BY <1>1, Bounds DEF Inv, EventsSound
<1>3. saved.safe[f] \in 0 .. Never BY <1>1 DEF Inv, Typed, Rows
<1>4. CASE made[e] >= Floor(saved, f)
  <2>1. CASE live[e] = "gone" BY <2>1 DEF Inv, SweepsSound
  <2>2. CASE live[e] # "gone"
    <3>1. e \in Discovered(saved, f) BY <1>2, <1>4, <2>2 DEF Discovered
    <3> QED BY <1>1, <3>1 DEF Listed
  <2> QED BY <2>1, <2>2
<1>5. CASE made[e] < clock - Window
  <2>1. swept \in Nat /\ clock + Overlap <= swept + Window BY <1>1, Bounds DEF Inv, SweepsSound
  <2>2. made[e] + Overlap < swept BY <1>1, <1>5, <2>1, Bounds
  <2> QED BY <2>2 DEF Inv, SweepsSound
<1>6. CASE saved.safe[f] # Never /\ made[e] < saved.safe[f] - Overlap
  <2>1. made[e] + Overlap < saved.safe[f] BY <1>1, <1>3, <1>6, Bounds
  <2> QED BY <1>6, <2>1 DEF Inv, SweepsSound
<1>7. made[e] >= Floor(saved, f) \/ made[e] < clock - Window
      \/ (saved.safe[f] # Never /\ made[e] < saved.safe[f] - Overlap)
  <2> HIDE DEF f
  <2>1. CASE saved.safe[f] = Never
    <3>1. Floor(saved, f) = IF 0 > clock - Window THEN 0 ELSE clock - Window BY <2>1 DEF Floor
    <3> QED BY <1>1, <3>1, Bounds
  <2>2. CASE saved.safe[f] # Never
    <3>1. Floor(saved, f) = IF saved.safe[f] - Overlap > clock - Window
                              THEN saved.safe[f] - Overlap ELSE clock - Window
      BY <2>2 DEF Floor
    <3> QED BY <1>1, <1>3, <2>2, <3>1, Bounds
  <2> QED BY <2>1, <2>2
<1> QED BY <1>4, <1>5, <1>6, <1>7

LEMMA SweepStep ==
  ASSUME Inv, NEW fails \in SUBSET {"comments", "reviews", "runs", "save"}, Sweep(fails)
  PROVE  Inv'
<1>1. /\ Fail(fails)
      /\ swept' = IF fails \intersect {"save", "comments", "reviews"} = {} THEN clock ELSE swept
      /\ UNCHANGED <<clock, made, shown, live, run, started, artifact, due, reruns, answered, missed>>
  BY DEF Sweep
<1>2. faults' \in 0 .. MaxFaults BY <1>1, FailSets, Faults DEF Inv
<1>3. swept' \in Window .. clock /\ clock + Overlap <= swept' + Window /\ swept' \in Nat
  BY <1>1, Bounds DEF Inv, SweepsSound
<1>4. saved \in Rows /\ clock \in Nat BY DEF Inv, Typed
<1>5. CASE "save" \in fails
  <2>1. saved' = saved /\ swept' = swept BY <1>1, <1>5 DEF Sweep
  <2>2. Typed' BY <1>1, <1>2, <1>3, <2>1 DEF Inv, Typed
  <2>3. EventsSound' /\ EffectsSound' /\ MissingSound' /\ ClosedSound'
    BY <1>1, <2>1 DEF Inv, EventsSound, EffectsSound, MissingSound, ClosedSound
  <2>4. SweepsSound' BY <1>1, <2>1, StillSweeps
  <2> QED BY <2>2, <2>3, <2>4 DEF Inv
<1>6. CASE "save" \notin fails
  <2> DEFINE t == Swept(saved, fails)
  <2>1. saved' = t BY <1>6 DEF Sweep
  <2>2. shown \subseteq Events /\ (\A e \in shown : made[e] \in 0 .. clock) /\ clock <= MaxTime
    BY EventTypes, Bounds DEF Inv, Typed, EventsSound, SweepsSound
  <2>3. /\ t \in Rows /\ t.seen = saved.seen /\ t.closed = saved.closed
        /\ t.receipts = saved.receipts /\ t.applied = saved.applied
        /\ Known(saved) \subseteq Known(t) /\ Listed(saved, fails) \subseteq Known(t)
        /\ \A k \in DOMAIN t.gaps : t.gaps[k].reason = "observer_run_missing" =>
             \/ k \in DOMAIN saved.gaps /\ saved.gaps[k].reason = "observer_run_missing"
             \/ k \in shown /\ TooLate(k)
        /\ \A f \in Surfaces :
             \/ t.safe[f] = saved.safe[f]
             \/ f \notin fails /\ t.safe[f] \in 0 .. clock
                /\ \E e \in Discovered(saved, f) : t.safe[f] = made[e]
    BY <1>4, <2>2, SweptRow
  <2> HIDE DEF t
  <2>4. Typed' BY <1>1, <1>2, <1>3, <2>1, <2>3 DEF Inv, Typed
  <2>5. EventsSound' BY <1>1 DEF Inv, EventsSound
  <2>6. EffectsSound' /\ ClosedSound' BY <1>1, <2>1, <2>3 DEF Inv, EffectsSound, ClosedSound
  <2>7. MissingSound'
    <3> SUFFICES ASSUME NEW k \in DOMAIN t.gaps, t.gaps[k].reason = "observer_run_missing"
                 PROVE  made[k] + Correlation < clock
                        /\ (run[k] = "none" \/ started[k] > made[k] + Correlation)
      BY <1>1, <2>1 DEF MissingSound
    <3>1. CASE k \in DOMAIN saved.gaps /\ saved.gaps[k].reason = "observer_run_missing"
      BY <3>1 DEF Inv, MissingSound
    <3>2. CASE k \in shown /\ TooLate(k)
      <4>1. k \in Events /\ made[k] \in Nat /\ started[k] \in 0 .. Never
        BY <2>2, <3>2, EventTypes DEF Inv, Typed
      <4> QED BY <3>2, <4>1, EventTypes, Bounds DEF TooLate
    <3> QED BY <2>3, <3>1, <3>2
  <2>8. SweepsSound'
    <3>1. \A f \in Surfaces : t.safe[f] = Never \/ t.safe[f] <= clock
      BY <1>4, <2>3 DEF Inv, SweepsSound
    <3>2. ASSUME NEW e \in Events, made[e] + Overlap < swept' PROVE e \in Known(t) \union missed
      <4>1. CASE swept' = swept BY <2>3, <3>2, <4>1 DEF Inv, SweepsSound
      <4>2. CASE swept' = clock /\ fails \intersect {"save", "comments", "reviews"} = {}
        <5>1. SurfaceOf(e) \notin fails BY <4>2 DEF SurfaceOf
        <5> QED BY <2>3, <3>2, <4>2, <5>1, ListedOrKnown
      <4> QED BY <1>1, <4>1, <4>2
    <3>3. ASSUME NEW e \in Events, t.safe[SurfaceOf(e)] # Never,
                 made[e] + Overlap < t.safe[SurfaceOf(e)]
          PROVE  e \in Known(t) \union missed
      <4>1. SurfaceOf(e) \in Surfaces /\ made[e] \in Nat BY EventTypes
      <4>2. CASE t.safe[SurfaceOf(e)] = saved.safe[SurfaceOf(e)]
        BY <2>3, <3>3, <4>2 DEF Inv, SweepsSound
      <4>3. CASE SurfaceOf(e) \notin fails /\ t.safe[SurfaceOf(e)] \in 0 .. clock
        <5>1. made[e] + Overlap < clock BY <1>4, <3>3, <4>1, <4>3, Bounds
        <5> QED BY <2>3, <4>3, <5>1, ListedOrKnown
      <4> QED BY <2>3, <4>1, <4>2, <4>3
    <3>4. \A e \in Events : live[e] = "gone" => e \in Known(t) \union missed
      BY <2>3 DEF Inv, SweepsSound
    <3> QED BY <1>1, <1>3, <2>1, <3>1, <3>2, <3>3, <3>4 DEF Inv, SweepsSound
  <2> QED BY <2>4, <2>5, <2>6, <2>7, <2>8 DEF Inv
<1> QED BY <1>5, <1>6

LEMMA Invariance == Inv /\ [Next]_vars => Inv'
<1> SUFFICES ASSUME Inv, [Next]_vars PROVE Inv' OBVIOUS
<1>1. CASE Tick BY <1>1, TickStep
<1>2. ASSUME NEW e \in Events, Occur(e) \/ Appear(e) \/ Fade(e) \/ Start(e) \/ End(e) \/ Rerun(e)
      PROVE  Inv'
  BY <1>2, OccurStep, AppearStep, FadeStep, StartStep, EndStep, RerunStep
<1>3. ASSUME NEW e \in Events, NEW fails \in SUBSET {"save"}, Direct(e, fails) PROVE Inv'
  BY <1>3, DirectStep
<1>4. ASSUME NEW e \in Events, NEW fails \in SUBSET {"pr", "event", "save"}, NEW does \in Outcomes,
             Reconcile(e, fails, does)
      PROVE  Inv'
  BY <1>4, ReconcileStep
<1>5. ASSUME NEW fails \in SUBSET {"comments", "reviews", "runs", "save"}, Sweep(fails) PROVE Inv'
  BY <1>5, SweepStep
<1>6. CASE UNCHANGED vars
  <2>1. UNCHANGED <<clock, made, shown, live, run, started, artifact, due, saved, swept, faults, reruns, answered, missed>>
    BY <1>6 DEF vars
  <2>2. SweepsSound' BY <2>1, StillSweeps
  <2>3. Typed' /\ EventsSound' /\ EffectsSound' /\ MissingSound' /\ ClosedSound'
    BY <2>1 DEF Inv, Typed, EventsSound, EffectsSound, MissingSound, ClosedSound
  <2> QED BY <2>2, <2>3 DEF Inv
<1> QED BY <1>1, <1>2, <1>3, <1>4, <1>5, <1>6 DEF Next, World, Bot

LEMMA InvHolds == Spec => []Inv
<1> QED BY Inits, Invariance, PTL DEF Spec

-----------------------------------------------------------------------------
(* The theorems *)

LEMMA InvTypes == Inv => DeferredTypeOK
<1> SUFFICES ASSUME Inv PROVE DeferredTypeOK OBVIOUS
<1>1. saved \in Rows BY DEF Inv, Typed
<1>2. /\ saved.seen \subseteq Events /\ saved.closed \subseteq Events /\ saved.receipts \subseteq Commands
      /\ saved.safe \in [Surfaces -> 0 .. Never] /\ saved.gaps \in GapSets
      /\ saved.applied \in [Commands -> Nat]
  BY <1>1 DEF Rows
<1>3. /\ DOMAIN saved.gaps \subseteq Events
      /\ \A e \in DOMAIN saved.gaps : saved.gaps[e].reason \in Reasons /\ saved.gaps[e].scanned \in BOOLEAN
  BY <1>2, GapSetsHave DEF Mark
<1>4. saved.applied \in [Commands -> 0 .. MaxReruns + 1]
  <2>1. \A c \in Commands : saved.applied[c] \in 0 .. MaxReruns + 1
    BY Bounds DEF Inv, EffectsSound
  <2> QED BY <1>2, <2>1
<1> QED BY <1>2, <1>3, <1>4 DEF DeferredTypeOK, Inv, Typed, SweepsSound

\* The variables, and above all the row of the pull request in the saved state,
\* always have the form that the code reads and writes.
THEOREM TypesHold == Spec => []DeferredTypeOK
<1> QED BY InvHolds, InvTypes, PTL

\* For any commands and any number of repeated runs and lost saves, the receipt
\* of a replayed command (reconcile.py) keeps its effect from being applied
\* twice, and the direct job and the replay never both apply it.
THEOREM Once == Spec => []AppliedOnce
<1>1. Inv => AppliedOnce
  <2> SUFFICES ASSUME Inv PROVE AppliedOnce OBVIOUS
  <2>1. DeferredTypeOK BY InvTypes
  <2>2. \A c \in Commands : saved.applied[c] <= 1 BY DEF Inv, EffectsSound
  <2> QED BY <2>1, <2>2 DEF AppliedOnce
<1> QED BY <1>1, InvHolds, PTL

\* What is marked as reconciled was done, and an observer run that is called
\* missing (can_mark_observer_run_missing) does not exist, or was created after the
\* window of correlate_candidate_observer_runs: for any such window that is over
\* before runs are called missing, and however late a run is created.
THEOREM RowTrue == Spec => []RowIsTrue
<1>1. Inv => RowIsTrue BY DEF Inv, ClosedSound, MissingSound, RowIsTrue
<1> QED BY <1>1, InvHolds, PTL

\* For any overlap, window and times that the sweeper is set to, whatever reads,
\* saves and runs fail and whatever is deleted or dismissed: an event older than
\* the last good sweep by more than the overlap is known of, unless it was
\* withdrawn before the row knew of it (deferred_gap_bookkeeping.py, sweeper.py).
THEOREM NothingLost == Spec => []Accounted
<1>1. Inv => Accounted BY DEF Inv, SweepsSound, Accounted
<1> QED BY <1>1, InvHolds, PTL

\* For any artifacts: what a reconcile run takes in or does is of an event with
\* an exact artifact of the run that it followed (build_workflow_run_replay_admission,
\* validate_triggering_run_identity).
THEOREM OfItsRun == Spec => TakenFromItsRun
<1> DEFINE A == \A e \in Events : TakenIn(e) /\ made[e] # Never =>
                  /\ run[e] = "good" /\ artifact[e].version = 3
                  /\ Aspects \ {"told"} \subseteq artifact[e].right
<1>1. ASSUME Inv, [Next]_vars PROVE [A]_vars
  <2> SUFFICES ASSUME NEW e \in Events, TakenIn(e), made[e] # Never PROVE Fit(e)
    BY DEF Fit
  <2>1. CASE saved' = saved BY <2>1 DEF TakenIn
  <2>2. ASSUME NEW k \in Events, NEW fails \in SUBSET {"save"}, Direct(k, fails) PROVE FALSE
    <3>1. k # e BY <2>2 DEF Direct, Happen
    <3>2. saved \in Rows BY <1>1 DEF Inv, Typed
    <3>3. /\ saved' = saved \/ (k \in Comments /\ saved' = See(saved, k))
             \/ (k \in Commands /\ saved' = [saved EXCEPT !.applied[k] = @ + 1])
      BY <2>2, Kinds DEF Direct, Events
    <3>4. CASE saved' = saved BY <3>4 DEF TakenIn
    <3>5. CASE k \in Comments /\ saved' = See(saved, k) BY <3>1, <3>2, <3>5, SeeRow DEF TakenIn
    <3>6. CASE k \in Commands /\ saved' = [saved EXCEPT !.applied[k] = @ + 1]
      BY <3>1, <3>2, <3>6, AppliedRow DEF TakenIn
    <3> QED BY <3>3, <3>4, <3>5, <3>6
  <2>3. ASSUME NEW k \in Events, NEW fails \in SUBSET {"pr", "event", "save"}, NEW does \in Outcomes,
               Reconcile(k, fails, does)
        PROVE  Fit(e)
    <3>1. RowStep(saved, saved', k) /\ Done(saved, saved', k, fails, does)
      BY <1>1, <2>3, ReconcileOutcome
    <3>2. e = k BY <3>1 DEF RowStep, TakenIn
    <3> QED BY <3>1, <3>2 DEF Done, TakenIn
  <2>4. ASSUME NEW fails \in SUBSET {"comments", "reviews", "runs", "save"}, Sweep(fails) PROVE FALSE
    <3>1. saved' = saved \/ saved' = Swept(saved, fails) BY <2>4 DEF Sweep
    <3>2. saved \in Rows /\ clock \in Nat /\ shown \subseteq Events
          /\ (\A k \in shown : made[k] \in 0 .. clock) /\ clock <= MaxTime
      BY <1>1, EventTypes, Bounds DEF Inv, Typed, EventsSound, SweepsSound
    <3>3. saved'.seen = saved.seen /\ saved'.closed = saved.closed /\ saved'.applied = saved.applied
      BY <3>1, <3>2, SweptRow
    <3> QED BY <3>3 DEF TakenIn
  <2>5. saved' = saved \/ (\E k \in Events, fails \in SUBSET {"save"} : Direct(k, fails))
        \/ (\E k \in Events, fails \in SUBSET {"pr", "event", "save"}, does \in Outcomes :
              Reconcile(k, fails, does))
        \/ \E fails \in SUBSET {"comments", "reviews", "runs", "save"} : Sweep(fails)
    BY <1>1 DEF Next, World, Bot, Tick, Occur, Appear, Fade, Start, End, Rerun, vars
  <2> QED BY <2>1, <2>2, <2>3, <2>4, <2>5
<1>2. Inv /\ [Next]_vars => [A]_vars BY <1>1
<1> HIDE DEF A
<1>3. Spec => [][A]_vars BY <1>2, InvHolds, PTL DEF Spec
<1> QED BY <1>3 DEF A, TakenFromItsRun
=============================================================================
