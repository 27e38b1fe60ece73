-------------------------- MODULE ReviewTurnProofs --------------------------
(***************************************************************************)
(* Proofs about ReviewTurn, for any people, heads, times and numbers of    *)
(* events: in whatever order and how often the bot hears of them, the row  *)
(* has the newest words of both sides, and whose turn it is follows from   *)
(* them.                                                                   *)
(***************************************************************************)
EXTENDS ReviewTurn, TLAPS, FiniteSetTheorems

-----------------------------------------------------------------------------
(* The inductive invariant *)

Person == People \union {NoOne}
Record == [kind : Kinds, actor : Person, at : Nat, n : Nat, head : Nat]
LiveReview == [n : Nat, actor : Candidates, state : {"APPROVED", "COMMENTED", "DISMISSED"},
               at : Nat, head : Nat]

\* What is numbered by the number of the event; what only a pull request has.
Numbered == {"comment", "feedback", "edit", "review"}
Pulls == {"review", "dismissal", "sync"}

EventGood(e) ==
  /\ e \in Record /\ e.kind \in Numbered \union Pulls /\ e.at \in 1 .. now /\ e.head \in 0 .. MaxHead
  /\ e.kind \in Numbered => e.n <= Cardinality(events)
  /\ e.kind = "edit" => e.actor = Author
  /\ e.kind = "sync" => e.n = e.head
  /\ e.kind = "review" => \E r \in reviews : r.n = e.n
  /\ ~isPR => e.kind \notin Pulls

WorldGood ==
  /\ isPR \in ItemKinds /\ now \in 1 .. MaxTime /\ head \in 0 .. MaxHead /\ (isPR <=> head # 0)
  /\ IsFiniteSet(events) /\ Cardinality(events) <= MaxEvents
  /\ \A e \in events : EventGood(e)
  /\ \A e, f \in events : e.kind \in Numbered /\ f.kind \in Numbered /\ e.n = f.n => e = f
  /\ IsFiniteSet(reviews) /\ reviews \subseteq LiveReview /\ (~isPR => reviews = {})
  /\ \A r \in reviews : r.at \in 1 .. now /\ r.head \in 1 .. MaxHead
  /\ told \subseteq events

RowGood(r) ==
  /\ r \in Row /\ r.reviewer \in Candidates /\ r.since <= now /\ r.head <= MaxHead
  /\ r.activity <= now /\ r.handoff.kind \in {"none", "feedback"}
  /\ r.byLabel => r.completed

\* A channel that has accepted the newest of S.
Foremost(a, S) == IF S = {} THEN a = Nothing ELSE a \in S /\ \A f \in S \ {a} : Newer(a, f)
Holds(channel, S) == Foremost(channel.accepted, S) /\ channel.seen = {Key(e) : e \in S}
WordsGood ==
  /\ Holds(row.chan["contributor_comment"], FromAuthor)
  /\ ~isPR => Holds(row.chan["reviewer_comment"], Comments(FromReviewer))

\* The handoff is a /feedback of the reviewer; on an issue none of this cycle
\* is forgotten before the author has spoken again.
Feedbacks == {e \in FromReviewer : e.kind = "feedback"}
HandoffGood ==
  /\ row.handoff # Nothing => \E e \in Feedbacks : row.handoff = [e EXCEPT !.head = row.handoff.head]
  /\ ~isPR => /\ row.head = 0 /\ row.handoff.head = 0
              /\ \A f \in Feedbacks : f.at >= row.since =>
                   \/ row.handoff # Nothing /\ row.handoff.at >= f.at
                   \/ \E c \in FromAuthor : c.at > f.at

\* The accepted revision against the push s of the live head.
Revision == row.chan["contributor_revision"]
LivePushes == {e \in events : e.kind = "sync" /\ e.head = head}
RevisionGood ==
  /\ Revision.accepted # Nothing =>
       /\ Revision.accepted.kind \in {"sync", "observed"}
       /\ Revision.accepted.at \in 1 .. now /\ Revision.accepted.n = Revision.accepted.head
       /\ Revision.accepted.kind = "sync" => Revision.accepted \in told
  /\ \A k \in Revision.seen : k[1] = KeyClass["sync"] => \E f \in told : f.kind = "sync" /\ f.n = k[2]
  /\ \A f \in events : f.kind = "sync" => LivePushes # {}
  /\ Straight => \A s \in LivePushes :
       /\ \A f \in events : f.kind = "sync" => f.at <= s.at
       /\ \/ Revision.accepted.head = head
          \/ Revision.accepted.at < s.at
          \/ Revision.accepted.at = s.at /\ Revision.accepted.kind = "observed"
       /\ s \in told => Revision.accepted.head = head /\ Revision.accepted.at >= s.at

TurnInvariant == WorldGood /\ RowGood(row) /\ WordsGood /\ HandoffGood /\ RevisionGood

-----------------------------------------------------------------------------
(* The order of events *)

LEMMA Classes ==
  /\ KeyClass["none"] = 0 /\ KeyClass["comment"] = 1 /\ KeyClass["feedback"] = 1
  /\ KeyClass["edit"] = 2 /\ KeyClass["observed"] = 3 /\ KeyClass["review"] = 4
  /\ KeyClass["dismissal"] = 4 /\ KeyClass["sync"] = 5
  /\ \A k \in Kinds : KeyClass[k] \in 0 .. 5
BY DEF KeyClass, Kinds

LEMMA NothingTyped == Nothing \in Record
BY DEF Nothing, Record, Person, Kinds

LEMMA RecordTypes ==
  ASSUME NEW e \in Record
  PROVE  /\ e.kind \in Kinds /\ e.actor \in Person /\ e.at \in Nat /\ e.n \in Nat /\ e.head \in Nat
         /\ Rank(e) \in 0 .. 1 /\ KeyClass[e.kind] \in 0 .. 5 /\ Key(e) \in Nat \X Nat
<1>1. e.kind \in Kinds /\ e.actor \in Person /\ e.at \in Nat /\ e.n \in Nat /\ e.head \in Nat
  BY DEF Record
<1>2. Rank(e) \in 0 .. 1
  BY DEF Rank
<1>3. KeyClass[e.kind] \in 0 .. 5
  BY <1>1, Classes
<1> QED BY <1>1, <1>2, <1>3 DEF Key

LEMMA NewerOrder ==
  ASSUME NEW e \in Record, NEW f \in Record, NEW g \in Record
  PROVE  /\ ~ Newer(e, e)
         /\ Newer(e, f) => ~ Newer(f, e)
         /\ Newer(e, f) /\ Newer(f, g) => Newer(e, g)
         /\ Newer(e, f) => e.at >= f.at
         /\ Newer(e, f) \/ Newer(f, e) \/ (e.at = f.at /\ Rank(e) = Rank(f) /\ Key(e) = Key(f))
<1>1. \A x \in {e, f, g} : x.at \in Nat /\ x.n \in Nat /\ Rank(x) \in Nat /\ KeyClass[x.kind] \in Nat
  BY RecordTypes
<1> HIDE DEF Rank, KeyClass
<1> QED BY <1>1 DEF Newer, KeyAbove, Key

LEMMA CrossOrder ==
  ASSUME NEW e \in Record, NEW f \in Record
  PROVE  /\ e.at > f.at => CrossNewer(e, f)
         /\ ~ CrossNewer(e, f) => f.at >= e.at
BY RecordTypes DEF CrossNewer

\* Words of a conversation: what the two channels of comments take in.
Word == {e \in Record : e.kind \in {"comment", "edit"} /\ e.at > 0}

LEMMA WordsAreApart ==
  ASSUME NEW e \in Word, NEW f \in Word, e.n # f.n
  PROVE  /\ Newer(e, f) \/ Newer(f, e)
         /\ Key(e) # Key(f)
<1>1. Rank(e) = 0 /\ Rank(f) = 0
  BY DEF Rank, Word
<1>2. Key(e) # Key(f)
  BY DEF Key
<1> QED BY <1>1, <1>2, NewerOrder DEF Word

LEMMA ForemostIsNewest ==
  ASSUME NEW S \in SUBSET Record, NEW a, Foremost(a, S)
  PROVE  a = Newest(S)
<1>1. CASE S = {}
  BY <1>1 DEF Foremost, Newest
<1>2. CASE S # {}
  <2>1. a \in S /\ \A f \in S \ {a} : Newer(a, f)
    BY <1>2 DEF Foremost
  <2>2. ASSUME NEW b \in S, \A f \in S \ {b} : Newer(b, f) PROVE b = a
    BY <2>1, <2>2, NewerOrder
  <2> QED BY <1>2, <2>1, <2>2 DEF Newest
<1> QED BY <1>1, <1>2

-----------------------------------------------------------------------------
(* What a run may do to a row *)

\* Who reviews, since when, and what was completed stay; so do the two channels
\* of words.
Alike(r, s) ==
  /\ s.reviewer = r.reviewer /\ s.since = r.since
  /\ s.handoff \in {r.handoff, Nothing}
  /\ \A c \in {"contributor_comment", "reviewer_comment"} : s.chan[c] = r.chan[c]
Keeps(r, s) == Alike(r, s) /\ s.chan["contributor_revision"] = r.chan["contributor_revision"]

LEMMA RowTypes ==
  ASSUME NEW r \in Row
  PROVE  /\ r.since \in Nat /\ r.head \in Nat /\ r.activity \in Nat /\ r.reviewer \in Person
         /\ r.handoff \in Record /\ r.completed \in BOOLEAN /\ r.byLabel \in BOOLEAN
         /\ r.chan \in [Channels -> [accepted : Record, seen : SUBSET (Nat \X Nat)]]
         /\ \A c \in Channels : /\ r.chan[c] \in [accepted : Record, seen : SUBSET (Nat \X Nat)]
                                /\ r.chan[c].accepted \in Record
                                /\ r.chan[c].seen \in SUBSET (Nat \X Nat)
BY DEF Row, Record, Person

LEMMA AcceptIs ==
  ASSUME NEW r \in Row, NEW c \in Channels, NEW e \in Record
  PROVE  LET s == Accept(r, c, e)
             stands == IF c = "review_dismissal" THEN r.chan[c].accepted # Nothing
                       ELSE Newer(r.chan[c].accepted, e)
         IN  /\ s \in Row /\ s.reviewer = r.reviewer /\ s.since = r.since /\ s.head = r.head
             /\ s.activity = r.activity /\ s.completed = r.completed /\ s.byLabel = r.byLabel
             /\ \A d \in Channels \ {c} : s.chan[d] = r.chan[d]
             /\ Key(e) \in r.chan[c].seen => s = r
             /\ Key(e) \notin r.chan[c].seen =>
                  /\ s.chan[c].seen = r.chan[c].seen \union {Key(e)}
                  /\ s.chan[c].accepted = IF stands THEN r.chan[c].accepted ELSE e
                  /\ s.handoff = IF c \in {"contributor_comment", "contributor_revision"}
                                    /\ e.at > r.handoff.at THEN Nothing ELSE r.handoff
<1> DEFINE stands == IF c = "review_dismissal" THEN r.chan[c].accepted # Nothing
                     ELSE Newer(r.chan[c].accepted, e)
           new == [accepted |-> IF stands THEN r.chan[c].accepted ELSE e,
                   seen |-> r.chan[c].seen \union {Key(e)}]
           hand == IF c \in {"contributor_comment", "contributor_revision"}
                      /\ e.at > r.handoff.at THEN Nothing ELSE r.handoff
           s == [r EXCEPT !.chan = [r.chan EXCEPT ![c] = new], !.handoff = hand]
<1>1. Accept(r, c, e) = IF Key(e) \in r.chan[c].seen THEN r ELSE s
  BY DEF Accept
<1>2. new \in [accepted : Record, seen : SUBSET (Nat \X Nat)] /\ hand \in Record
  <2>1. Key(e) \in Nat \X Nat /\ r.chan[c].accepted \in Record /\ r.chan[c].seen \in SUBSET (Nat \X Nat)
        /\ r.handoff \in Record
    BY RecordTypes, RowTypes
  <2> HIDE DEF stands
  <2> QED BY <2>1, NothingTyped
<1>3. /\ new.seen = r.chan[c].seen \union {Key(e)}
      /\ new.accepted = IF stands THEN r.chan[c].accepted ELSE e
  OBVIOUS
<1> HIDE DEF new, hand, stands
<1>4. [r.chan EXCEPT ![c] = new] \in [Channels -> [accepted : Record, seen : SUBSET (Nat \X Nat)]]
  BY <1>2, RowTypes
<1>5. /\ s \in Row /\ s.reviewer = r.reviewer /\ s.since = r.since /\ s.head = r.head
      /\ s.activity = r.activity /\ s.completed = r.completed /\ s.byLabel = r.byLabel
      /\ s.chan = [r.chan EXCEPT ![c] = new] /\ s.handoff = hand
  BY <1>2, <1>4 DEF Row, Record, Person
<1>6. s.chan[c] = new /\ \A d \in Channels \ {c} : s.chan[d] = r.chan[d]
  BY <1>5, RowTypes
<1> QED BY <1>1, <1>3, <1>5, <1>6 DEF hand, stands

LEMMA AcceptGood ==
  ASSUME NEW r, RowGood(r), NEW c \in Channels, NEW e \in Record
  PROVE  /\ RowGood(Accept(r, c, e))
         /\ Accept(r, c, e).handoff \in {r.handoff, Nothing}
         /\ c \notin {"contributor_comment", "reviewer_comment"} => Alike(r, Accept(r, c, e))
         /\ c \notin {"contributor_comment", "reviewer_comment", "contributor_revision"}
              => Keeps(r, Accept(r, c, e))
<1> DEFINE s == Accept(r, c, e)
<1>1. /\ s \in Row /\ s.reviewer = r.reviewer /\ s.since = r.since /\ s.head = r.head
      /\ s.activity = r.activity /\ s.completed = r.completed /\ s.byLabel = r.byLabel
      /\ \A d \in Channels \ {c} : s.chan[d] = r.chan[d]
      /\ s.handoff \in {r.handoff, Nothing}
  BY AcceptIs DEF RowGood
<1> HIDE DEF s
<1>2. Nothing.kind = "none"
  BY DEF Nothing
<1>3. RowGood(s)
  BY <1>1, <1>2 DEF RowGood
<1>4. {"contributor_comment", "reviewer_comment", "contributor_revision"} \subseteq Channels
  BY DEF Channels
<1> QED BY <1>1, <1>3, <1>4 DEF s, Alike, Keeps

\* The channels of words take in a word whenever it comes.
LEMMA WordTaken ==
  ASSUME NEW r \in Row, NEW c \in {"contributor_comment", "reviewer_comment"},
         NEW S \in SUBSET Word, NEW e \in Word, \A f \in S : f.n = e.n => f = e,
         Holds(r.chan[c], S)
  PROVE  Holds(Accept(r, c, e).chan[c], S \union {e})
<1> DEFINE s == Accept(r, c, e)
           a == r.chan[c].accepted
<1>0. c \in Channels /\ c # "review_dismissal" /\ e \in Record
  BY DEF Channels, Word
<1>1. /\ Key(e) \in r.chan[c].seen => s = r
      /\ Key(e) \notin r.chan[c].seen => /\ s.chan[c].seen = r.chan[c].seen \union {Key(e)}
                                         /\ s.chan[c].accepted = IF Newer(a, e) THEN a ELSE e
  BY <1>0, AcceptIs
<1>2. r.chan[c].seen = {Key(f) : f \in S} /\ Foremost(a, S)
  BY DEF Holds
<1> HIDE DEF s, a
<1>3. CASE Key(e) \in r.chan[c].seen
  <2>1. PICK f \in S : Key(f) = Key(e)
    BY <1>2, <1>3
  <2>2. f.n = e.n
    BY <2>1 DEF Key
  <2>3. S \union {e} = S
    BY <2>2
  <2> QED BY <1>1, <1>3, <2>3 DEF s
<1>4. CASE Key(e) \notin r.chan[c].seen
  <2>1. e \notin S
    BY <1>2, <1>4
  <2>2. s.chan[c].seen = {Key(f) : f \in S \union {e}}
    BY <1>1, <1>2, <1>4
  <2>3. Foremost(s.chan[c].accepted, S \union {e})
    <3>1. CASE S = {}
      <4>1. a = Nothing
        BY <1>2, <3>1 DEF Foremost
      <4>2. ~ Newer(a, e)
        BY <4>1 DEF Newer, Nothing, Word, Record
      <4> QED BY <1>1, <1>4, <3>1, <4>2 DEF Foremost
    <3>2. CASE S # {}
      <4>1. a \in S /\ \A f \in S \ {a} : Newer(a, f)
        BY <1>2, <3>2 DEF Foremost
      <4>2. CASE Newer(a, e)
        BY <1>1, <1>4, <4>1, <4>2 DEF Foremost
      <4>3. CASE ~ Newer(a, e)
        <5>1. a.n # e.n
          BY <4>1, <2>1
        <5>2. Newer(e, a)
          BY <4>1, <4>3, <5>1, WordsAreApart
        <5>3. \A f \in S : Newer(e, f)
          BY <4>1, <5>2, NewerOrder DEF Word
        <5> QED BY <1>1, <1>4, <4>3, <5>3 DEF Foremost
      <4> QED BY <4>2, <4>3
    <3> QED BY <3>1, <3>2
  <2> QED BY <2>2, <2>3 DEF Holds, s
<1> QED BY <1>3, <1>4

-----------------------------------------------------------------------------
(* The last of several reviews *)

\* A finite set has an element with none above it.
LEMMA FiniteTop ==
  ASSUME NEW S, IsFiniteSet(S), S # {}, NEW R, \A x \in S : <<x, x>> \notin R,
         \A x, y, z \in S : <<x, y>> \in R /\ <<y, z>> \in R => <<x, z>> \in R
  PROVE  \E x \in S : \A y \in S : <<y, x>> \notin R
<1> DEFINE Above(x) == {y \in S : <<y, x>> \in R}
           F == {Above(x) : x \in S}
<1>1. F # {} /\ F \subseteq FiniteSubsetsOf(S)
  <2>1. ASSUME NEW x \in S PROVE Above(x) \in SUBSET S /\ IsFiniteSet(Above(x))
    <3>1. Above(x) \in SUBSET S
      OBVIOUS
    <3> HIDE DEF Above
    <3> QED BY <3>1, FS_Subset
  <2> HIDE DEF Above
  <2> QED BY <2>1 DEF FiniteSubsetsOf
<1>2. PICK B \in F : \A C \in F : <<C, B>> \notin StrictSubsetOrdering(S)
  <2>1. IsWellFoundedOn(StrictSubsetOrdering(S), FiniteSubsetsOf(S))
    BY FS_StrictSubsetOrderingWellFounded
  <2> HIDE DEF F
  <2> QED BY <1>1, <2>1, WFMin
<1>3. PICK x \in S : B = Above(x)
  OBVIOUS
<1>4. ASSUME NEW y \in S, <<y, x>> \in R PROVE FALSE
  <2>1. Above(y) \subseteq Above(x) /\ y \in Above(x) /\ y \notin Above(y) /\ Above(y) \in F
    BY <1>4
  <2> HIDE DEF Above, F
  <2> QED BY <1>1, <1>2, <1>3, <2>1 DEF StrictSubsetOrdering, FiniteSubsetsOf
<1> QED BY <1>4

LEMMA LastIs ==
  ASSUME NEW S \in SUBSET LiveReview, IsFiniteSet(S), S # {}
  PROVE  LastOf(S) \in S /\ \A q \in S : q.at < LastOf(S).at \/ (q.at = LastOf(S).at /\ q.n <= LastOf(S).n)
<1> DEFINE After(q, r) == q.at > r.at \/ (q.at = r.at /\ q.n > r.n)
           R == {p \in S \X S : After(p[1], p[2])}
<1>1. \A r \in S : r.at \in Nat /\ r.n \in Nat
  BY DEF LiveReview
<1>2. \A x, y \in S : <<x, y>> \in R <=> After(x, y)
  OBVIOUS
<1> HIDE DEF R
<1>3. /\ \A x \in S : <<x, x>> \notin R
      /\ \A x, y, z \in S : <<x, y>> \in R /\ <<y, z>> \in R => <<x, z>> \in R
  BY <1>1, <1>2
<1>4. PICK r \in S : \A q \in S : <<q, r>> \notin R
  BY <1>3, FiniteTop
<1>5. \A q \in S : ~ After(q, r)
  BY <1>2, <1>4
<1>6. \A q \in S : q.at < r.at \/ (q.at = r.at /\ q.n <= r.n)
  BY <1>1, <1>5
<1> QED BY <1>6 DEF LastOf

\* Some review is the first of several.
LEMMA FirstIs ==
  ASSUME NEW S \in SUBSET LiveReview, IsFiniteSet(S), S # {}
  PROVE  \E r \in S : \A q \in S : r.n <= q.n
<1> DEFINE R == {p \in S \X S : p[1].n < p[2].n}
<1>1. \A r \in S : r.n \in Nat
  BY DEF LiveReview
<1>2. \A x, y \in S : <<x, y>> \in R <=> x.n < y.n
  OBVIOUS
<1> HIDE DEF R
<1>3. /\ \A x \in S : <<x, x>> \notin R
      /\ \A x, y, z \in S : <<x, y>> \in R /\ <<y, z>> \in R => <<x, z>> \in R
  BY <1>1, <1>2
<1>4. PICK r \in S : \A q \in S : <<q, r>> \notin R
  BY <1>3, FiniteTop
<1>5. \A q \in S : ~ (q.n < r.n)
  BY <1>2, <1>4
<1> QED BY <1>1, <1>5

LEMMA PreferredIs ==
  ASSUME WorldGood, NEW r \in Row
  PROVE  LET v == Preferred(r, reviews, head)
             his == Valid(r, reviews)
         IN  /\ v \in Record /\ v.at <= now
             /\ his = {} => v = Nothing
             /\ his # {} => /\ v # Nothing
                            /\ \E q \in his : v = AsRecord(q) /\ v.head = q.head /\ v.at = q.at
<1> DEFINE v == Preferred(r, reviews, head)
           his == Valid(r, reviews)
           there == {q \in his : q.head = head}
           S == IF there # {} THEN there ELSE his
<1>1. his \subseteq reviews /\ S \subseteq his
  BY DEF Valid
<1>2. IsFiniteSet(S) /\ S \in SUBSET LiveReview
  BY <1>1, FS_Subset DEF WorldGood
<1>3. v = IF his = {} THEN Nothing ELSE AsRecord(LastOf(S))
  BY DEF Preferred
<1> HIDE DEF v, his, S
<1>4. CASE his = {}
  <2>1. v = Nothing
    BY <1>3, <1>4
  <2>2. Nothing.at = 0 /\ now \in Nat
    BY DEF Nothing, WorldGood
  <2> QED BY <1>4, <2>1, <2>2, NothingTyped DEF v, his
<1>5. CASE his # {}
  <2>1. S # {}
    BY <1>5 DEF S
  <2>2. PICK q \in S : q = LastOf(S)
    BY <1>2, <2>1, LastIs
  <2>3. q \in his /\ q \in LiveReview /\ q.at \in 1 .. now /\ now \in Nat
    BY <1>1, <2>2 DEF WorldGood
  <2>4. AsRecord(q) \in Record /\ AsRecord(q).kind = "review"
        /\ AsRecord(q).at = q.at /\ AsRecord(q).head = q.head
    BY <2>3, CandidatesAssumption DEF AsRecord, Record, Person, Kinds, LiveReview
  <2>5. AsRecord(q) # Nothing
    BY <2>4 DEF Nothing
  <2>6. v = AsRecord(q)
    BY <1>3, <1>5, <2>2
  <2>7. v \in Record /\ v.at <= now /\ v # Nothing /\ v.head = q.head /\ v.at = q.at
    BY <2>3, <2>4, <2>5, <2>6
  <2> QED BY <1>5, <2>3, <2>6, <2>7 DEF v, his
<1> QED BY <1>4, <1>5

-----------------------------------------------------------------------------
(* The steps of a run *)

LEMMA AlikeChains ==
  ASSUME NEW r, NEW s, NEW t, Alike(r, s), Alike(s, t)
  PROVE  Alike(r, t)
BY DEF Alike

LEMMA ActiveGood ==
  ASSUME WorldGood, NEW r, RowGood(r), NEW at \in Nat, at <= now
  PROVE  LET s == Active(r, at)
         IN  /\ RowGood(s) /\ Keeps(r, s)
             /\ s.chan = r.chan /\ s.handoff = r.handoff /\ s.head = r.head
             /\ s.reviewer = r.reviewer /\ s.since = r.since
<1>1. r \in Row /\ r.activity \in Nat
  BY RowTypes DEF RowGood
<1>2. PICK a \in Nat : a = (IF at > r.activity THEN at ELSE r.activity)
  BY <1>1
<1>3. Active(r, at) = [r EXCEPT !.activity = a]
  BY <1>1, <1>2 DEF Active
<1>4. a <= now
  BY <1>2 DEF RowGood
<1> QED BY <1>1, <1>3, <1>4 DEF RowGood, Row, Keeps, Alike

LEMMA MovedGood ==
  ASSUME WorldGood, NEW r, RowGood(r), NEW h \in 0 .. MaxHead
  PROVE  LET s == Moved(r, h)
         IN  RowGood(s) /\ Keeps(r, s) /\ s.head = h /\ s.chan = r.chan
<1>1. r \in Row /\ MaxHead \in Nat /\ h \in Nat
  BY TurnBoundAssumption DEF RowGood
<1>2. PICK f : f = (IF r.head = h THEN r.handoff ELSE Nothing) /\ f \in Record
               /\ f.kind \in {"none", "feedback"} /\ f \in {r.handoff, Nothing}
  <2>1. Nothing.kind = "none"
    BY DEF Nothing
  <2> QED BY <1>1, <2>1, NothingTyped, RowTypes DEF RowGood
<1>3. Moved(r, h) = [r EXCEPT !.head = h, !.handoff = f]
  BY <1>1, <1>2 DEF Moved, Row
<1>4. LET s == Moved(r, h)
      IN  /\ s \in Row /\ s.head = h /\ s.chan = r.chan /\ s.handoff = f /\ s.reviewer = r.reviewer
          /\ s.since = r.since /\ s.activity = r.activity /\ s.completed = r.completed
          /\ s.byLabel = r.byLabel
  BY <1>1, <1>2, <1>3 DEF Row, Record, Person
<1> HIDE DEF Moved
<1> QED BY <1>1, <1>2, <1>4 DEF RowGood, Keeps, Alike

LEMMA SettledGood ==
  ASSUME NEW r, RowGood(r), NEW done \in BOOLEAN, NEW labelled \in BOOLEAN, labelled => done
  PROVE  LET s == [r EXCEPT !.completed = done, !.byLabel = labelled]
         IN  /\ RowGood(s) /\ Keeps(r, s)
             /\ s.chan = r.chan /\ s.handoff = r.handoff /\ s.head = r.head
             /\ s.reviewer = r.reviewer /\ s.since = r.since
BY DEF RowGood, Row, Keeps, Alike

LEMMA IncompleteGood ==
  ASSUME NEW r, RowGood(r)
  PROVE  LET s == Incomplete(r)
         IN  /\ RowGood(s) /\ Keeps(r, s)
             /\ s.chan = r.chan /\ s.handoff = r.handoff /\ s.head = r.head
             /\ s.reviewer = r.reviewer /\ s.since = r.since
<1>1. FALSE \in BOOLEAN
  OBVIOUS
<1> QED BY <1>1, SettledGood DEF Incomplete

LEMMA UpsertGood ==
  ASSUME WorldGood, NEW r, RowGood(r), NEW e \in Record
  PROVE  LET s == Upsert(r, "reviewer_review", e)
         IN  /\ RowGood(s) /\ Keeps(r, s) /\ s.head = r.head
             /\ s.chan["reviewer_review"].accepted = e
             /\ s.reviewer = r.reviewer /\ s.since = r.since
<1>1. r \in Row
  BY DEF RowGood
<1> DEFINE new == [accepted |-> e, seen |-> r.chan["reviewer_review"].seen \union {Key(e)}]
           chan == [r.chan EXCEPT !["reviewer_review"] = new]
           s == [r EXCEPT !.chan = chan]
<1>2. Upsert(r, "reviewer_review", e) = s
  BY DEF Upsert
<1>3. new \in [accepted : Record, seen : SUBSET (Nat \X Nat)] /\ new.accepted = e
  <2>1. r.chan["reviewer_review"].seen \in SUBSET (Nat \X Nat) /\ Key(e) \in Nat \X Nat
    BY <1>1, RowTypes, RecordTypes DEF Channels
  <2> QED BY <2>1
<1> HIDE DEF new
<1>4. /\ chan \in [Channels -> [accepted : Record, seen : SUBSET (Nat \X Nat)]]
      /\ chan["reviewer_review"] = new
      /\ \A c \in Channels \ {"reviewer_review"} : chan[c] = r.chan[c]
  BY <1>1, <1>3, RowTypes DEF Channels
<1> HIDE DEF chan
<1>5. {"contributor_comment", "reviewer_comment", "contributor_revision"} \subseteq Channels \ {"reviewer_review"}
  BY DEF Channels
<1>6. /\ s \in Row /\ s.head = r.head /\ s.chan = chan /\ s.handoff = r.handoff
      /\ s.reviewer = r.reviewer /\ s.since = r.since /\ s.activity = r.activity
      /\ s.completed = r.completed /\ s.byLabel = r.byLabel
  BY <1>1, <1>4 DEF Row, Record, Person
<1> HIDE DEF s
<1> QED BY <1>2, <1>3, <1>4, <1>5, <1>6 DEF RowGood, Keeps, Alike

\* The observation of the live head, as maybe_record_head_observation_repair
\* makes it.
Observation == [kind |-> "observed", actor |-> NoOne, at |-> now, n |-> head, head |-> head]
Repairs(r, s) ==
  /\ Alike(r, s)
  /\ s.chan["contributor_revision"] \in
       {r.chan["contributor_revision"], Accept(r, "contributor_revision", Observation).chan["contributor_revision"]}

LEMMA KeepsChains ==
  ASSUME NEW r, NEW s, NEW t
  PROVE  /\ Repairs(r, s) /\ Keeps(s, t) => Repairs(r, t)
         /\ Keeps(r, s) => Repairs(r, s)
BY AlikeChains DEF Repairs, Keeps

LEMMA ObservationTyped ==
  ASSUME WorldGood
  PROVE  Observation \in Record /\ head \in 0 .. MaxHead /\ MaxHead \in Nat /\ now \in Nat
BY TurnBoundAssumption DEF WorldGood, Observation, Record, Person, Kinds

\* An observation is taken alike by rows with the same channel of revisions.
LEMMA ObservedAlike ==
  ASSUME WorldGood, NEW r \in Row, NEW s \in Row,
         s.chan["contributor_revision"] = r.chan["contributor_revision"]
  PROVE  Accept(s, "contributor_revision", Observation).chan["contributor_revision"]
           = Accept(r, "contributor_revision", Observation).chan["contributor_revision"]
<1> DEFINE c == "contributor_revision"
<1>1. Observation \in Record /\ c \in Channels /\ c # "review_dismissal"
  BY ObservationTyped DEF Channels
<1>2. ASSUME NEW t \in Row
      PROVE  LET u == Accept(t, c, Observation)
                 seen == t.chan[c].seen
                 a == t.chan[c].accepted
             IN  u.chan[c] = IF Key(Observation) \in seen THEN t.chan[c]
                             ELSE [accepted |-> IF Newer(a, Observation) THEN a ELSE Observation,
                                   seen |-> seen \union {Key(Observation)}]
  <2> DEFINE u == Accept(t, c, Observation)
  <2>1. u \in Row
    BY <1>1, <1>2, AcceptIs
  <2>2. u.chan[c] \in [accepted : Record, seen : SUBSET (Nat \X Nat)]
    BY <1>1, <2>1, RowTypes
  <2>3. /\ Key(Observation) \in t.chan[c].seen => u = t
        /\ Key(Observation) \notin t.chan[c].seen =>
             /\ u.chan[c].seen = t.chan[c].seen \union {Key(Observation)}
             /\ u.chan[c].accepted = IF Newer(t.chan[c].accepted, Observation)
                                       THEN t.chan[c].accepted ELSE Observation
    BY <1>1, <1>2, AcceptIs
  <2> HIDE DEF u
  <2> QED BY <2>2, <2>3 DEF u
<1> QED BY <1>2

LEMMA HeadRepairedGood ==
  ASSUME WorldGood, NEW r, RowGood(r)
  PROVE  LET s == HeadRepaired(r)
         IN  RowGood(s) /\ Repairs(r, s) /\ s.head = head
<1> DEFINE c == "contributor_revision"
           taken == Accept(r, c, Observation)
           cut == [taken EXCEPT !.head = head, !.handoff = Nothing]
<1>1. CASE head = r.head
  <2>1. HeadRepaired(r) = r
    BY <1>1 DEF HeadRepaired
  <2> QED BY <1>1, <2>1 DEF Repairs, Alike
<1>2. CASE head # r.head /\ r.chan[c].accepted.head = head
  <2>1. HeadRepaired(r) = Moved(r, head)
    BY <1>2 DEF HeadRepaired
  <2> QED BY <2>1, ObservationTyped, MovedGood, KeepsChains
<1>3. CASE head # r.head /\ r.chan[c].accepted.head # head
  <2>1. HeadRepaired(r) = Incomplete(cut)
    BY <1>3 DEF HeadRepaired, Observation
  <2>2. RowGood(taken) /\ Alike(r, taken)
    BY ObservationTyped, AcceptGood DEF Channels
  <2> HIDE DEF taken
  <2>3. /\ cut \in Row /\ cut.head = head /\ cut.chan = taken.chan /\ cut.handoff = Nothing
        /\ cut.reviewer = taken.reviewer /\ cut.since = taken.since /\ cut.activity = taken.activity
        /\ cut.completed = taken.completed /\ cut.byLabel = taken.byLabel
    <3>1. taken \in Row /\ head \in Nat
      BY <2>2, ObservationTyped DEF RowGood
    <3>2. Nothing \in [kind : Kinds, actor : People \union {NoOne}, at : Nat, n : Nat, head : Nat]
      BY NothingTyped DEF Record, Person
    <3> QED BY <3>1, <3>2 DEF Row
  <2> HIDE DEF cut
  <2>4. Nothing.kind = "none"
    BY DEF Nothing
  <2>5. RowGood(cut) /\ Alike(r, cut)
    BY <2>2, <2>3, <2>4, ObservationTyped DEF RowGood, Alike
  <2>6. /\ RowGood(Incomplete(cut)) /\ Keeps(cut, Incomplete(cut)) /\ Incomplete(cut).head = head
    BY <2>3, <2>5, IncompleteGood
  <2>7. Repairs(r, cut)
    BY <2>3, <2>5 DEF Repairs, taken
  <2> QED BY <2>1, <2>6, <2>7, KeepsChains
<1> QED BY <1>1, <1>2, <1>3

LEMMA RefreshedGood ==
  ASSUME WorldGood, NEW r, RowGood(r)
  PROVE  LET s == Refreshed(r)
             his == Valid(r, reviews)
         IN  /\ RowGood(s) /\ Keeps(r, s) /\ s.head = r.head
             /\ his # {} => \E q \in his : s.chan["reviewer_review"].accepted = AsRecord(q)
<1> DEFINE v == Preferred(r, reviews, head)
           his == Valid(r, reviews)
           u == Upsert(r, "reviewer_review", v)
<1>0. r \in Row
  BY DEF RowGood
<1>1. /\ v \in Record /\ v.at <= now
      /\ his = {} => v = Nothing
      /\ his # {} => v # Nothing /\ \E q \in his : v = AsRecord(q)
  BY <1>0, PreferredIs
<1>2. Refreshed(r) = IF v = Nothing THEN r ELSE Active(u, v.at)
  BY DEF Refreshed
<1>3. RowGood(u) /\ Keeps(r, u) /\ u.head = r.head /\ u.chan["reviewer_review"].accepted = v
  BY <1>1, UpsertGood
<1>4. v.at \in Nat
  BY <1>1, RecordTypes
<1> HIDE DEF v, u, his
<1>5. /\ RowGood(Active(u, v.at)) /\ Keeps(u, Active(u, v.at)) /\ Active(u, v.at).chan = u.chan
      /\ Active(u, v.at).head = u.head
  BY <1>1, <1>3, <1>4, ActiveGood
<1>6. Keeps(r, Active(u, v.at))
  BY <1>3, <1>5, AlikeChains DEF Keeps
<1>7. Keeps(r, r)
  BY DEF Keeps, Alike
<1> QED BY <1>1, <1>2, <1>3, <1>5, <1>6, <1>7 DEF his

LEMMA ApprovalIs ==
  ASSUME NEW r, NEW readable
  PROVE  LET a == Approval(r, reviews, head, readable)
             his == {q \in OnHead(r, reviews, head) : q.actor = r.reviewer}
         IN  /\ a.completed = (his # {}) /\ a.ok \in BOOLEAN
             /\ a.turn \in {"awaiting_reviewer_response", "awaiting_contributor_response",
                            "awaiting_write_approval", "done", "projection_failed"}
             /\ a.turn # "projection_failed" => a.ok
             /\ his = {} => a.turn = "awaiting_reviewer_response"
<1>1. WriteTurn(r, reviews, head, readable) \in {"awaiting_write_approval", "done", "projection_failed"}
  BY DEF WriteTurn
<1> HIDE DEF WriteTurn
<1> QED BY <1>1 DEF Approval

\* Where GitHub says who may write, it is known what the reviews amount to.
LEMMA ApprovalKnown ==
  ASSUME WorldGood, NEW r
  PROVE  Approval(r, reviews, head, TRUE).ok
<1> DEFINE deciding == {q \in OnHead(r, reviews, head) :
                          q.state = "APPROVED" /\ Permission(q.actor, TRUE) # "denied"}
<1>1. deciding \subseteq reviews
  BY DEF OnHead
<1>2. deciding \in SUBSET LiveReview /\ IsFiniteSet(deciding)
  BY <1>1, FS_Subset DEF WorldGood
<1>3. \A p : Permission(p, TRUE) \in {"granted", "denied"}
  BY DEF Permission
<1>4. CASE deciding = {}
  <2>1. WriteTurn(r, reviews, head, TRUE) = "awaiting_write_approval"
    BY <1>4 DEF WriteTurn
  <2> QED BY <2>1 DEF Approval
<1>5. CASE deciding # {}
  <2> DEFINE first == CHOOSE q \in deciding : \A t \in deciding : q.n <= t.n
  <2>1. first \in deciding
    <3>1. \E q \in deciding : \A t \in deciding : q.n <= t.n
      <4> HIDE DEF deciding
      <4> QED BY <1>2, <1>5, FirstIs
    <3> HIDE DEF deciding
    <3> QED BY <3>1
  <2>2. Permission(first.actor, TRUE) = "granted"
    BY <1>3, <2>1
  <2>3. WriteTurn(r, reviews, head, TRUE) = "done"
    BY <1>5, <2>2 DEF WriteTurn
  <2> QED BY <2>3 DEF Approval
<1> QED BY <1>4, <1>5

LEMMA RebuiltGood ==
  ASSUME WorldGood, NEW r, RowGood(r), NEW readable
  PROVE  LET s == Rebuilt(r, readable)
         IN  /\ RowGood(s) /\ Keeps(r, s) /\ s.chan = r.chan
             /\ Approval(r, reviews, head, readable).ok =>
                  /\ s.head = head
                  /\ s.completed <=> \E q \in OnHead(r, reviews, head) : q.actor = r.reviewer
<1> DEFINE a == Approval(r, reviews, head, readable)
           m == Moved(r, head)
<1>1. RowGood(m) /\ Keeps(r, m) /\ m.head = head /\ m.chan = r.chan
  BY ObservationTyped, MovedGood
<1>2. a.ok \in BOOLEAN /\ a.completed \in BOOLEAN
      /\ (a.completed <=> \E q \in OnHead(r, reviews, head) : q.actor = r.reviewer)
  BY ApprovalIs
<1>3. Rebuilt(r, readable) = IF ~ a.ok THEN r ELSE [m EXCEPT !.completed = a.completed, !.byLabel = FALSE]
  BY DEF Rebuilt
<1>4. Keeps(r, r)
  BY DEF Keeps, Alike
<1> HIDE DEF a, m
<1>5. LET s == [m EXCEPT !.completed = a.completed, !.byLabel = FALSE]
      IN RowGood(s) /\ Keeps(m, s) /\ s.chan = m.chan /\ s.head = m.head /\ s.completed = a.completed
  <2>1. RowGood(m) /\ m \in Row
    BY <1>1 DEF RowGood
  <2>2. [m EXCEPT !.completed = a.completed, !.byLabel = FALSE].completed = a.completed
    BY <2>1 DEF Row
  <2> QED BY <1>2, <2>1, <2>2, SettledGood
<1>6. Keeps(r, [m EXCEPT !.completed = a.completed, !.byLabel = FALSE])
  BY <1>1, <1>5, AlikeChains DEF Keeps
<1> QED BY <1>1, <1>2, <1>3, <1>4, <1>5, <1>6 DEF a

LEMMA LiveRebuiltGood ==
  ASSUME WorldGood, NEW r, RowGood(r), NEW how \in Answers
  PROVE  RowGood(LiveRebuilt(r, how)) /\ Keeps(r, LiveRebuilt(r, how))
<1>1. ASSUME NEW readable \in BOOLEAN
      PROVE  RowGood(Rebuilt(Refreshed(r), readable)) /\ Keeps(r, Rebuilt(Refreshed(r), readable))
  <2>1. RowGood(Refreshed(r)) /\ Keeps(r, Refreshed(r))
    BY RefreshedGood
  <2>2. RowGood(Rebuilt(Refreshed(r), readable)) /\ Keeps(Refreshed(r), Rebuilt(Refreshed(r), readable))
    BY <2>1, RebuiltGood
  <2> QED BY <2>1, <2>2, AlikeChains DEF Keeps
<1>2. Keeps(r, r)
  BY DEF Keeps, Alike
<1>3. LiveRebuilt(r, how) \in {Rebuilt(Refreshed(r), TRUE), Rebuilt(Refreshed(r), FALSE), r}
  BY DEF LiveRebuilt, Answers
<1> QED BY <1>1, <1>2, <1>3

-----------------------------------------------------------------------------
(* The beginning *)

LEMMA TurnInit == Init => TurnInvariant
<1> SUFFICES ASSUME Init PROVE TurnInvariant
  OBVIOUS
<1>1. WorldGood
  <2>1. IsFiniteSet({}) /\ Cardinality({}) = 0
    BY FS_EmptySet
  <2>2. 1 \in 1 .. MaxTime /\ 1 \in 0 .. MaxHead /\ 0 \in 0 .. MaxHead /\ 0 <= MaxEvents /\ ItemKinds \subseteq BOOLEAN
    BY TurnBoundAssumption
  <2> QED BY <2>1, <2>2 DEF Init, WorldGood
<1>2. Empty \in [accepted : Record, seen : SUBSET (Nat \X Nat)] /\ Empty.accepted = Nothing /\ Empty.seen = {}
  BY NothingTyped DEF Empty
<1>3. RowGood(row)
  <2>1. [c \in Channels |-> Empty] \in [Channels -> [accepted : Record, seen : SUBSET (Nat \X Nat)]]
    BY <1>2
  <2>2. First \in Candidates /\ First \in People
    BY CandidatesAssumption
  <2>3. row \in Row
    BY <2>1, <2>2, NothingTyped DEF Init, Row, Record, Person
  <2>4. Nothing.kind = "none"
    BY DEF Nothing
  <2> QED BY <1>1, <2>2, <2>3, <2>4, TurnBoundAssumption DEF Init, RowGood
<1>4. \A c \in Channels : row.chan[c] = Empty
  BY DEF Init
<1>5. told = {} /\ events = {} /\ row.handoff = Nothing /\ row.head = 0 /\ Nothing.head = 0
  BY DEF Init, Nothing
<1>6. {"contributor_comment", "reviewer_comment", "contributor_revision"} \subseteq Channels
  BY DEF Channels
<1>7. WordsGood
  BY <1>2, <1>4, <1>5, <1>6 DEF WordsGood, Holds, Foremost, FromAuthor, FromReviewer, Comments
<1>8. HandoffGood
  BY <1>5 DEF HandoffGood, Feedbacks, FromReviewer
<1>9. RevisionGood
  BY <1>2, <1>4, <1>5, <1>6 DEF RevisionGood, Revision, LivePushes
<1> QED BY <1>1, <1>3, <1>7, <1>8, <1>9 DEF TurnInvariant

-----------------------------------------------------------------------------
(* What people do *)

LEMMA LaterIs ==
  ASSUME WorldGood, NEW at \in Later
  PROVE  now \in Nat \ {0} /\ at \in Nat \ {0} /\ at \in 1 .. MaxTime /\ now <= at
BY TurnBoundAssumption DEF WorldGood, Later

LEMMA NewIs ==
  ASSUME WorldGood, NEW e, Happens(e)
  PROVE  /\ Cardinality(events) \in Nat /\ New = Cardinality(events) + 1
         /\ IsFiniteSet(events') /\ Cardinality(events') \in Nat /\ Cardinality(events') <= MaxEvents
         /\ Cardinality(events') >= Cardinality(events)
         /\ e \notin events => Cardinality(events') = New
<1>1. Cardinality(events) \in Nat /\ MaxEvents \in Nat
  BY FS_CardinalityType, TurnBoundAssumption DEF WorldGood
<1>2. /\ IsFiniteSet(events \union {e})
      /\ Cardinality(events \union {e}) = IF e \in events THEN Cardinality(events) ELSE Cardinality(events) + 1
  BY FS_AddElement DEF WorldGood
<1> QED BY <1>1, <1>2 DEF Happens, New, WorldGood

LEMMA WorldByDeed ==
  ASSUME WorldGood, NEW e \in Record, Happens(e), e.at \in Later, isPR' = isPR, told' = told,
         e.kind \in Numbered \union Pulls, e.head \in 0 .. MaxHead,
         e.kind \in Numbered => e.n = New,
         e.kind = "edit" => e.actor = Author, e.kind = "sync" => e.n = e.head,
         e.kind = "review" => \E r \in reviews' : r.n = e.n,
         ~isPR => e.kind \notin Pulls,
         head' \in 0 .. MaxHead, isPR <=> head' # 0,
         IsFiniteSet(reviews'), reviews' \subseteq LiveReview, ~isPR => reviews' = {},
         \A r \in reviews' : r.at \in 1 .. now' /\ r.head \in 1 .. MaxHead,
         \A q \in reviews : \E r \in reviews' : r.n = q.n
  PROVE  WorldGood'
<1>1. now' = e.at /\ events' = events \union {e}
  BY DEF Happens
<1>2. now \in Nat \ {0} /\ now' \in Nat \ {0} /\ now' \in 1 .. MaxTime /\ now <= now'
  BY <1>1, LaterIs
<1>3. /\ Cardinality(events) \in Nat /\ New = Cardinality(events) + 1
      /\ IsFiniteSet(events') /\ Cardinality(events') \in Nat /\ Cardinality(events') <= MaxEvents
      /\ Cardinality(events') >= Cardinality(events)
      /\ e \notin events => Cardinality(events') = New
  BY NewIs
<1>4. \A f \in events : f \in Record /\ f.n \in Nat /\ EventGood(f)
  BY RecordTypes DEF WorldGood, EventGood
<1>5. e.kind \in Numbered => e \notin events
  BY <1>3, <1>4 DEF EventGood
<1>6. ASSUME NEW f \in events' PROVE EventGood(f)'
  <2>1. CASE f = e
    BY <1>1, <1>2, <1>3, <1>5, <2>1 DEF EventGood
  <2>2. CASE f \in events
    BY <1>2, <1>3, <1>4, <2>2 DEF EventGood
  <2> QED BY <1>1, <2>1, <2>2
<1>7. \A f, g \in events' : f.kind \in Numbered /\ g.kind \in Numbered /\ f.n = g.n => f = g
  <2>1. \A f \in events : f.kind \in Numbered => f.n # New
    BY <1>3, <1>4 DEF EventGood
  <2> QED BY <1>1, <2>1 DEF WorldGood
<1>8. told' \subseteq events' /\ isPR' \in ItemKinds
  BY <1>1 DEF WorldGood
<1> HIDE DEF Numbered, Pulls, New
<1> QED BY <1>2, <1>3, <1>6, <1>7, <1>8 DEF WorldGood

\* The row and what was told stay, the world goes on.
LEMMA RowByDeed ==
  ASSUME TurnInvariant, WorldGood', now <= now', UNCHANGED <<isPR, told, row>>
  PROVE  RowGood(row)' /\ WordsGood' /\ HandoffGood'
<1>1. now \in Nat /\ now' \in Nat
  BY DEF TurnInvariant, WorldGood
<1>2. row.since \in Nat /\ row.activity \in Nat
  BY RowTypes DEF TurnInvariant, RowGood
<1>3. RowGood(row)'
  BY <1>1, <1>2 DEF TurnInvariant, RowGood
<1>4. FromAuthor' = FromAuthor /\ FromReviewer' = FromReviewer
  BY DEF FromAuthor, FromReviewer
<1>5. WordsGood'
  BY <1>4 DEF TurnInvariant, WordsGood
<1>6. HandoffGood'
  BY <1>4 DEF TurnInvariant, HandoffGood, Feedbacks
<1> QED BY <1>3, <1>5, <1>6

LEMMA RevisionByDeed ==
  ASSUME TurnInvariant, NEW e, e.kind # "sync", Happens(e), now <= now', now' \in Nat,
         UNCHANGED <<told, row, head>>
  PROVE  RevisionGood'
<1>1. events' = events \union {e} /\ LivePushes' = LivePushes
  BY DEF Happens, LivePushes
<1>2. Straight' => Straight
  BY <1>1 DEF Straight
<1>3. Revision' = Revision /\ (\A f \in events' : f.kind = "sync" => f \in events)
  BY <1>1 DEF Revision
<1>4. now \in Nat
  BY DEF TurnInvariant, WorldGood
<1> QED BY <1>1, <1>2, <1>3, <1>4 DEF TurnInvariant, RevisionGood

LEMMA RevisionByPush ==
  ASSUME TurnInvariant, NEW e \in Record, e.kind = "sync", Happens(e), e.at \in Later, e.head # head,
         head' = e.head, e.head > 0, UNCHANGED <<told, row>>
  PROVE  RevisionGood'
<1>0. WorldGood /\ RevisionGood /\ RowGood(row)
  BY DEF TurnInvariant
<1>1. events' = events \union {e} /\ now' = e.at
  BY DEF Happens
<1>2. now \in Nat /\ now' \in Nat \ {0} /\ now <= now'
  BY <1>0, <1>1, LaterIs
<1>3. \A f \in events : f.at \in 1 .. now
  BY <1>0 DEF WorldGood, EventGood
<1>4. Revision' = Revision
  BY DEF Revision
<1>5. e \in LivePushes' /\ \A s \in LivePushes' : s.kind = "sync" /\ s.head = e.head /\ s \in events'
  BY <1>1 DEF LivePushes
<1> DEFINE a == Revision.accepted
<1>6. a = Nothing \/ (a.kind \in {"sync", "observed"} /\ a.at \in 1 .. now /\ (a.kind = "sync" => a \in events))
  BY <1>0 DEF RevisionGood, WorldGood
<1>7. ASSUME Straight', NEW s \in LivePushes'
      PROVE  /\ \A f \in events' : f.kind = "sync" => f.at <= s.at
             /\ a.head = head' \/ a.at < s.at \/ (a.at = s.at /\ a.kind = "observed")
             /\ s \in told' => a.head = head' /\ a.at >= s.at
  <2>1. s = e
    BY <1>1, <1>5, <1>7 DEF Straight
  <2>2. \A f \in events' : f.kind = "sync" => f.at <= s.at
    BY <1>1, <1>2, <1>3, <2>1
  <2>3. a.head = head' \/ a.at < s.at \/ (a.at = s.at /\ a.kind = "observed")
    <3>1. CASE a = Nothing
      BY <1>1, <1>2, <2>1, <3>1 DEF Nothing
    <3>2. CASE a # Nothing /\ a.kind = "sync" /\ a.at = e.at /\ a.head # e.head
      BY <1>1, <1>5, <1>6, <1>7, <3>2 DEF Straight
    <3> HIDE DEF a
    <3> QED BY <1>1, <1>2, <1>6, <2>1, <3>1, <3>2
  <2>4. e \notin events
    <3> SUFFICES ASSUME e \in events PROVE FALSE
      OBVIOUS
    <3>1. Straight
      BY <1>1, <1>7 DEF Straight
    <3>2. PICK p \in LivePushes : TRUE
      BY <1>0 DEF RevisionGood
    <3>3. p \in events /\ p.kind = "sync" /\ p.head = head /\ e.at <= p.at
      BY <1>0, <3>1, <3>2 DEF RevisionGood, LivePushes
    <3>4. p.at = e.at
      BY <1>1, <1>2, <1>3, <3>3
    <3> QED BY <3>1, <3>3, <3>4 DEF Straight
  <2>5. s \notin told'
    BY <1>0, <2>1, <2>4 DEF WorldGood
  <2> QED BY <2>2, <2>3, <2>5
<1>8. /\ a # Nothing => /\ a.kind \in {"sync", "observed"} /\ a.at \in 1 .. now' /\ a.n = a.head
                        /\ a.kind = "sync" => a \in told'
      /\ \A k \in Revision.seen : k[1] = KeyClass["sync"] => \E f \in told' : f.kind = "sync" /\ f.n = k[2]
  BY <1>0, <1>2 DEF RevisionGood
<1> QED BY <1>4, <1>5, <1>7, <1>8 DEF RevisionGood

LEMMA DeedTyped ==
  ASSUME WorldGood, NEW kind \in {"comment", "feedback", "edit", "review"},
         NEW p \in {Author} \union Candidates, NEW at \in Later
  PROVE  LET e == Deed(kind, p, at)
         IN  e \in Record /\ e.kind = kind /\ e.actor = p /\ e.at = at /\ e.n = New /\ e.head = 0
<1>1. New \in Nat
  BY FS_CardinalityType DEF WorldGood, New
<1>2. p \in Person
  BY CandidatesAssumption, PolicyAssumption DEF Person
<1>3. at \in Nat
  BY LaterIs
<1> QED BY <1>1, <1>2, <1>3 DEF Deed, Record, Kinds

\* What remains after the world is known to be good.
LEMMA DeedKeeps ==
  ASSUME TurnInvariant, NEW e, Happens(e), e.at \in Later, UNCHANGED <<isPR, told, row>>, WorldGood',
         RevisionGood'
  PROVE  TurnInvariant'
<1>1. now' = e.at /\ now <= now'
  BY LaterIs DEF Happens, TurnInvariant
<1> QED BY <1>1, RowByDeed DEF TurnInvariant

LEMMA SpeaksKeeps ==
  ASSUME TurnInvariant, NEW at \in Later, Comment(at) \/ Feedback(at) \/ Edit(at),
         UNCHANGED <<isPR, told, row>>
  PROVE  TurnInvariant'
<1>0. WorldGood
  BY DEF TurnInvariant
<1>1. PICK kind \in {"comment", "feedback", "edit"}, p \in {Author} \union Candidates :
        /\ Happens(Deed(kind, p, at)) /\ UNCHANGED <<head, reviews>>
        /\ kind = "edit" => p = Author
  BY CandidatesAssumption DEF Comment, Feedback, Edit
<1>2. PICK e : e = Deed(kind, p, at)
  OBVIOUS
<1>3. e \in Record /\ e.kind = kind /\ e.actor = p /\ e.at = at /\ e.n = New /\ e.head = 0
  BY <1>0, <1>2, DeedTyped
<1>4. Happens(e) /\ now' = at /\ now <= now' /\ now' \in Nat /\ now \in Nat /\ MaxHead \in Nat
  BY <1>0, <1>1, <1>2, <1>3, LaterIs, TurnBoundAssumption DEF Happens
<1>5. WorldGood'
  <2>1. e.kind \in Numbered \ {"review"} /\ e.kind \notin Pulls
    BY <1>3 DEF Numbered, Pulls
  <2>2. \A r \in reviews' : r.at \in 1 .. now' /\ r.head \in 1 .. MaxHead
    BY <1>0, <1>1, <1>4 DEF WorldGood
  <2>3. /\ e.head \in 0 .. MaxHead /\ head' \in 0 .. MaxHead /\ (isPR <=> head' # 0)
        /\ IsFiniteSet(reviews') /\ reviews' \subseteq LiveReview /\ (~isPR => reviews' = {})
        /\ \A q \in reviews : \E r \in reviews' : r.n = q.n
    BY <1>0, <1>1, <1>3, <1>4 DEF WorldGood
  <2> HIDE DEF New
  <2> QED BY <1>0, <1>1, <1>3, <1>4, <2>1, <2>2, <2>3, WorldByDeed
<1>6. RevisionGood'
  BY <1>1, <1>3, <1>4, RevisionByDeed
<1> QED BY <1>3, <1>4, <1>5, <1>6, DeedKeeps

LEMMA PushKeeps ==
  ASSUME TurnInvariant, NEW at \in Later, Push(at), UNCHANGED <<isPR, told, row>>
  PROVE  TurnInvariant'
<1>0. WorldGood
  BY DEF TurnInvariant
<1>1. PICK h \in 1 .. MaxHead :
        /\ isPR /\ h # head /\ head' = h /\ reviews' = reviews
        /\ Happens([kind |-> "sync", actor |-> NoOne, at |-> at, n |-> h, head |-> h])
  BY DEF Push
<1>2. PICK e : e = [kind |-> "sync", actor |-> NoOne, at |-> at, n |-> h, head |-> h]
  OBVIOUS
<1>3. at \in Nat /\ h \in Nat \ {0} /\ MaxHead \in Nat
  BY <1>0, LaterIs, TurnBoundAssumption
<1>4. e \in Record /\ e.kind = "sync" /\ e.at = at /\ e.n = h /\ e.head = h
  BY <1>2, <1>3 DEF Record, Person, Kinds
<1>5. Happens(e) /\ now' = at /\ now <= now' /\ now' \in Nat /\ now \in Nat
  BY <1>0, <1>1, <1>2, <1>4, LaterIs DEF Happens
<1>6. WorldGood'
  <2>1. e.kind \in Pulls /\ e.kind \notin Numbered
    BY <1>4 DEF Numbered, Pulls
  <2>2. \A r \in reviews' : r.at \in 1 .. now' /\ r.head \in 1 .. MaxHead
    BY <1>0, <1>1, <1>5 DEF WorldGood
  <2>3. /\ e.head \in 0 .. MaxHead /\ head' \in 0 .. MaxHead /\ (isPR <=> head' # 0)
        /\ IsFiniteSet(reviews') /\ reviews' \subseteq LiveReview /\ (~isPR => reviews' = {})
        /\ \A q \in reviews : \E r \in reviews' : r.n = q.n
    BY <1>0, <1>1, <1>3, <1>4 DEF WorldGood
  <2> QED BY <1>0, <1>1, <1>4, <1>5, <2>1, <2>2, <2>3, WorldByDeed
<1>7. RevisionGood'
  BY <1>1, <1>3, <1>4, <1>5, RevisionByPush
<1> QED BY <1>4, <1>5, <1>6, <1>7, DeedKeeps

LEMMA ReviewKeeps ==
  ASSUME TurnInvariant, NEW at \in Later, Review(at), UNCHANGED <<isPR, told, row>>
  PROVE  TurnInvariant'
<1>0. WorldGood
  BY DEF TurnInvariant
<1>1. PICK p \in Candidates, s \in {"APPROVED", "COMMENTED"} :
        /\ isPR /\ head' = head /\ Happens([Deed("review", p, at) EXCEPT !.head = head])
        /\ reviews' = reviews \union {[n |-> New, actor |-> p, state |-> s, at |-> at, head |-> head]}
  BY DEF Review
<1>2. PICK e : e = [Deed("review", p, at) EXCEPT !.head = head]
  OBVIOUS
<1>3. at \in Nat \ {0} /\ head \in 1 .. MaxHead /\ MaxHead \in Nat /\ New \in Nat
  <2>1. at \in Nat \ {0}
    BY <1>0, LaterIs
  <2>2. MaxHead \in Nat /\ head \in 0 .. MaxHead /\ head # 0
    BY <1>0, <1>1, TurnBoundAssumption DEF WorldGood
  <2>3. New \in Nat
    BY <1>0, FS_CardinalityType DEF WorldGood, New
  <2> HIDE DEF New
  <2> QED BY <2>1, <2>2, <2>3
<1>4. e \in Record /\ e.kind = "review" /\ e.at = at /\ e.n = New /\ e.head = head
  <2>1. Deed("review", p, at) \in Record /\ Deed("review", p, at) =
          [kind |-> "review", actor |-> p, at |-> at, n |-> New, head |-> 0]
    BY <1>0, DeedTyped DEF Deed
  <2> HIDE DEF New
  <2> QED BY <1>2, <1>3, <2>1 DEF Record
<1>5. Happens(e) /\ now' = at /\ now <= now' /\ now' \in Nat /\ now \in Nat
  BY <1>0, <1>1, <1>2, <1>4, LaterIs DEF Happens
<1>6. PICK r : r = [n |-> New, actor |-> p, state |-> s, at |-> at, head |-> head]
  OBVIOUS
<1>7. r \in LiveReview /\ r.n = New /\ r.at = at /\ r.head = head /\ reviews' = reviews \union {r}
  BY <1>1, <1>3, <1>6 DEF LiveReview
<1>8. WorldGood'
  <2>1. e.kind \in Pulls /\ e.kind \in Numbered
    BY <1>4 DEF Numbered, Pulls
  <2>2. \A q \in reviews' : q.at \in 1 .. now' /\ q.head \in 1 .. MaxHead
    BY <1>0, <1>3, <1>5, <1>7 DEF WorldGood
  <2>3. /\ e.head \in 0 .. MaxHead /\ head' \in 0 .. MaxHead /\ (isPR <=> head' # 0)
        /\ reviews' \subseteq LiveReview
        /\ \A q \in reviews : \E t \in reviews' : t.n = q.n
    BY <1>0, <1>1, <1>3, <1>4, <1>7 DEF WorldGood
  <2>4. IsFiniteSet(reviews')
    BY <1>0, <1>7, FS_AddElement DEF WorldGood
  <2>5. \E t \in reviews' : t.n = e.n
    BY <1>4, <1>7
  <2> HIDE DEF New
  <2> QED BY <1>0, <1>1, <1>4, <1>5, <2>1, <2>2, <2>3, <2>4, <2>5, WorldByDeed
<1>9. RevisionGood'
  BY <1>1, <1>4, <1>5, RevisionByDeed
<1> QED BY <1>4, <1>5, <1>8, <1>9, DeedKeeps

LEMMA DismissKeeps ==
  ASSUME TurnInvariant, NEW at \in Later, Dismiss(at), UNCHANGED <<isPR, told, row>>
  PROVE  TurnInvariant'
<1>0. WorldGood
  BY DEF TurnInvariant
<1>1. PICK r \in reviews :
        /\ Happens([kind |-> "dismissal", actor |-> NoOne, at |-> at, n |-> r.n, head |-> 0])
        /\ reviews' = (reviews \ {r}) \union {[r EXCEPT !.state = "DISMISSED"]} /\ head' = head
  BY DEF Dismiss
<1>2. PICK e : e = [kind |-> "dismissal", actor |-> NoOne, at |-> at, n |-> r.n, head |-> 0]
  OBVIOUS
<1>3. at \in Nat \ {0} /\ MaxHead \in Nat /\ r \in LiveReview /\ r.n \in Nat
  BY <1>0, LaterIs, TurnBoundAssumption DEF WorldGood, LiveReview
<1>4. e \in Record /\ e.kind = "dismissal" /\ e.at = at /\ e.head = 0
  BY <1>2, <1>3 DEF Record, Person, Kinds
<1>5. Happens(e) /\ now' = at /\ now <= now' /\ now' \in Nat /\ now \in Nat
  BY <1>0, <1>1, <1>2, <1>4, LaterIs DEF Happens
<1>6. PICK t : t = [r EXCEPT !.state = "DISMISSED"]
  OBVIOUS
<1>7. t \in LiveReview /\ t.n = r.n /\ t.at = r.at /\ t.head = r.head
      /\ reviews' = (reviews \ {r}) \union {t}
  BY <1>1, <1>3, <1>6 DEF LiveReview
<1>8. WorldGood'
  <2>1. e.kind \in Pulls /\ e.kind \notin Numbered
    BY <1>4 DEF Numbered, Pulls
  <2>2. \A q \in reviews' : q.at \in 1 .. now' /\ q.head \in 1 .. MaxHead
    BY <1>0, <1>5, <1>7 DEF WorldGood
  <2>3. /\ e.head \in 0 .. MaxHead /\ head' \in 0 .. MaxHead /\ (isPR <=> head' # 0)
        /\ reviews' \subseteq LiveReview
        /\ \A q \in reviews : \E u \in reviews' : u.n = q.n
    BY <1>0, <1>1, <1>3, <1>4, <1>7 DEF WorldGood
  <2>4. IsFiniteSet(reviews')
    BY <1>0, <1>7, FS_AddElement, FS_RemoveElement DEF WorldGood
  <2>5. isPR
    BY <1>0 DEF WorldGood
  <2> QED BY <1>0, <1>4, <1>5, <2>1, <2>2, <2>3, <2>4, <2>5, WorldByDeed
<1>9. RevisionGood'
  BY <1>1, <1>4, <1>5, RevisionByDeed
<1> QED BY <1>4, <1>5, <1>8, <1>9, DeedKeeps

LEMMA DeedsKeep == TurnInvariant /\ Deeds => TurnInvariant'
BY SpeaksKeeps, PushKeeps, ReviewKeeps, DismissKeeps DEF Deeds

-----------------------------------------------------------------------------
(* What the runs do *)

LEMMA WorldTold ==
  ASSUME WorldGood, UNCHANGED world, told' \subseteq events
  PROVE  WorldGood'
<1>1. \A e \in events : EventGood(e)' <=> EventGood(e)
  BY DEF world, EventGood
<1> QED BY <1>1 DEF WorldGood, world

LEMMA RowTold ==
  ASSUME RowGood(row'), UNCHANGED world
  PROVE  RowGood(row)'
BY DEF RowGood, world

LEMMA Other == Author \notin Candidates /\ Author \in People
BY CandidatesAssumption, PolicyAssumption

\* Nothing said by the author or, on an issue, by the reviewer.
LEMMA WordsKept ==
  ASSUME TurnInvariant, Alike(row, row'), UNCHANGED isPR, NEW e,
         told' = told \union {e} \/ told' = told,
         \/ e.kind \notin {"comment", "edit"}
         \/ e.actor # Author /\ (isPR \/ e.actor # row.reviewer)
  PROVE  WordsGood'
<1>1. row'.reviewer = row.reviewer
  BY DEF Alike
<1>2. FromAuthor' = FromAuthor
  BY DEF FromAuthor
<1>3. ~ isPR => Comments(FromReviewer)' = Comments(FromReviewer)
  BY <1>1 DEF FromReviewer, Comments
<1> QED BY <1>2, <1>3 DEF TurnInvariant, WordsGood, Alike

\* On a pull request, for steps that leave the handoff or take it away.
LEMMA HandoffKept ==
  ASSUME TurnInvariant, Alike(row, row'), isPR, UNCHANGED isPR, told \subseteq told'
  PROVE  HandoffGood'
<1>1. Feedbacks \subseteq Feedbacks'
  BY DEF Feedbacks, FromReviewer, Alike
<1> QED BY <1>1 DEF TurnInvariant, HandoffGood, Alike

\* On an issue, for steps that leave the handoff alone.
LEMMA HandoffStill ==
  ASSUME TurnInvariant, UNCHANGED isPR, NEW e, told' = told \union {e} \/ told' = told,
         e.kind # "feedback" \/ e.actor # row.reviewer,
         row'.handoff = row.handoff, row'.head = row.head, row'.reviewer = row.reviewer,
         row'.since = row.since
  PROVE  HandoffGood'
<1>1. Feedbacks' = Feedbacks /\ FromAuthor \subseteq FromAuthor'
  BY DEF Feedbacks, FromReviewer, FromAuthor
<1> QED BY <1>1 DEF TurnInvariant, HandoffGood

\* Steps that leave the accepted revision, or observe the live head.
LEMMA RevisionKept ==
  ASSUME TurnInvariant, Repairs(row, row'), UNCHANGED world, NEW e,
         told' = told \union {e} \/ told' = told, e.kind # "sync"
  PROVE  RevisionGood'
<1>0. WorldGood /\ RevisionGood /\ row \in Row
  BY DEF TurnInvariant, RowGood
<1>1. LivePushes' = LivePushes /\ events' = events /\ head' = head /\ now' = now /\ Straight' = Straight
  BY DEF world, LivePushes, Straight
<1>2. told \subseteq told' /\ \A s \in LivePushes : s \in told' <=> s \in told
  BY DEF LivePushes
<1> DEFINE c == "contributor_revision"
           taken == Accept(row, c, Observation)
<1>3. CASE Revision' = Revision
  BY <1>0, <1>1, <1>2, <1>3 DEF RevisionGood
<1>4. CASE Revision' # Revision
  <2>1. Revision' = taken.chan[c]
    BY <1>4 DEF Repairs, Revision
  <2>2. c \in Channels /\ c # "review_dismissal" /\ Observation \in Record
    BY <1>0, ObservationTyped DEF Channels
  <2>3. /\ Key(Observation) \in row.chan[c].seen => taken = row
        /\ Key(Observation) \notin row.chan[c].seen =>
             /\ taken.chan[c].seen = row.chan[c].seen \union {Key(Observation)}
             /\ taken.chan[c].accepted = IF Newer(row.chan[c].accepted, Observation) THEN row.chan[c].accepted
                                         ELSE Observation
    BY <1>0, <2>2, AcceptIs
  <2>4. Key(Observation)[1] # KeyClass["sync"]
    BY Classes DEF Key, Observation
  <2>5. /\ Revision'.seen = Revision.seen \union {Key(Observation)}
        /\ Revision'.accepted \in {Revision.accepted, Observation}
    BY <1>4, <2>1, <2>3 DEF Revision
  <2>6. /\ Observation.kind = "observed" /\ Observation.at = now /\ Observation.n = head
        /\ Observation.head = head
    BY DEF Observation
  <2>7. now \in Nat \ {0} /\ \A s \in LivePushes : s.at \in 1 .. now
    BY <1>0, TurnBoundAssumption DEF WorldGood, EventGood, LivePushes
  <2>8. CASE Revision'.accepted = Revision.accepted
    BY <1>0, <1>1, <1>2, <2>4, <2>5, <2>8 DEF RevisionGood
  <2>9. CASE Revision'.accepted = Observation
    <3>1. \A k \in Revision'.seen : k[1] = KeyClass["sync"] => \E f \in told' : f.kind = "sync" /\ f.n = k[2]
      BY <1>0, <2>4, <2>5 DEF RevisionGood
    <3>2. Straight => \A s \in LivePushes :
            /\ \A f \in events : f.kind = "sync" => f.at <= s.at
            /\ Revision'.accepted.head = head
            /\ Revision'.accepted.at >= s.at
      BY <1>0, <2>6, <2>7, <2>9 DEF RevisionGood
    <3>3. \A f \in events : f.kind = "sync" => LivePushes # {}
      BY <1>0 DEF RevisionGood
    <3> HIDE DEF Straight, Observation
    <3> QED BY <1>1, <2>6, <2>7, <2>9, <3>1, <3>2, <3>3 DEF RevisionGood
  <2> QED BY <2>5, <2>8, <2>9
<1> QED BY <1>3, <1>4

\* A run for an event of a pull request that is no push, or for no event.
LEMMA RepairsKeep ==
  ASSUME TurnInvariant, RowGood(row'), Repairs(row, row'), isPR, UNCHANGED world, NEW e,
         told' = told \/ (told' = told \union {e} /\ e \in events /\ e.kind \notin {"comment", "edit", "sync"})
  PROVE  TurnInvariant'
<1>0. WorldGood /\ Alike(row, row') /\ UNCHANGED isPR
  BY DEF TurnInvariant, Repairs, world
<1>1. PICK f : /\ f.kind \notin {"comment", "edit", "sync"}
               /\ told' = told \union {f} \/ told' = told
  <2>1. [kind |-> "none"].kind \notin {"comment", "edit", "sync"}
    OBVIOUS
  <2> QED BY <2>1
<1>2. told' \subseteq events /\ told \subseteq told'
  BY <1>0 DEF WorldGood
<1>3. WorldGood' /\ RowGood(row)'
  BY <1>0, <1>2, WorldTold, RowTold
<1>4. WordsGood' /\ HandoffGood'
  BY <1>0, <1>1, <1>2, WordsKept, HandoffKept
<1>5. RevisionGood'
  BY <1>1, RevisionKept
<1> QED BY <1>3, <1>4, <1>5 DEF TurnInvariant

LEMMA HeardTyped ==
  ASSUME WorldGood, NEW e \in events
  PROVE  /\ e \in Record /\ e.at \in Nat /\ e.at > 0 /\ e.at <= now /\ now \in Nat /\ e.n \in Nat
         /\ e.head \in 0 .. MaxHead
         /\ e.kind \in {"comment", "edit"} => e \in Word
<1>1. EventGood(e) /\ now \in Nat
  BY DEF WorldGood
<1> QED BY <1>1, RecordTypes DEF EventGood, Word

LEMMA SyncKeeps ==
  ASSUME TurnInvariant, NEW e \in events, e.kind = "sync", NEW how \in Answers, SyncHandled(e, how)
  PROVE  TurnInvariant'
<1> DEFINE c == "contributor_revision"
           seen == Moved(row, e.head)
           moved == Accept(seen, c, e)
           a == Revision.accepted
<1>0. WorldGood /\ RowGood(row) /\ row \in Row /\ RevisionGood
  BY DEF TurnInvariant, RowGood
<1>1. UNCHANGED world /\ told' = told \union {e}
  BY DEF SyncHandled, Hear
<1>2. row' \in {moved, Rebuilt(moved, how = "all")}
  BY DEF SyncHandled, Hear
<1>3. /\ e \in Record /\ e.at \in Nat /\ e.at > 0 /\ e.at <= now /\ now \in Nat /\ e.head \in 0 .. MaxHead
      /\ e.n = e.head
  <2>1. EventGood(e)
    BY <1>0 DEF WorldGood
  <2> QED BY <1>0, <2>1, HeardTyped DEF EventGood
<1>4. isPR
  BY <1>0 DEF WorldGood, EventGood, Pulls
<1>5. RowGood(seen) /\ Keeps(row, seen) /\ seen.chan = row.chan /\ seen \in Row
  <2>1. RowGood(seen) /\ Keeps(row, seen) /\ seen.chan = row.chan
    BY <1>0, <1>3, MovedGood
  <2> QED BY <2>1 DEF RowGood
<1> HIDE DEF seen
<1>6. RowGood(moved) /\ Alike(seen, moved)
  BY <1>3, <1>5, AcceptGood DEF Channels
<1>7. /\ Key(e) \in Revision.seen => moved.chan[c] = Revision
      /\ Key(e) \notin Revision.seen => /\ moved.chan[c].seen = Revision.seen \union {Key(e)}
                                        /\ moved.chan[c].accepted = IF Newer(a, e) THEN a ELSE e
  <2>1. /\ Key(e) \in seen.chan[c].seen => moved = seen
        /\ Key(e) \notin seen.chan[c].seen =>
             /\ moved.chan[c].seen = seen.chan[c].seen \union {Key(e)}
             /\ moved.chan[c].accepted = IF Newer(seen.chan[c].accepted, e) THEN seen.chan[c].accepted ELSE e
    BY <1>3, <1>5, AcceptIs DEF Channels
  <2> QED BY <1>5, <2>1 DEF Revision
<1> HIDE DEF moved
<1>8. RowGood(row') /\ Alike(row, row') /\ row'.chan[c] = moved.chan[c]
  <2>1. Alike(row, moved)
    BY <1>5, <1>6, AlikeChains DEF Keeps
  <2>2. LET s == Rebuilt(moved, how = "all") IN RowGood(s) /\ Keeps(moved, s) /\ s.chan = moved.chan
    BY <1>0, <1>6, RebuiltGood
  <2>3. Alike(row, Rebuilt(moved, how = "all"))
    BY <2>1, <2>2, AlikeChains DEF Keeps
  <2> QED BY <1>2, <1>6, <2>1, <2>2, <2>3
<1>9. WorldGood' /\ RowGood(row)'
  <2>1. told' \subseteq events
    BY <1>0, <1>1 DEF WorldGood
  <2> QED BY <1>0, <1>1, <1>8, <2>1, WorldTold, RowTold
<1>10. WordsGood' /\ HandoffGood'
  <2>1. UNCHANGED isPR /\ told \subseteq told'
    BY <1>1 DEF world
  <2> QED BY <1>1, <1>4, <1>8, <2>1, WordsKept, HandoffKept
<1>11. RevisionGood'
  <2>1. LivePushes' = LivePushes /\ events' = events /\ head' = head /\ now' = now /\ Straight' = Straight
    BY <1>1 DEF world, LivePushes, Straight
  <2>2. a \in Record
    BY <1>0, RowTypes DEF Revision, Channels
  <2>3. Key(e) = <<KeyClass["sync"], e.n>>
    BY DEF Key
  <2>4. /\ Revision'.accepted \in {a, e}
        /\ Revision'.seen \subseteq Revision.seen \union {Key(e)}
        /\ Key(e) \notin Revision.seen => Revision'.accepted = IF Newer(a, e) THEN a ELSE e
        /\ Key(e) \in Revision.seen => Revision'.accepted = a
    BY <1>7, <1>8 DEF Revision
  <2>5. /\ Revision'.accepted # Nothing =>
             /\ Revision'.accepted.kind \in {"sync", "observed"}
             /\ Revision'.accepted.at \in 1 .. now /\ Revision'.accepted.n = Revision'.accepted.head
             /\ Revision'.accepted.kind = "sync" => Revision'.accepted \in told'
    <3>1. CASE Revision'.accepted = a
      BY <1>0, <1>1, <3>1 DEF RevisionGood
    <3>2. CASE Revision'.accepted = e
      BY <1>1, <1>3, <3>2
    <3> QED BY <2>4, <3>1, <3>2
  <2>6. \A k \in Revision'.seen : k[1] = KeyClass["sync"] => \E f \in told' : f.kind = "sync" /\ f.n = k[2]
    <3>1. Key(e)[2] = e.n
      BY <2>3
    <3> QED BY <1>0, <1>1, <2>4, <3>1 DEF RevisionGood
  <2>7. ASSUME Straight, NEW s \in LivePushes
        PROVE  /\ \A f \in events : f.kind = "sync" => f.at <= s.at
               /\ \/ Revision'.accepted.head = head \/ Revision'.accepted.at < s.at
                  \/ Revision'.accepted.at = s.at /\ Revision'.accepted.kind = "observed"
               /\ s \in told' => Revision'.accepted.head = head /\ Revision'.accepted.at >= s.at
    <3>1. /\ \A f \in events : f.kind = "sync" => f.at <= s.at
          /\ a.head = head \/ a.at < s.at \/ (a.at = s.at /\ a.kind = "observed")
          /\ s \in told => a.head = head /\ a.at >= s.at
      BY <1>0, <2>7 DEF RevisionGood
    <3>2. s \in events /\ s.kind = "sync" /\ s.head = head /\ s.n = s.head /\ s \in Record
      <4>1. s \in events /\ s.kind = "sync" /\ s.head = head
        BY DEF LivePushes
      <4>2. EventGood(s)
        BY <1>0, <4>1 DEF WorldGood
      <4> QED BY <4>1, <4>2 DEF EventGood
    <3>3. a.at \in Nat /\ s.at \in Nat /\ e.at \in Nat
      BY <2>2, <3>2, <1>3, RecordTypes
    <3>4. CASE e = s
      <4>1. CASE Key(e) \in Revision.seen
        <5>1. PICK f \in told : f.kind = "sync" /\ f.n = Key(e)[2]
          BY <1>0, <2>3, <4>1 DEF RevisionGood
        <5>2. f \in events /\ f.n = f.head
          BY <1>0, <5>1 DEF WorldGood, EventGood
        <5>3. f.head = e.head
          BY <1>3, <2>3, <5>1, <5>2
        <5>4. f = e
          BY <2>7, <5>1, <5>2, <5>3 DEF Straight
        <5> QED BY <2>4, <3>1, <3>4, <4>1, <5>1, <5>4
      <4>2. CASE Key(e) \notin Revision.seen /\ Newer(a, e)
        <5>1. Rank(e) = 1
          BY DEF Rank
        <5>2. a.kind = "observed" => Rank(a) = 0
          BY DEF Rank
        <5>3. KeyClass["observed"] = 3 /\ KeyClass["sync"] = 5
          BY Classes
        <5>4. a.at >= e.at
          BY <1>3, <2>2, <4>2, NewerOrder
        <5>5. ~ (a.at = s.at /\ a.kind = "observed")
          BY <3>3, <3>4, <4>2, <5>1, <5>2 DEF Newer
        <5> QED BY <2>4, <3>1, <3>3, <3>4, <4>2, <5>4, <5>5
      <4>3. CASE Key(e) \notin Revision.seen /\ ~ Newer(a, e)
        BY <2>4, <3>1, <3>2, <3>3, <3>4, <4>3
      <4> QED BY <4>1, <4>2, <4>3
    <3>5. CASE e # s
      <4>1. e.at < s.at
        <5>1. e.at # s.at
          BY <2>7, <3>2, <3>5 DEF Straight
        <5> QED BY <3>1, <3>3, <5>1
      <4>2. CASE Revision'.accepted = a
        BY <1>1, <3>1, <3>5, <4>2
      <4>3. CASE Revision'.accepted = e /\ Revision'.accepted # a
        <5>1. ~ Newer(a, e)
          BY <2>4, <4>3
        <5>2. a.at <= e.at
          BY <3>3, <5>1 DEF Newer
        <5>3. s \notin told
          BY <3>1, <3>3, <4>1, <5>2
        <5> QED BY <1>1, <3>1, <3>5, <4>1, <4>3, <5>3
      <4> QED BY <2>4, <4>2, <4>3
    <3> QED BY <3>4, <3>5
  <2>8. \A f \in events : f.kind = "sync" => LivePushes # {}
    BY <1>0 DEF RevisionGood
  <2> QED BY <2>1, <2>5, <2>6, <2>7, <2>8 DEF RevisionGood
<1> QED BY <1>9, <1>10, <1>11 DEF TurnInvariant

\* Steps that do not touch the channel of revisions.
LEMMA RevisionStill ==
  ASSUME TurnInvariant, Revision' = Revision, UNCHANGED world, NEW e,
         told' = told \union {e} \/ told' = told, e.kind # "sync"
  PROVE  RevisionGood'
<1>1. LivePushes' = LivePushes /\ events' = events /\ head' = head /\ now' = now /\ Straight' = Straight
  BY DEF world, LivePushes, Straight
<1>2. told \subseteq told' /\ \A s \in LivePushes : s \in told' <=> s \in told
  BY DEF LivePushes
<1>3. RevisionGood
  BY DEF TurnInvariant
<1> QED BY <1>1, <1>2, <1>3 DEF RevisionGood

LEMMA AuthorKeeps ==
  ASSUME TurnInvariant, NEW e \in events, e.actor = Author, e.kind \in {"comment", "edit"},
         Hear(e, Accept(row, "contributor_comment", e))
  PROVE  TurnInvariant'
<1> DEFINE c == "contributor_comment"
<1>0. WorldGood /\ RowGood(row) /\ row \in Row /\ WordsGood /\ HandoffGood
  BY DEF TurnInvariant, RowGood
<1>1. UNCHANGED world /\ told' = told \union {e} /\ row' = Accept(row, c, e)
  BY DEF Hear
<1>2. /\ e \in Record /\ e.at \in Nat /\ e.at > 0 /\ e \in Word /\ c \in Channels /\ c # "review_dismissal"
  BY <1>0, HeardTyped DEF Channels
<1>3. /\ row'.reviewer = row.reviewer /\ row'.since = row.since /\ row'.head = row.head
      /\ \A d \in Channels \ {c} : row'.chan[d] = row.chan[d]
      /\ \/ row'.handoff = row.handoff
         \/ e.at > row.handoff.at /\ row'.handoff = Nothing
  BY <1>0, <1>1, <1>2, AcceptIs
<1>4. WorldGood' /\ RowGood(row)'
  <2>1. told' \subseteq events
    BY <1>0, <1>1 DEF WorldGood
  <2>2. RowGood(row')
    BY <1>0, <1>1, <1>2, AcceptGood
  <2> QED BY <1>0, <1>1, <2>1, <2>2, WorldTold, RowTold
<1>5. row.reviewer # Author
  BY <1>0, Other DEF RowGood
<1>6. FromAuthor' = FromAuthor \union {e} /\ FromReviewer' = FromReviewer
  BY <1>1, <1>3, <1>5 DEF FromAuthor, FromReviewer
<1>7. WordsGood'
  <2>1. \A f \in FromAuthor : f \in events /\ f.kind \in {"comment", "edit"}
    BY <1>0 DEF FromAuthor, WorldGood
  <2>2. FromAuthor \subseteq Word
    BY <1>0, <2>1, HeardTyped
  <2>3. \A f \in FromAuthor : f.n = e.n => f = e
    BY <1>0, <2>1 DEF WorldGood, Numbered
  <2>4. Holds(row.chan[c], FromAuthor)
    BY <1>0 DEF WordsGood
  <2>5. Holds(row'.chan[c], FromAuthor \union {e})
    BY <1>0, <1>1, <1>2, <2>2, <2>3, <2>4, WordTaken
  <2>6. row'.chan["reviewer_comment"] = row.chan["reviewer_comment"] /\ isPR' = isPR
    BY <1>1, <1>3 DEF Channels, world
  <2>7. Comments(FromReviewer)' = Comments(FromReviewer)
    BY <1>6 DEF Comments
  <2> QED BY <1>0, <1>6, <2>5, <2>6, <2>7 DEF WordsGood
<1>8. HandoffGood'
  <2>1. Feedbacks' = Feedbacks
    BY <1>6 DEF Feedbacks
  <2>2. isPR' = isPR
    BY <1>1 DEF world
  <2>3. \A f \in Feedbacks : f.at \in Nat
    BY <1>0, HeardTyped DEF Feedbacks, FromReviewer, WorldGood
  <2>4. row.handoff.at \in Nat
    BY <1>0, RowTypes, RecordTypes
  <2>5. Nothing.head = 0
    BY DEF Nothing
  <2>6. CASE row'.handoff = row.handoff
    BY <1>0, <1>3, <1>6, <2>1, <2>2, <2>6 DEF HandoffGood
  <2>7. CASE e.at > row.handoff.at /\ row'.handoff = Nothing
    <3>1. \A f \in Feedbacks : row.handoff.at >= f.at => e.at > f.at
      BY <1>2, <2>3, <2>4, <2>7
    <3> QED BY <1>0, <1>3, <1>6, <2>1, <2>2, <2>5, <2>7, <3>1 DEF HandoffGood
  <2> QED BY <1>3, <2>6, <2>7
<1>9. RevisionGood'
  <2>1. Revision' = Revision
    BY <1>3 DEF Revision, Channels
  <2> QED BY <1>1, <2>1, RevisionStill
<1> QED BY <1>4, <1>7, <1>8, <1>9 DEF TurnInvariant

\* A comment of somebody whose comments say nothing here.
LEMMA IgnoredKeeps ==
  ASSUME TurnInvariant, NEW e \in events, e.kind \in {"comment", "feedback"}, Hear(e, row),
         e.kind = "comment" => e.actor # Author /\ (isPR \/ e.actor # row.reviewer),
         e.kind = "feedback" /\ e.actor = row.reviewer /\ ~isPR =>
           row.handoff # Nothing /\ row.handoff.at >= e.at
  PROVE  TurnInvariant'
<1>0. WorldGood /\ RowGood(row) /\ HandoffGood
  BY DEF TurnInvariant
<1>1. UNCHANGED world /\ told' = told \union {e} /\ row' = row /\ isPR' = isPR
  BY DEF Hear, world
<1>2. WorldGood' /\ RowGood(row)'
  <2>1. told' \subseteq events
    BY <1>0, <1>1 DEF WorldGood
  <2> QED BY <1>0, <1>1, <2>1, WorldTold, RowTold
<1>3. Alike(row, row')
  BY <1>1 DEF Alike
<1>4. WordsGood'
  <2>1. \/ e.kind \notin {"comment", "edit"}
        \/ e.actor # Author /\ (isPR \/ e.actor # row.reviewer)
    OBVIOUS
  <2> QED BY <1>1, <1>3, <2>1, WordsKept
<1>5. HandoffGood'
  <2>1. Feedbacks \subseteq Feedbacks' /\ FromAuthor \subseteq FromAuthor'
    BY <1>1 DEF Feedbacks, FromReviewer, FromAuthor
  <2>2. ASSUME ~isPR, NEW f \in Feedbacks' PROVE f \in Feedbacks \/ (row.handoff # Nothing /\ row.handoff.at >= f.at)
    BY <1>1, <2>2 DEF Feedbacks, FromReviewer
  <2> QED BY <1>0, <1>1, <2>1, <2>2 DEF HandoffGood
<1>6. RevisionGood'
  BY <1>1, RevisionStill DEF Revision
<1> QED BY <1>2, <1>4, <1>5, <1>6 DEF TurnInvariant

\* The reviewer's comment on an issue.
LEMMA ReviewerKeeps ==
  ASSUME TurnInvariant, NEW e \in events, e.kind = "comment", e.actor = row.reviewer, ~isPR,
         Hear(e, Active(Accept(row, "reviewer_comment", e), e.at))
  PROVE  TurnInvariant'
<1> DEFINE c == "reviewer_comment"
           s == Accept(row, c, e)
<1>0. WorldGood /\ RowGood(row) /\ row \in Row /\ WordsGood /\ HandoffGood
  BY DEF TurnInvariant, RowGood
<1>1. UNCHANGED world /\ told' = told \union {e} /\ row' = Active(s, e.at) /\ isPR' = isPR
  BY DEF Hear, world
<1>2. /\ e \in Record /\ e.at \in Nat /\ e.at <= now /\ e \in Word /\ c \in Channels /\ c # "review_dismissal"
  BY <1>0, HeardTyped DEF Channels
<1>3. /\ s.reviewer = row.reviewer /\ s.since = row.since /\ s.head = row.head
      /\ \A d \in Channels \ {c} : s.chan[d] = row.chan[d]
      /\ s.handoff = row.handoff
  BY <1>0, <1>2, AcceptIs
<1>4. RowGood(s)
  BY <1>0, <1>2, AcceptGood
<1>5. row.reviewer # Author
  BY <1>0, Other DEF RowGood
<1>6. Holds(s.chan[c], Comments(FromReviewer) \union {e})
  <2>1. \A f \in Comments(FromReviewer) : f \in events /\ f.kind \in {"comment", "edit"}
    BY <1>0 DEF FromReviewer, Comments, WorldGood
  <2>2. Comments(FromReviewer) \subseteq Word
    BY <1>0, <2>1, HeardTyped
  <2>3. \A f \in Comments(FromReviewer) : f.n = e.n => f = e
    BY <1>0, <2>1 DEF WorldGood, Numbered
  <2>4. Holds(row.chan[c], Comments(FromReviewer))
    BY <1>0 DEF WordsGood
  <2> QED BY <1>0, <1>2, <2>2, <2>3, <2>4, WordTaken
<1> HIDE DEF s
<1>7. /\ RowGood(row') /\ row'.chan = s.chan /\ row'.handoff = s.handoff /\ row'.head = s.head
      /\ row'.reviewer = s.reviewer /\ row'.since = s.since
  BY <1>0, <1>1, <1>2, <1>4, ActiveGood
<1>8. WorldGood' /\ RowGood(row)'
  <2>1. told' \subseteq events
    BY <1>0, <1>1 DEF WorldGood
  <2> QED BY <1>0, <1>1, <1>7, <2>1, WorldTold, RowTold
<1>9. WordsGood'
  <2>1. FromAuthor' = FromAuthor
    BY <1>1, <1>5 DEF FromAuthor
  <2>2. Comments(FromReviewer)' = Comments(FromReviewer) \union {e}
    BY <1>1, <1>3, <1>7 DEF FromReviewer, Comments
  <2>3. row'.chan["contributor_comment"] = row.chan["contributor_comment"]
    BY <1>3, <1>7 DEF Channels
  <2> QED BY <1>0, <1>1, <1>6, <1>7, <2>1, <2>2, <2>3 DEF WordsGood
<1>10. HandoffGood'
  BY <1>1, <1>3, <1>7, HandoffStill
<1>11. RevisionGood'
  <2>1. Revision' = Revision
    BY <1>3, <1>7 DEF Revision, Channels
  <2> QED BY <1>1, <2>1, RevisionStill
<1> QED BY <1>8, <1>9, <1>10, <1>11 DEF TurnInvariant

LEMMA CommentKeeps ==
  ASSUME TurnInvariant, NEW e \in events, e.kind = "comment", CommentHandled(e)
  PROVE  TurnInvariant'
<1>1. CASE e.actor = Author
  BY <1>1, AuthorKeeps DEF CommentHandled
<1>2. CASE e.actor # Author /\ e.actor = row.reviewer /\ ~isPR
  BY <1>2, ReviewerKeeps DEF CommentHandled
<1>3. CASE e.actor # Author /\ ~ (e.actor = row.reviewer /\ ~isPR)
  <2>1. Hear(e, row)
    BY <1>3 DEF CommentHandled
  <2> QED BY <1>3, <2>1, IgnoredKeeps
<1> QED BY <1>1, <1>2, <1>3

LEMMA EditKeeps ==
  ASSUME TurnInvariant, NEW e \in events, e.kind = "edit", EditHandled(e)
  PROVE  TurnInvariant'
<1>1. e.actor = Author
  BY DEF TurnInvariant, WorldGood, EventGood
<1> QED BY <1>1, AuthorKeeps DEF EditHandled

LEMMA FeedbackKeeps ==
  ASSUME TurnInvariant, NEW e \in events, e.kind = "feedback", FeedbackHandled(e)
  PROVE  TurnInvariant'
<1> DEFINE given == [e EXCEPT !.head = row.head]
           taken == [row EXCEPT !.handoff = given]
           newer == row.handoff = Nothing \/ e.at > row.handoff.at
           counts == e.actor = row.reviewer /\ (isPR => row.head # 0) /\ newer
<1>0. WorldGood /\ RowGood(row) /\ row \in Row /\ WordsGood /\ HandoffGood
  BY DEF TurnInvariant, RowGood
<1>1. IF counts THEN Hear(e, Active(taken, e.at)) ELSE Hear(e, row)
  BY DEF FeedbackHandled
<1>2. e \in Record /\ e.at \in Nat /\ e.at <= now
  BY <1>0, HeardTyped
<1>3. row.handoff.at \in Nat /\ row.head \in Nat
  BY <1>0, RowTypes, RecordTypes
<1>4. CASE ~ counts
  <2>1. Hear(e, row)
    BY <1>1, <1>4
  <2>2. e.actor = row.reviewer /\ ~isPR => row.handoff # Nothing /\ row.handoff.at >= e.at
    BY <1>2, <1>3, <1>4
  <2> QED BY <2>1, <2>2, IgnoredKeeps
<1>5. CASE counts
  <2>1. UNCHANGED world /\ told' = told \union {e} /\ row' = Active(taken, e.at) /\ isPR' = isPR
    BY <1>1, <1>5 DEF Hear, world
  <2>2. e.actor = row.reviewer /\ newer
    BY <1>5
  <2>3. /\ given \in Record /\ given.kind = "feedback" /\ given.at = e.at /\ given.head = row.head
    BY <1>2, <1>3 DEF Record
  <2>4. /\ taken \in Row /\ taken.chan = row.chan /\ taken.handoff = given /\ taken.head = row.head
        /\ taken.reviewer = row.reviewer /\ taken.since = row.since /\ taken.activity = row.activity
        /\ taken.completed = row.completed /\ taken.byLabel = row.byLabel
    <3> HIDE DEF given
    <3> QED BY <1>0, <2>3 DEF Row, Record, Person
  <2> HIDE DEF taken, counts, newer
  <2>5. RowGood(taken)
    BY <1>0, <2>3, <2>4 DEF RowGood
  <2>6. /\ RowGood(row') /\ row'.chan = row.chan /\ row'.handoff = given /\ row'.head = row.head
        /\ row'.reviewer = row.reviewer /\ row'.since = row.since
    BY <1>0, <1>2, <2>1, <2>4, <2>5, ActiveGood
  <2>7. WorldGood' /\ RowGood(row)'
    <3>1. told' \subseteq events
      BY <1>0, <2>1 DEF WorldGood
    <3> QED BY <1>0, <2>1, <2>6, <3>1, WorldTold, RowTold
  <2>8. FromAuthor' = FromAuthor /\ Comments(FromReviewer)' = Comments(FromReviewer)
        /\ Feedbacks' = Feedbacks \union {e}
    BY <2>1, <2>2, <2>6 DEF FromAuthor, FromReviewer, Comments, Feedbacks
  <2>9. WordsGood'
    BY <1>0, <2>1, <2>6, <2>8 DEF WordsGood
  <2>10. HandoffGood'
    <3>1. row'.handoff = [e EXCEPT !.head = row'.handoff.head] /\ e \in Feedbacks'
      BY <2>3, <2>6, <2>8
    <3>2. given # Nothing
      BY <2>3 DEF Nothing
    <3>3. ASSUME ~isPR, NEW f \in Feedbacks', f.at >= row.since
          PROVE  row'.handoff.at >= f.at \/ \E c \in FromAuthor : c.at > f.at
      <4>1. CASE f = e
        BY <1>2, <2>3, <2>6, <4>1
      <4>2. CASE f \in Feedbacks
        <5>1. f.at \in Nat
          BY <1>0, <4>2, HeardTyped DEF Feedbacks, FromReviewer, WorldGood
        <5>2. \/ row.handoff # Nothing /\ row.handoff.at >= f.at
              \/ \E c \in FromAuthor : c.at > f.at
          BY <1>0, <3>3, <4>2 DEF HandoffGood
        <5> QED BY <1>2, <1>3, <2>2, <2>3, <2>6, <5>1, <5>2 DEF newer
      <4> QED BY <2>8, <4>1, <4>2
    <3>4. ~isPR => row'.head = 0 /\ row'.handoff.head = 0
      BY <1>0, <2>3, <2>6 DEF HandoffGood
    <3> HIDE DEF given
    <3> QED BY <2>1, <2>6, <2>8, <3>1, <3>2, <3>3, <3>4 DEF HandoffGood
  <2>11. RevisionGood'
    <3>1. Revision' = Revision
      BY <2>6 DEF Revision
    <3> QED BY <2>1, <3>1, RevisionStill
  <2> QED BY <2>7, <2>9, <2>10, <2>11 DEF TurnInvariant
<1> QED BY <1>4, <1>5

LEMMA ReviewHeard ==
  ASSUME TurnInvariant, NEW e \in events, e.kind = "review", NEW how \in Answers, ReviewHandled(e, how)
  PROVE  TurnInvariant'
<1> DEFINE r == CHOOSE q \in reviews : q.n = e.n
           repaired == HeadRepaired(row)
           trusted == r.head = head /\ r.state # "DISMISSED" /\ e.actor = row.reviewer
           accepted == Accept(repaired, "reviewer_review", AsRecord(r))
           taken == IF trusted THEN Active(accepted, r.at) ELSE repaired
<1>0. WorldGood /\ RowGood(row)
  BY DEF TurnInvariant
<1>1. UNCHANGED world /\ told' = told \union {e} /\ row' = LiveRebuilt(taken, how)
  BY DEF ReviewHandled, Hear
<1>2. isPR /\ \E q \in reviews : q.n = e.n
  BY <1>0 DEF WorldGood, EventGood, Pulls
<1>3. r \in reviews
  BY <1>2
<1>4. RowGood(repaired) /\ Repairs(row, repaired)
  BY <1>0, HeadRepairedGood
<1>5. r.at \in Nat /\ r.at <= now /\ AsRecord(r) \in Record
  <2>1. r \in LiveReview /\ r.at \in 1 .. now /\ now \in Nat
    BY <1>0, <1>3 DEF WorldGood
  <2> HIDE DEF r
  <2> QED BY <2>1, CandidatesAssumption DEF AsRecord, Record, Person, Kinds, LiveReview
<1> HIDE DEF r, repaired
<1>6. RowGood(accepted) /\ Keeps(repaired, accepted)
  BY <1>4, <1>5, AcceptGood DEF Channels
<1> HIDE DEF accepted
<1>7. RowGood(Active(accepted, r.at)) /\ Keeps(accepted, Active(accepted, r.at))
  BY <1>0, <1>5, <1>6, ActiveGood
<1>8. RowGood(taken) /\ Repairs(row, taken)
  BY <1>4, <1>6, <1>7, KeepsChains
<1> HIDE DEF taken
<1>9. RowGood(row') /\ Repairs(row, row')
  BY <1>0, <1>1, <1>8, LiveRebuiltGood, KeepsChains
<1> QED BY <1>1, <1>2, <1>9, RepairsKeep

LEMMA DismissalHeard ==
  ASSUME TurnInvariant, NEW e \in events, e.kind = "dismissal", NEW how \in Answers,
         DismissalHandled(e, how)
  PROVE  TurnInvariant'
<1> DEFINE s == Accept(row, "review_dismissal", e)
           repaired == HeadRepaired(s)
<1>0. WorldGood /\ RowGood(row) /\ row \in Row
  BY DEF TurnInvariant, RowGood
<1>1. UNCHANGED world /\ told' = told \union {e} /\ row' = LiveRebuilt(repaired, how)
  BY DEF DismissalHandled, Hear
<1>2. isPR /\ e \in Record
  BY <1>0 DEF WorldGood, EventGood, Pulls
<1>3. RowGood(s) /\ Keeps(row, s)
  BY <1>0, <1>2, AcceptGood DEF Channels
<1>4. s.chan["contributor_revision"] = row.chan["contributor_revision"] /\ s \in Row
  BY <1>3 DEF Keeps, RowGood
<1> HIDE DEF s
<1>5. RowGood(repaired) /\ Repairs(s, repaired)
  BY <1>0, <1>3, HeadRepairedGood
<1> HIDE DEF repaired
<1>6. Repairs(row, repaired)
  <2>1. Alike(row, repaired)
    BY <1>3, <1>5, AlikeChains DEF Keeps, Repairs
  <2>2. Accept(s, "contributor_revision", Observation).chan["contributor_revision"]
          = Accept(row, "contributor_revision", Observation).chan["contributor_revision"]
    BY <1>0, <1>4, ObservedAlike
  <2> QED BY <1>4, <1>5, <2>1, <2>2 DEF Repairs
<1>7. RowGood(row') /\ Repairs(row, row')
  BY <1>0, <1>1, <1>5, <1>6, LiveRebuiltGood, KeepsChains
<1> QED BY <1>1, <1>2, <1>7, RepairsKeep

\* Runs that only sign off or take a sign-off back.
LEMMA OwnKeeps ==
  ASSUME TurnInvariant, UNCHANGED <<world, told>>, RowGood(row'), Keeps(row, row'),
         row'.handoff = row.handoff, row'.head = row.head,
         row'.reviewer = row.reviewer, row'.since = row.since
  PROVE  TurnInvariant'
<1> DEFINE e == [kind |-> "none"]
<1>1. e.kind \notin {"comment", "edit", "feedback", "sync"} /\ told' = told /\ UNCHANGED isPR
  BY DEF world
<1> HIDE DEF e
<1>2. WorldGood /\ told \subseteq events
  BY DEF TurnInvariant, WorldGood
<1>3. WorldGood' /\ RowGood(row)'
  BY <1>1, <1>2, WorldTold, RowTold
<1>4. Alike(row, row') /\ Revision' = Revision
  BY DEF Keeps, Revision
<1>5. WordsGood'
  BY <1>1, <1>4, WordsKept
<1>6. HandoffGood'
  BY <1>1, HandoffStill
<1>7. RevisionGood'
  BY <1>1, <1>4, RevisionStill
<1> QED BY <1>3, <1>5, <1>6, <1>7 DEF TurnInvariant

LEMMA SettlingKeeps == TurnInvariant /\ (SignedOff \/ SignOffTaken \/ Reopened) => TurnInvariant'
<1> SUFFICES ASSUME TurnInvariant, SignedOff \/ SignOffTaken \/ Reopened PROVE TurnInvariant'
  OBVIOUS
<1>1. WorldGood /\ RowGood(row) /\ now \in Nat
  BY DEF TurnInvariant, WorldGood
<1>2. CASE SignedOff
  <2> DEFINE s == Active(row, now)
  <2>1. /\ RowGood(s) /\ Keeps(row, s) /\ s.handoff = row.handoff /\ s.head = row.head
        /\ s.reviewer = row.reviewer /\ s.since = row.since
    BY <1>1, ActiveGood
  <2>2. row' = [s EXCEPT !.completed = TRUE, !.byLabel = TRUE] /\ UNCHANGED <<world, told>>
    BY <1>2 DEF SignedOff, Own
  <2> HIDE DEF s
  <2>3. /\ RowGood(row') /\ Keeps(s, row') /\ row'.handoff = s.handoff /\ row'.head = s.head
        /\ row'.reviewer = s.reviewer /\ row'.since = s.since
    BY <2>1, <2>2, SettledGood
  <2>4. Keeps(row, row')
    BY <2>1, <2>3, AlikeChains DEF Keeps
  <2> QED BY <2>1, <2>2, <2>3, <2>4, OwnKeeps
<1>3. CASE SignOffTaken \/ Reopened
  <2>1. row' = Incomplete(row) /\ UNCHANGED <<world, told>>
    BY <1>3 DEF SignOffTaken, Reopened, Own
  <2> QED BY <1>1, <2>1, IncompleteGood, OwnKeeps
<1> QED BY <1>2, <1>3

LEMMA RepairingKeeps == TurnInvariant /\ (Rectify \/ Scheduled \/ ScheduledBlind) => TurnInvariant'
<1> SUFFICES ASSUME TurnInvariant, Rectify \/ Scheduled \/ ScheduledBlind PROVE TurnInvariant'
  OBVIOUS
<1>1. WorldGood /\ RowGood(row)
  BY DEF TurnInvariant
<1>2. isPR /\ UNCHANGED world /\ told' = told
  BY DEF Rectify, Scheduled, ScheduledBlind, Own
<1>3. RowGood(HeadRepaired(row)) /\ Repairs(row, HeadRepaired(row))
  BY <1>1, HeadRepairedGood
<1>4. RowGood(row') /\ Repairs(row, row')
  <2>1. CASE Rectify
    <3> DEFINE s == HeadRepaired(row)
    <3>1. row' = Rebuilt(Refreshed(s), TRUE)
      BY <2>1 DEF Rectify, Rectified, Own
    <3> HIDE DEF s
    <3>2. RowGood(Refreshed(s)) /\ Keeps(s, Refreshed(s))
      BY <1>1, <1>3, RefreshedGood DEF s
    <3>3. RowGood(row') /\ Keeps(Refreshed(s), row')
      BY <1>1, <3>1, <3>2, RebuiltGood
    <3> QED BY <1>3, <3>2, <3>3, KeepsChains DEF s
  <2>2. CASE Scheduled
    <3> DEFINE s == Refreshed(row)
    <3>1. row' = HeadRepaired(s)
      BY <2>2 DEF Scheduled, Own
    <3>2. RowGood(s) /\ Keeps(row, s)
      BY <1>1, RefreshedGood
    <3>3. RowGood(s) /\ s \in Row
      BY <3>2 DEF RowGood
    <3> HIDE DEF s
    <3>4. RowGood(row') /\ Repairs(s, row')
      BY <1>1, <3>1, <3>2, HeadRepairedGood
    <3>5. Alike(row, row')
      BY <3>2, <3>4, AlikeChains DEF Keeps, Repairs
    <3>6. Accept(s, "contributor_revision", Observation).chan["contributor_revision"]
            = Accept(row, "contributor_revision", Observation).chan["contributor_revision"]
      BY <1>1, <3>2, <3>3, ObservedAlike DEF RowGood, Keeps
    <3> QED BY <3>2, <3>4, <3>5, <3>6 DEF Keeps, Repairs
  <2>3. CASE ScheduledBlind
    BY <1>3, <2>3 DEF ScheduledBlind, Own
  <2> QED BY <2>1, <2>2, <2>3
<1> QED BY <1>2, <1>4, RepairsKeep

LEMMA ReassignKeeps == TurnInvariant /\ Reassign => TurnInvariant'
<1> SUFFICES ASSUME TurnInvariant, Reassign PROVE TurnInvariant'
  OBVIOUS
<1>0. WorldGood /\ RowGood(row) /\ row \in Row /\ RevisionGood
  BY DEF TurnInvariant, RowGood
<1>1. PICK p \in Candidates : row' = NewCycle(row, p, now')
  BY DEF Reassign
<1>2. told' = {} /\ UNCHANGED <<isPR, head, reviews, events>>
  BY DEF Reassign
<1>3. now \in Nat /\ now' \in Nat /\ now <= now' /\ now' \in 1 .. MaxTime
  <2>1. now' \in Later
    BY DEF Reassign
  <2> QED BY <1>0, <2>1, LaterIs
<1>4. WorldGood'
  <2>1. ASSUME NEW e \in events PROVE EventGood(e)'
    <3>1. EventGood(e)
      BY <1>0 DEF WorldGood
    <3>2. e.at \in 1 .. now'
      BY <1>3, <3>1 DEF EventGood
    <3> QED BY <1>2, <3>1, <3>2 DEF EventGood
  <2>2. \A r \in reviews : r.at \in 1 .. now'
    BY <1>0, <1>3 DEF WorldGood
  <2> QED BY <1>0, <1>2, <1>3, <2>1, <2>2 DEF WorldGood
<1>5. /\ row' \in Row /\ row'.reviewer = p /\ row'.since = now' /\ row'.head = 0
      /\ row'.activity <= now' /\ row'.handoff = Nothing /\ row'.chan = [c \in Channels |-> Empty]
      /\ row'.completed = FALSE /\ row'.byLabel = FALSE
  <2>1. PICK a \in Nat : a = (IF now' > row.activity THEN now' ELSE row.activity)
    BY <1>0, <1>3, RowTypes
  <2>2. a <= now'
    BY <1>0, <1>3, <2>1 DEF RowGood
  <2>3. Active(row, now') = [row EXCEPT !.activity = a]
    BY <1>0, <2>1 DEF Active, Row
  <2>4. [c \in Channels |-> Empty] \in [Channels -> [accepted : Record, seen : SUBSET (Nat \X Nat)]]
    BY NothingTyped DEF Empty
  <2>5. p \in People \union {NoOne} /\ Nothing \in Record
    BY CandidatesAssumption, NothingTyped
  <2>6. row' = [[row EXCEPT !.activity = a] EXCEPT !.reviewer = p, !.since = now', !.head = 0,
                   !.handoff = Nothing, !.chan = [c \in Channels |-> Empty],
                   !.completed = FALSE, !.byLabel = FALSE]
    BY <1>1, <2>3 DEF NewCycle
  <2> QED BY <1>0, <1>3, <2>2, <2>4, <2>5, <2>6 DEF Row, Record, Person
<1>6. RowGood(row)'
  <2>1. Nothing.kind = "none" /\ 0 <= MaxHead
    BY TurnBoundAssumption DEF Nothing
  <2>2. now' <= now'
    BY <1>3
  <2> QED BY <1>5, <2>1, <2>2 DEF RowGood
<1>7. /\ Revision' = Empty /\ row'.chan["contributor_comment"] = Empty
      /\ row'.chan["reviewer_comment"] = Empty /\ Empty.accepted = Nothing /\ Empty.seen = {}
  BY <1>5 DEF Revision, Channels, Empty
<1>8. WordsGood'
  BY <1>2, <1>7 DEF WordsGood, Holds, Foremost, FromAuthor, FromReviewer, Comments
<1>9. HandoffGood'
  <2>1. Nothing.head = 0
    BY DEF Nothing
  <2> QED BY <1>2, <1>5, <2>1 DEF HandoffGood, Feedbacks, FromReviewer
<1>10. RevisionGood'
  <2>1. LivePushes' = LivePushes /\ Straight' = Straight
    BY <1>2 DEF LivePushes, Straight
  <2>2. Nothing.at = 0 /\ \A s \in LivePushes : s.at \in 1 .. now
    BY <1>0 DEF Nothing, LivePushes, WorldGood, EventGood
  <2>3. \A s \in LivePushes : 0 < s.at
    BY <1>3, <2>2
  <2> QED BY <1>0, <1>2, <1>7, <2>1, <2>2, <2>3 DEF RevisionGood
<1> QED BY <1>4, <1>6, <1>8, <1>9, <1>10 DEF TurnInvariant

LEMMA StutterKeeps == TurnInvariant /\ UNCHANGED vars => TurnInvariant'
BY DEF TurnInvariant, vars, WorldGood, EventGood, RowGood, WordsGood, FromAuthor, FromReviewer, Comments,
       HandoffGood, Feedbacks, RevisionGood, Revision, LivePushes, Straight

LEMMA TurnStep == TurnInvariant /\ [Next]_vars => TurnInvariant'
<1> SUFFICES ASSUME TurnInvariant, [Next]_vars PROVE TurnInvariant'
  OBVIOUS
<1>1. CASE Told
  BY <1>1, CommentKeeps, FeedbackKeeps, EditKeeps, SyncKeeps, ReviewHeard, DismissalHeard DEF Told
<1>2. CASE Deeds \/ SignedOff \/ SignOffTaken \/ Reopened
  BY <1>2, DeedsKeep, SettlingKeeps
<1>3. CASE Rectify \/ Scheduled \/ ScheduledBlind \/ Reassign
  BY <1>3, RepairingKeeps, ReassignKeeps
<1>4. CASE UNCHANGED vars
  BY <1>4, StutterKeeps
<1> QED BY <1>1, <1>2, <1>3, <1>4 DEF Next, Bot

\* What is known of the events and of the row holds at all times: the row has
\* the newest of the words the bot heard of, whatever the order and the number of
\* times it heard of them (accept_channel_event), no /feedback on an issue is
\* forgotten before the author spoke again, and the accepted revision keeps up
\* with the push of the live head.
THEOREM TurnInvariantHolds == Spec => []TurnInvariant
<1>1. Init => TurnInvariant
  BY TurnInit
<1>2. TurnInvariant /\ [Next]_vars => TurnInvariant'
  BY TurnStep
<1> QED BY <1>1, <1>2, PTL DEF Spec

-----------------------------------------------------------------------------
(* What follows *)

LEMMA AcceptedWords ==
  ASSUME TurnInvariant
  PROVE  /\ row.chan["contributor_comment"].accepted = Newest(FromAuthor)
         /\ Foremost(row.chan["contributor_comment"].accepted, FromAuthor)
         /\ FromAuthor \subseteq Word /\ Comments(FromReviewer) \subseteq Word /\ FromReviewer \subseteq Record
         /\ ~isPR => /\ row.chan["reviewer_comment"].accepted = Newest(Comments(FromReviewer))
                     /\ Foremost(row.chan["reviewer_comment"].accepted, Comments(FromReviewer))
<1>1. WorldGood /\ WordsGood
  BY DEF TurnInvariant
<1>2. \A e \in told : e \in Record /\ (e.kind \in {"comment", "edit"} => e \in Word)
  BY <1>1, HeardTyped DEF WorldGood
<1>3. FromAuthor \subseteq Word /\ Comments(FromReviewer) \subseteq Word /\ FromReviewer \subseteq Record
  BY <1>2 DEF FromAuthor, FromReviewer, Comments
<1>4. FromAuthor \in SUBSET Record /\ Comments(FromReviewer) \in SUBSET Record
  BY <1>3 DEF Word
<1> QED BY <1>1, <1>3, <1>4, ForemostIsNewest DEF WordsGood, Holds

\* In whatever order and how often events arrive, the comment that stands for
\* the author, and on an issue for the reviewer, is the newest one heard of
\* (accept_channel_event, record_conversation_freshness).
THEOREM NewestWinsHolds == Spec => []NewestWins
<1>1. TurnInvariant => NewestWins
  <2> SUFFICES ASSUME TurnInvariant PROVE NewestWins
    OBVIOUS
  <2>1. WorldGood /\ RowGood(row) /\ row \in Row /\ now \in Nat /\ MaxHead \in Nat
    BY TurnBoundAssumption DEF TurnInvariant, RowGood, WorldGood
  <2>2. /\ row.since \in Nat /\ row.head \in Nat /\ row.activity \in Nat /\ row.completed \in BOOLEAN
        /\ \A c \in Channels : row.chan[c].accepted \in Record
    BY <2>1, RowTypes
  <2>3. \A c \in Channels : row.chan[c].accepted.kind \in Kinds
    BY <2>2, RecordTypes
  <2>4. TurnTypeOK
    BY <2>1, <2>2, <2>3 DEF TurnTypeOK, WorldGood, RowGood
  <2> QED BY <2>4, AcceptedWords DEF NewestWins
<1> QED BY <1>1, TurnInvariantHolds, PTL

\* /rectify leaves in the state what GitHub shows (reconcile_active_review_entry).
THEOREM RectifyAgreesHolds == Spec => RectifyAgrees
<1> DEFINE Agrees == Rectify =>
                /\ row'.head = head
                /\ row'.completed <=> \E r \in OnHead(row, reviews, head) : r.actor = row.reviewer
                /\ LET his == Valid(row, reviews)
                   IN  his # {} => row'.chan["reviewer_review"].accepted \in {AsRecord(r) : r \in his}
<1>1. TurnInvariant /\ [Next]_vars => [Agrees]_vars
  <2> SUFFICES ASSUME TurnInvariant, Rectify PROVE Agrees
    OBVIOUS
  <2> DEFINE s == HeadRepaired(row)
             t == Refreshed(s)
  <2>1. WorldGood /\ RowGood(row) /\ row' = Rebuilt(t, TRUE)
    BY DEF TurnInvariant, Rectify, Rectified, Own
  <2>2. RowGood(s) /\ s.reviewer = row.reviewer /\ s.since = row.since
    BY <2>1, HeadRepairedGood DEF Repairs, Alike
  <2> HIDE DEF s
  <2>3. /\ RowGood(t) /\ t.reviewer = row.reviewer /\ t.since = row.since
        /\ Valid(s, reviews) # {} =>
             \E q \in Valid(s, reviews) : t.chan["reviewer_review"].accepted = AsRecord(q)
    BY <2>1, <2>2, RefreshedGood DEF Keeps, Alike
  <2> HIDE DEF t
  <2>4. Approval(t, reviews, head, TRUE).ok
    BY <2>1, ApprovalKnown
  <2>5. /\ row'.head = head /\ row'.chan = t.chan
        /\ row'.completed <=> \E q \in OnHead(t, reviews, head) : q.actor = t.reviewer
    BY <2>1, <2>3, <2>4, RebuiltGood
  <2>6. Valid(s, reviews) = Valid(row, reviews) /\ OnHead(t, reviews, head) = OnHead(row, reviews, head)
    BY <2>2, <2>3 DEF Valid, OnHead
  <2> QED BY <2>3, <2>5, <2>6
<1> QED BY <1>1, TurnInvariantHolds, PTL DEF Spec, RectifyAgrees

LEMMA NothingIs == Nothing.kind = "none" /\ Nothing.at = 0 /\ Nothing.head = 0 /\ Nothing \in Record
BY NothingTyped DEF Nothing

\* Of several words of the reviewer one is the newest.
LEMMA NewestIs ==
  ASSUME NEW S \in SUBSET Record, IsFiniteSet(S), S # {},
         \A e, f \in S : e # f => Newer(e, f) \/ Newer(f, e)
  PROVE  Newest(S) \in S /\ \A f \in S \ {Newest(S)} : Newer(Newest(S), f)
<1> DEFINE R == {p \in S \X S : Newer(p[1], p[2])}
<1>1. \A x, y \in S : <<x, y>> \in R <=> Newer(x, y)
  OBVIOUS
<1> HIDE DEF R
<1>2. /\ \A x \in S : <<x, x>> \notin R
      /\ \A x, y, z \in S : <<x, y>> \in R /\ <<y, z>> \in R => <<x, z>> \in R
  BY <1>1, NewerOrder
<1>3. PICK x \in S : \A y \in S : <<y, x>> \notin R
  BY <1>2, FiniteTop
<1>4. \A y \in S \ {x} : Newer(x, y)
  BY <1>1, <1>3
<1> QED BY <1>4 DEF Newest

\* What counts of the reviewer's words on an issue.
Mine == {e \in FromReviewer : e.kind = "feedback" => e.at >= row.since}

LEMMA MineIs ==
  ASSUME TurnInvariant, ~isPR
  PROVE  /\ Mine \subseteq Record /\ \A e \in Mine : e.kind \in {"comment", "feedback"} /\ e.at > 0
         /\ Comments(FromReviewer) \subseteq Mine
         /\ \A e \in Mine : e.kind = "comment" => e \in Comments(FromReviewer)
         /\ \A e \in Mine : e.kind = "feedback" => e \in Feedbacks /\ e.at >= row.since
         /\ Mine # {} => Newest(Mine) \in Mine
<1>0. WorldGood /\ RowGood(row)
  BY DEF TurnInvariant
<1>1. \A e \in Mine : e \in events /\ EventGood(e) /\ e.actor = row.reviewer
  BY <1>0 DEF Mine, FromReviewer, WorldGood
<1>2. row.reviewer # Author
  BY <1>0, Other DEF RowGood
<1>3. ASSUME NEW e \in Mine PROVE e \in Record /\ e.kind \in {"comment", "feedback"} /\ e.at > 0
  <2>1. e \in events /\ EventGood(e) /\ e.actor = row.reviewer
    BY <1>1
  <2>2. e.kind \in Numbered /\ e.kind # "edit" /\ e.kind # "review"
    BY <1>2, <2>1 DEF EventGood, Pulls
  <2>3. e \in Record /\ e.at > 0
    BY <1>0, <2>1, HeardTyped
  <2> QED BY <2>2, <2>3 DEF Numbered
<1>4. \A e, f \in Mine : e # f => e.n # f.n
  BY <1>0, <1>1, <1>3 DEF WorldGood, Numbered
<1>5. \A e, f \in Mine : e # f => Newer(e, f) \/ Newer(f, e)
  <2> SUFFICES ASSUME NEW e \in Mine, NEW f \in Mine, e # f PROVE Newer(e, f) \/ Newer(f, e)
    OBVIOUS
  <2>1. Key(e) # Key(f)
    BY <1>4 DEF Key
  <2> QED BY <1>3, <2>1, NewerOrder
<1>6. Mine \subseteq events /\ IsFiniteSet(Mine)
  BY <1>0, <1>1, FS_Subset DEF WorldGood
<1>7. Mine # {} => Newest(Mine) \in Mine
  <2>1. Mine \in SUBSET Record
    BY <1>3
  <2> HIDE DEF Mine
  <2> QED BY <1>5, <1>6, <2>1, NewestIs
<1>8. Comments(FromReviewer) \subseteq Mine /\ \A e \in Mine : e.kind = "comment" => e \in Comments(FromReviewer)
  BY DEF Comments, Mine
<1>9. \A e \in Mine : e.kind = "feedback" => e \in Feedbacks /\ e.at >= row.since
  BY DEF Mine, Feedbacks
<1>10. Mine \subseteq Record
  BY <1>3
<1> QED BY <1>3, <1>7, <1>8, <1>9, <1>10

\* The row of an issue as derive_reviewer_response_state reads it.
LEMMA IssueReads ==
  ASSUME TurnInvariant, ~isPR
  PROVE  LET noted == HandoffRecord(row, 0)
             comment == ByReviewer(row, row.chan["reviewer_comment"].accepted)
         IN  /\ noted = Nothing \/ (noted = row.handoff /\ noted.kind = "feedback" /\ noted.at > 0)
             /\ row.handoff # Nothing /\ row.handoff.at >= row.since => noted = row.handoff
             /\ noted # Nothing => \E f \in Mine : f.kind = "feedback" /\ noted.at = f.at
             /\ comment = row.chan["reviewer_comment"].accepted
             /\ comment \in Record /\ row.reviewer # NoOne
<1>0. WorldGood /\ RowGood(row) /\ row \in Row /\ HandoffGood
  BY DEF TurnInvariant, RowGood
<1> DEFINE noted == HandoffRecord(row, 0)
           a == row.chan["reviewer_comment"].accepted
           comment == ByReviewer(row, a)
<1>1. row.reviewer # NoOne
  BY <1>0, CandidatesAssumption, PolicyAssumption DEF RowGood
<1>2. a \in Record
  BY <1>0, RowTypes DEF Channels
<1>3. comment = a
  <2>1. Foremost(a, Comments(FromReviewer))
    BY AcceptedWords
  <2>2. a = Nothing \/ a.actor = row.reviewer
    BY <2>1 DEF Foremost, Comments, FromReviewer
  <2> QED BY <2>2 DEF ByReviewer
<1>4. row.handoff # Nothing =>
        \E f \in Feedbacks : row.handoff.kind = f.kind /\ row.handoff.at = f.at /\ row.handoff.actor = f.actor
  <2> SUFFICES ASSUME row.handoff # Nothing
               PROVE \E f \in Feedbacks : /\ row.handoff.kind = f.kind /\ row.handoff.at = f.at
                                         /\ row.handoff.actor = f.actor
    OBVIOUS
  <2>1. PICK f \in Feedbacks : row.handoff = [f EXCEPT !.head = row.handoff.head]
    BY <1>0 DEF HandoffGood
  <2>2. f \in Record
    BY <1>0, HeardTyped DEF Feedbacks, FromReviewer, WorldGood
  <2> QED BY <2>1, <2>2 DEF Record
<1>5. \A f \in Feedbacks : f \in FromReviewer /\ f.kind = "feedback" /\ f.actor = row.reviewer /\ f.at > 0
  BY <1>0, HeardTyped DEF Feedbacks, FromReviewer, WorldGood
<1>6. ~isPR => row.handoff.head = 0
  BY <1>0 DEF HandoffGood
<1>7. noted = IF row.handoff.actor = row.reviewer /\ row.handoff.at >= row.since /\ row.handoff.head = 0
                THEN row.handoff ELSE Nothing
  BY DEF HandoffRecord
<1>8. noted # Nothing => row.handoff # Nothing /\ row.handoff.at >= row.since /\ noted = row.handoff
  BY <1>7
<1>9. noted # Nothing => \E f \in Mine : f.kind = "feedback" /\ noted.at = f.at
  BY <1>4, <1>5, <1>8 DEF Mine
<1>10. row.handoff # Nothing => row.handoff.actor = row.reviewer /\ row.handoff.kind = "feedback" /\ row.handoff.at > 0
  BY <1>4, <1>5
<1> HIDE DEF noted, comment, a
<1> QED BY <1>1, <1>2, <1>3, <1>6, <1>7, <1>8, <1>9, <1>10 DEF noted, comment, a

LEMMA CrossOfNothing ==
  ASSUME NEW e \in Record
  PROVE  ~ CrossNewer(Nothing, e)
<1>1. KeyClass["none"] = 0 /\ KeyClass[e.kind] \in 0 .. 5 /\ e.at \in Nat /\ e.n \in Nat
  BY Classes, RecordTypes
<1> QED BY <1>1 DEF CrossNewer, KeyAbove, Nothing

\* On an issue it is the turn that the last words of both sides make it
\* (derive_reviewer_response_state), late and repeated events notwithstanding.
THEOREM IssueTurnHolds == Spec => []IssueTurn
<1>1. TurnInvariant => IssueTurn
  <2> DEFINE Spoke(e, S) == \A f \in S : e.at > f.at
             last == Newest(Mine)
             author == Newest(FromAuthor)
             heard == row.chan["reviewer_comment"].accepted
             noted == HandoffRecord(row, 0)
             handoff == IF CrossNewer(author, noted) THEN Nothing ELSE noted
             answer == IF handoff # Nothing /\ Newer(handoff, heard) THEN handoff ELSE heard
  <2>1. ASSUME TurnInvariant, ~isPR
        PROVE  Turn = IF handoff # Nothing /\ answer = handoff THEN "awaiting_contributor_response"
                      ELSE IF row.completed THEN "done"
                      ELSE IF answer = Nothing \/ CrossNewer(author, answer)
                        THEN "awaiting_reviewer_response"
                      ELSE "awaiting_contributor_response"
    <3>1. /\ ByReviewer(row, heard) = heard /\ row.reviewer # NoOne
          /\ row.chan["contributor_comment"].accepted = author
      BY <2>1, IssueReads, AcceptedWords
    <3>2. Turn = IssueResponse(row)
      BY <2>1 DEF Turn, Response
    <3> HIDE DEF noted, author, heard
    <3> QED BY <3>1, <3>2 DEF IssueResponse, noted, heard
  <2>2. ASSUME TurnInvariant, ~isPR
        PROVE  /\ author \in Record /\ heard \in Record /\ noted \in Record
               /\ FromAuthor # {} => author \in FromAuthor /\ author.at > 0
               /\ FromAuthor = {} => author = Nothing
               /\ noted = Nothing \/ (noted = row.handoff /\ noted.kind = "feedback" /\ noted.at > 0)
               /\ row.handoff # Nothing /\ row.handoff.at >= row.since => noted = row.handoff
               /\ noted # Nothing => \E f \in Mine : f.kind = "feedback" /\ noted.at = f.at
               /\ Foremost(heard, Comments(FromReviewer))
               /\ heard # Nothing => heard \in Comments(FromReviewer)
    <3>1. row \in Row /\ row.handoff \in Record
      BY <2>2, RowTypes DEF TurnInvariant, RowGood
    <3>2. /\ author = row.chan["contributor_comment"].accepted /\ Foremost(author, FromAuthor)
          /\ FromAuthor \subseteq Word /\ Foremost(heard, Comments(FromReviewer))
      BY <2>2, AcceptedWords
    <3>3. author \in Record /\ heard \in Record
      BY <3>1, <3>2, RowTypes DEF Channels
    <3> HIDE DEF author, heard
    <3>4. /\ FromAuthor # {} => author \in FromAuthor /\ author.at > 0
          /\ FromAuthor = {} => author = Nothing
          /\ heard # Nothing => heard \in Comments(FromReviewer)
      BY <3>2 DEF Foremost, Word
    <3> HIDE DEF noted
    <3> QED BY <2>2, <3>1, <3>2, <3>3, <3>4, IssueReads, NothingIs DEF noted, author, heard
  <2> HIDE DEF author, heard, noted, last
  <2>3. ASSUME TurnInvariant, ~isPR, FromAuthor # {}, Spoke(author, Mine)
        PROVE  Turn = IF row.completed THEN "done" ELSE "awaiting_reviewer_response"
    <3>1. handoff = Nothing
      <4>1. author.at > noted.at
        BY <2>2, <2>3, NothingIs
      <4> QED BY <2>2, <2>3, <4>1, CrossOrder
    <3>2. answer = heard
      BY <3>1
    <3>3. heard # Nothing => author.at > heard.at
      BY <2>2, <2>3, MineIs
    <3>4. heard # Nothing => CrossNewer(author, heard)
      BY <2>2, <2>3, <3>3, CrossOrder
    <3> HIDE DEF handoff, answer
    <3> QED BY <2>1, <2>3, <3>1, <3>2, <3>4
  <2>4. ASSUME TurnInvariant, ~isPR, Mine # {}, Spoke(last, FromAuthor \union (Mine \ {last}))
        PROVE  Turn = IF row.completed /\ last.kind = "comment" THEN "done"
                      ELSE "awaiting_contributor_response"
    <3>1. last \in Mine /\ last \in Record /\ last.kind \in {"comment", "feedback"} /\ last.at > 0 /\ last.at \in Nat
      BY <2>4, MineIs, RecordTypes DEF last
    <3>2. ~ CrossNewer(author, last) /\ author.at < last.at
      <4>1. author.at < last.at
        BY <2>2, <2>4, <3>1, NothingIs
      <4> QED BY <2>2, <2>4, <3>1, <4>1, RecordTypes DEF CrossNewer
    <3>3. /\ \A f \in Mine : f.at <= last.at /\ f.at \in Nat
      BY <2>4, <3>1, MineIs, RecordTypes
    <3>4. CASE last.kind = "feedback"
      <4>1. last \in Feedbacks /\ last.at >= row.since
        BY <2>4, <3>1, <3>4, MineIs
      <4>2. row.handoff # Nothing /\ row.handoff.at >= last.at
        <5>1. \A c \in FromAuthor : ~ (c.at > last.at)
          <6>1. \A c \in FromAuthor : c.at \in Nat /\ last.at > c.at
            BY <2>4, AcceptedWords, RecordTypes DEF Word
          <6> QED BY <3>1, <6>1
        <5> QED BY <2>4, <4>1, <5>1 DEF TurnInvariant, HandoffGood
      <4>3. row.since \in Nat /\ row.handoff.at \in Nat
        BY <2>4, RowTypes, RecordTypes DEF TurnInvariant, RowGood
      <4>4. noted = row.handoff /\ noted # Nothing
        BY <2>2, <2>4, <3>1, <4>1, <4>2, <4>3
      <4>5. noted.at = last.at /\ noted.kind = "feedback"
        BY <2>2, <2>4, <3>1, <3>3, <4>2, <4>3, <4>4
      <4>6. handoff = noted
        <5>1. ~ (author.at >= noted.at)
          BY <2>2, <2>4, <3>1, <3>2, <4>5, RecordTypes
        <5>2. ~ CrossNewer(author, noted)
          BY <2>2, <2>4, <5>1, RecordTypes DEF CrossNewer
        <5> QED BY <5>2
      <4>7. Newer(noted, heard)
        <5>1. noted.at > heard.at
          <6>1. heard # Nothing => heard \in Mine /\ heard # last
            BY <2>2, <2>4, <3>4, MineIs DEF Comments
          <6> QED BY <2>2, <2>4, <3>1, <4>5, <6>1, NothingIs
        <5> QED BY <5>1 DEF Newer
      <4>8. answer = handoff /\ handoff # Nothing
        BY <4>4, <4>6, <4>7
      <4> HIDE DEF handoff, answer
      <4> QED BY <2>1, <2>4, <3>4, <4>8
    <3>5. CASE last.kind = "comment"
      <4>1. last \in Comments(FromReviewer)
        BY <2>4, <3>1, <3>5, MineIs
      <4>2. heard = last
        <5> SUFFICES ASSUME heard # last PROVE FALSE
          OBVIOUS
        <5>1. heard \in Comments(FromReviewer) /\ Newer(heard, last)
          BY <2>2, <2>4, <4>1 DEF Foremost
        <5>2. heard \in Mine \ {last}
          BY <2>4, <5>1, MineIs
        <5>3. last.at > heard.at /\ heard.at >= last.at
          BY <2>2, <2>4, <3>1, <5>1, <5>2, NewerOrder
        <5> QED BY <2>2, <2>4, <3>1, <5>3, RecordTypes
      <4>3. handoff # Nothing => handoff = noted /\ noted.at < last.at /\ noted.kind = "feedback"
        <5>1. noted # Nothing => noted.at < last.at /\ noted.kind = "feedback"
          BY <2>2, <2>4, <3>5
        <5> QED BY <5>1
      <4>4. answer = last
        <5>1. handoff # Nothing => ~ Newer(handoff, heard)
          BY <2>2, <2>4, <3>1, <4>2, <4>3, NewerOrder, RecordTypes
        <5> QED BY <4>2, <5>1
      <4>5. handoff # Nothing => answer # handoff
        BY <3>5, <4>3, <4>4
      <4>6. answer # Nothing
        BY <3>1, <4>4, NothingIs
      <4> HIDE DEF handoff, answer
      <4> QED BY <2>1, <2>4, <3>2, <3>5, <4>4, <4>5, <4>6
    <3> QED BY <3>1, <3>4, <3>5
  <2> HIDE DEF Turn
  <2> QED BY <2>3, <2>4 DEF IssueTurn, Mine, last, author
<1> QED BY <1>1, TurnInvariantHolds, PTL

\* Words of an author and a revision, of which the newer stands for the author.
LEMMA NewerOfTwo ==
  ASSUME NEW a \in Record, NEW b \in Record, KeyClass[a.kind] # KeyClass[b.kind] \/ a = b
  PROVE  LET c == Newest({a, b} \ {Nothing})
         IN  /\ c \in Record
             /\ a # Nothing => c.at >= a.at
             /\ b # Nothing => c.at >= b.at
<1> DEFINE S == {a, b} \ {Nothing}
<1>1. S \in SUBSET Record /\ IsFiniteSet(S)
  <2>1. IsFiniteSet({a} \union {b})
    BY FS_Singleton, FS_AddElement
  <2>2. S \subseteq {a} \union {b} /\ S \in SUBSET Record
    OBVIOUS
  <2> HIDE DEF S
  <2> QED BY <2>1, <2>2, FS_Subset
<1>2. \A e, f \in S : e # f => Newer(e, f) \/ Newer(f, e)
  <2> SUFFICES ASSUME NEW e \in S, NEW f \in S, e # f PROVE Newer(e, f) \/ Newer(f, e)
    OBVIOUS
  <2>1. Key(e) # Key(f)
    BY DEF Key
  <2> QED BY <1>1, <2>1, NewerOrder
<1>3. CASE S = {}
  BY <1>3, NothingIs DEF Newest
<1>4. CASE S # {}
  <2>1. Newest(S) \in S /\ \A f \in S \ {Newest(S)} : Newer(Newest(S), f)
    <3> HIDE DEF S
    <3> QED BY <1>1, <1>2, <1>4, NewestIs
  <2>2. Newest(S) \in Record /\ \A f \in S : Newest(S).at >= f.at
    BY <1>1, <2>1, NewerOrder, RecordTypes
  <2> QED BY <2>2
<1> QED BY <1>3, <1>4

\* Once the bot has heard of everything, a pull request is off the reviewer's
\* desk only when the reviewer answered (derive_reviewer_response_state).
THEOREM NotHiddenHolds == Spec => []NotHidden
<1>1. TurnInvariant => NotHidden
  <2> SUFFICES ASSUME TurnInvariant, isPR, AllTold, Straight,
                      Turn \in {"awaiting_contributor_response", "awaiting_write_approval", "done"}
               PROVE  Answered
    BY DEF NotHidden
  <2> DEFINE live == Valid(row, reviews)
             answers == {e \in FromReviewer : e.kind = "feedback" /\ e.at >= row.since}
             said == row.chan["contributor_comment"].accepted
             review == Preferred(row, reviews, head)
             pushed == RevisionRecord(row, head, review)
             author == Newest({said, pushed} \ {Nothing})
             noted == HandoffRecord(row, head)
             handoff == IF CrossNewer(author, noted) THEN Nothing ELSE noted
             answer == IF handoff # Nothing /\ Newer(handoff, review) THEN handoff ELSE review
  <2>0. WorldGood /\ RowGood(row) /\ row \in Row /\ HandoffGood /\ RevisionGood /\ head # 0
    BY DEF TurnInvariant, RowGood, WorldGood
  <2>1. ~ CrossNewer(author, answer) /\ (review.head = head \/ handoff # Nothing)
    <3>1. Turn = PullResponse(row, reviews, head, TRUE)
      BY DEF Turn, Response
    <3> HIDE DEF review, pushed, noted, said, Turn
    <3>2. author = Newest({said, pushed} \ {Nothing})
      OBVIOUS
    <3> HIDE DEF author, live, answers
    <3> QED BY <3>1, <3>2 DEF PullResponse, review, pushed, noted, said
  <2>2. said \in Record /\ Revision.accepted \in Record /\ row.handoff \in Record
        /\ row.since \in Nat
    BY <2>0, RowTypes DEF Channels, Revision
  <2>3. /\ review \in Record
        /\ review # Nothing => \E q \in live : review.head = q.head /\ review.at = q.at
    <3>1. /\ live = {} => review = Nothing
          /\ live # {} => \E q \in live : review.head = q.head /\ review.at = q.at
      BY <2>0, PreferredIs
    <3>2. review \in Record
      BY <2>0, PreferredIs
    <3> HIDE DEF review, live
    <3> QED BY <3>1, <3>2
  <2>4. noted # Nothing => noted = row.handoff /\ noted.head = head
                           /\ \E e \in answers : noted.at = e.at
    <3> SUFFICES ASSUME noted # Nothing
                 PROVE  noted = row.handoff /\ noted.head = head /\ \E e \in answers : noted.at = e.at
      OBVIOUS
    <3>1. noted = row.handoff /\ row.handoff.at >= row.since /\ row.handoff.head = head
      BY DEF HandoffRecord
    <3>2. PICK f \in Feedbacks : row.handoff = [f EXCEPT !.head = row.handoff.head]
      BY <2>0, <3>1 DEF HandoffGood
    <3>3. f \in FromReviewer /\ f.kind = "feedback" /\ f \in Record
      BY <2>0, HeardTyped DEF Feedbacks, FromReviewer, WorldGood
    <3>4. row.handoff.at = f.at
      BY <3>2, <3>3 DEF Record
    <3> HIDE DEF noted
    <3> QED BY <3>1, <3>3, <3>4
  <2>5. /\ pushed \in {Revision.accepted, Nothing}
        /\ Revision.accepted.head = head /\ review.head # head => pushed = Revision.accepted
    BY DEF RevisionRecord, Revision
  <2>6. said = Nothing \/ said.kind \in {"comment", "edit"}
    <3>1. Foremost(said, FromAuthor) /\ FromAuthor \subseteq Word
      BY AcceptedWords
    <3> QED BY <3>1 DEF Foremost, Word
  <2>7. /\ author \in Record /\ (said # Nothing => author.at >= said.at)
        /\ pushed # Nothing => author.at >= pushed.at
    <3>1. pushed \in Record
      BY <2>2, <2>5, NothingIs
    <3>2. pushed = Nothing \/ pushed.kind \in {"sync", "observed"}
      BY <2>0, <2>5 DEF RevisionGood
    <3>3. KeyClass[said.kind] # KeyClass[pushed.kind] \/ said = pushed
      BY <2>6, <3>2, Classes, NothingIs
    <3> HIDE DEF said, pushed
    <3> QED BY <2>2, <3>1, <3>3, NewerOfTwo
  <2>8. noted \in Record /\ (handoff # Nothing => handoff = noted /\ ~ CrossNewer(author, noted))
    BY <2>2, <2>4, NothingIs
  <2> HIDE DEF said, pushed, author, noted, review
  <2>9. handoff # Nothing => handoff = noted /\ noted # Nothing /\ noted.at >= author.at
    BY <2>7, <2>8, CrossOrder
  <2>10. answer.at >= author.at /\ answer \in {handoff, review}
    BY <2>1, <2>3, <2>7, <2>8, NothingIs, CrossOrder
  <2> HIDE DEF handoff, answer
  <2>11. ASSUME NEW c \in Comments({e \in events : e.actor = Author /\ e.at > row.since})
         PROVE  \E t \in {r.at : r \in live} \union {e.at : e \in answers} : t >= c.at
    <3>1. c \in FromAuthor /\ c.at > 0 /\ c.at \in Nat
      BY <2>0, HeardTyped DEF Comments, AllTold, FromAuthor
    <3>2. said # Nothing /\ said.at >= c.at
      <4>1. Foremost(said, FromAuthor) /\ FromAuthor \subseteq Word
        BY AcceptedWords DEF said
      <4>2. said = c \/ Newer(said, c)
        BY <3>1, <4>1 DEF Foremost
      <4>3. said \in FromAuthor
        BY <3>1, <4>1 DEF Foremost
      <4> QED BY <2>2, <3>1, <4>1, <4>2, <4>3, NewerOrder, NothingIs, RecordTypes DEF Word
    <3>3. author.at >= c.at
      BY <2>2, <2>7, <3>1, <3>2, RecordTypes
    <3>4. answer \in Record /\ answer.at >= c.at /\ answer # Nothing
      <4>1. answer \in Record
        BY <2>3, <2>8, <2>10, NothingIs
      <4>2. answer.at >= c.at
        BY <2>7, <2>10, <3>1, <3>3, <4>1, RecordTypes
      <4> QED BY <3>1, <4>1, <4>2, NothingIs
    <3>5. CASE answer = review
      BY <2>3, <3>4, <3>5
    <3>6. CASE answer = handoff
      BY <2>4, <2>9, <3>4, <3>6
    <3> QED BY <2>10, <3>5, <3>6
  <2>12. \/ \E r \in live : r.head = head
         \/ \E e \in answers : \A q \in events : q.kind = "sync" /\ q.head = head => e.at >= q.at
    <3>1. CASE review.head = head
      BY <2>0, <2>3, <3>1, NothingIs
    <3>2. CASE review.head # head
      <4>1. handoff # Nothing
        BY <2>1, <3>2
      <4>2. PICK e \in answers : noted.at = e.at
        BY <2>4, <2>9, <4>1
      <4>3. ASSUME NEW q \in events, q.kind = "sync", q.head = head PROVE e.at >= q.at
        <5>1. q \in LivePushes /\ q.at \in Nat /\ q.at > 0
          BY <2>0, <4>3, HeardTyped DEF LivePushes
        <5>2. e.at >= row.since /\ e.at \in Nat
          BY <2>8, <4>2, RecordTypes
        <5>3. CASE q \in told
          <6>1. Revision.accepted.head = head /\ Revision.accepted.at >= q.at
            BY <2>0, <5>1, <5>3 DEF RevisionGood
          <6>2. pushed = Revision.accepted /\ pushed # Nothing
            BY <2>0, <2>5, <3>2, <6>1, NothingIs
          <6>3. noted.at >= author.at /\ author.at >= pushed.at
            BY <2>7, <2>9, <4>1, <6>2
          <6> QED BY <2>2, <2>7, <2>8, <4>2, <5>1, <5>2, <6>1, <6>2, <6>3, RecordTypes
        <5>4. CASE q \notin told
          <6>1. ~ (q.at > row.since)
            BY <5>4 DEF AllTold
          <6> QED BY <2>2, <5>1, <5>2, <6>1
        <5> QED BY <5>3, <5>4
      <4> QED BY <4>2, <4>3
    <3> QED BY <3>1, <3>2
  <2> QED BY <2>11, <2>12 DEF Answered
<1> QED BY <1>1, TurnInvariantHolds, PTL
=============================================================================
