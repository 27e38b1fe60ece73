--------------------------- MODULE RemindersProofs --------------------------
(***************************************************************************)
(* Proofs about Reminders, for any people, deadlines, page size, and       *)
(* numbers of deeds and failures: what the saved row says is true, and the *)
(* reminders implement ReminderPromise.                                    *)
(***************************************************************************)
EXTENDS Reminders, TLAPS, FiniteSetTheorems

-----------------------------------------------------------------------------
(* The inductive invariant *)

Kinds == {"talk", "warning", "notice"}
Post == [kind : Kinds, to : Scopes, age : 0 .. Period]
Row == [warned : Nat, noticed : BOOLEAN, receipts : SUBSET [scope : Scopes, i : Nat]]

Typed ==
  /\ scope \in Scopes /\ late \in 0 .. Deadline
  /\ answered \in BOOLEAN /\ turn \in BOOLEAN /\ completed \in BOOLEAN /\ shown \in BOOLEAN
  /\ acts \in 0 .. MaxActs /\ faults \in 0 .. MaxFaults
  /\ comments \in Seq(Post) /\ heard \in 0 .. Len(comments)
  /\ saved \in Row

\* Reminders grow older in the order they were posted.
InOrder(c) == \A i, j \in DOMAIN c :
  i <= j /\ c[i].kind # "talk" /\ c[j].kind # "talk" => c[j].age <= c[i].age

\* After the first h comments all reminders are to p.
OnlyTo(c, h, p) == \A i \in h + 1 .. Len(c) : c[i].kind # "talk" => c[i].to.reviewer = p

\* A scope dates from one of the first n deeds.
Dated(sc, n) == sc.cycle <= n /\ sc.head <= n /\ sc.anchor <= n

\* What row s says was posted is in the comments, to p or, by a receipt, to the
\* reviewer of its scope.
TrueRow(c, p, s) ==
  /\ s.warned # 0 => /\ s.warned \in DOMAIN c /\ c[s.warned].kind = "warning"
                     /\ c[s.warned].to.reviewer = p
  /\ s.noticed => \E i \in DOMAIN c : c[i].kind = "notice" /\ c[i].to.reviewer = p
  /\ \A r \in s.receipts : /\ r.i \in DOMAIN c /\ c[r.i].kind = "warning"
                           /\ c[r.i].to.reviewer = r.scope.reviewer

\* A receipt for scope sc without the timer is from before the reviewer was
\* heard, and there has been no warning since.
NoWarningSince(c, h, s, sc) ==
  s.warned = 0 /\ (\E r \in s.receipts : r.scope = sc)
    => \A i \in h + 1 .. Len(c) : c[i].kind # "warning"

GoodRow(c, h, sc, n, s) ==
  /\ s \in Row
  /\ TrueRow(c, sc.reviewer, s)
  /\ \A r \in s.receipts : Dated(r.scope, n)
  /\ NoWarningSince(c, h, s, sc)

RemindersInvariant ==
  /\ Typed
  /\ Dated(scope, acts)
  /\ InOrder(comments)
  /\ OnlyTo(comments, heard, scope.reviewer)
  /\ GoodRow(comments, heard, scope, acts, saved)

-----------------------------------------------------------------------------
(* Comments *)

\* d has what c has, and perhaps more.
Longer(c, d) ==
  /\ Len(c) <= Len(d)
  /\ \A i \in DOMAIN c : d[i].kind = c[i].kind /\ d[i].to = c[i].to

Aged(c) == [i \in DOMAIN c |-> [c[i] EXCEPT !.age = Older(@, Period)]]

LEMMA Sequences ==
  ASSUME NEW c \in Seq(Post)
  PROVE  Len(c) \in Nat /\ DOMAIN c = 1 .. Len(c) /\ \A i \in DOMAIN c : c[i] \in Post
OBVIOUS

LEMMA AgedIs ==
  ASSUME NEW c \in Seq(Post)
  PROVE  /\ Aged(c) \in Seq(Post) /\ Len(Aged(c)) = Len(c) /\ DOMAIN Aged(c) = DOMAIN c
         /\ Longer(c, Aged(c))
         /\ \A i \in DOMAIN c : Aged(c)[i].age = Older(c[i].age, Period)
<1>1. \A i \in DOMAIN c : /\ c[i] \in Post
                          /\ Older(c[i].age, Period) \in 0 .. Period
  <2>1. ASSUME NEW a \in 0 .. Period PROVE Older(a, Period) \in 0 .. Period
    BY ReminderAssumption DEF Older
  <2>2. \A i \in DOMAIN c : c[i] \in Post
    OBVIOUS
  <2>3. \A m \in Post : m.age \in 0 .. Period
    BY DEF Post
  <2> QED BY <2>1, <2>2, <2>3
<1>2. \A i \in DOMAIN c : /\ Aged(c)[i] \in Post
                          /\ Aged(c)[i].kind = c[i].kind /\ Aged(c)[i].to = c[i].to
                          /\ Aged(c)[i].age = Older(c[i].age, Period)
  BY <1>1 DEF Aged, Post
<1>3. DOMAIN Aged(c) = 1 .. Len(c) /\ Len(c) \in Nat /\ DOMAIN c = 1 .. Len(c)
  BY DEF Aged
<1>4. Aged(c) = [i \in 1 .. Len(c) |-> Aged(c)[i]]
  BY <1>3 DEF Aged
<1>5. Aged(c) \in [1 .. Len(c) -> Post]
  BY <1>2, <1>3, <1>4
<1>6. Aged(c) \in Seq(Post) /\ Len(Aged(c)) = Len(c)
  BY <1>3, <1>5
<1> QED BY <1>2, <1>3, <1>6 DEF Longer

LEMMA AppendIs ==
  ASSUME NEW c \in Seq(Post), NEW m \in Post
  PROVE  /\ Append(c, m) \in Seq(Post) /\ Len(Append(c, m)) = Len(c) + 1
         /\ DOMAIN c = 1 .. Len(c) /\ DOMAIN Append(c, m) = 1 .. (Len(c) + 1) /\ Len(c) \in Nat
         /\ \A i \in DOMAIN c : Append(c, m)[i] = c[i]
         /\ Append(c, m)[Len(c) + 1] = m
         /\ Longer(c, Append(c, m))
<1>1. /\ Append(c, m) \in Seq(Post) /\ Len(Append(c, m)) = Len(c) + 1 /\ Len(c) \in Nat
      /\ DOMAIN c = 1 .. Len(c) /\ DOMAIN Append(c, m) = 1 .. (Len(c) + 1)
      /\ \A i \in DOMAIN c : Append(c, m)[i] = c[i]
      /\ Append(c, m)[Len(c) + 1] = m
  OBVIOUS
<1> QED BY <1>1 DEF Longer

LEMMA LeastIs ==
  ASSUME NEW S \in SUBSET Nat, S # {}
  PROVE  Least(S) \in S /\ \A i \in S : Least(S) <= i
<1> DEFINE Below(i) == S \cap 0 .. i
           F == {Below(i) : i \in S}
<1>1. F # {} /\ F \subseteq FiniteSubsetsOf(Nat)
  <2>1. ASSUME NEW i \in S PROVE Below(i) \in SUBSET Nat /\ IsFiniteSet(Below(i))
    <3>1. IsFiniteSet(0 .. i) /\ Below(i) \in SUBSET (0 .. i)
      BY FS_Interval
    <3> QED BY <3>1, FS_Subset
  <2> QED BY <2>1 DEF FiniteSubsetsOf
<1>2. PICK B \in F : \A C \in F : <<C, B>> \notin StrictSubsetOrdering(Nat)
  <2>1. IsWellFoundedOn(StrictSubsetOrdering(Nat), FiniteSubsetsOf(Nat))
    BY FS_StrictSubsetOrderingWellFounded
  <2> HIDE DEF F
  <2> QED BY <1>1, <2>1, WFMin
<1>3. PICK x \in S : B = Below(x)
  OBVIOUS
<1>4. ASSUME NEW y \in S, y < x PROVE FALSE
  <2>1. Below(y) \subseteq Below(x) /\ x \in Below(x) /\ x \notin Below(y)
    BY <1>4
  <2> HIDE DEF Below
  <2> QED BY <1>2, <1>3, <1>1, <2>1 DEF StrictSubsetOrdering, FiniteSubsetsOf
<1>5. \A y \in S : x <= y
  BY <1>4
<1> QED BY <1>5 DEF Least

LEMMA MostIs ==
  ASSUME NEW n \in Nat, NEW S \in SUBSET (0 .. n), S # {}
  PROVE  Most(S) \in S /\ \A i \in S : Most(S) >= i
<1> DEFINE T == {k \in 0 .. n : n - k \in S}
<1>1. T \in SUBSET Nat /\ T # {}
  <2>1. PICK i \in S : i \in 0 .. n
    OBVIOUS
  <2>2. n - i \in 0 .. n /\ n - (n - i) = i
    BY <2>1
  <2>3. T \subseteq 0 .. n
    OBVIOUS
  <2> QED BY <2>1, <2>2, <2>3
<1>2. Least(T) \in T /\ \A k \in T : Least(T) <= k
  BY <1>1, LeastIs
<1>3. PICK t \in T : \A k \in T : t <= k
  BY <1>2
<1>4. n - t \in S /\ \A i \in S : n - t >= i
  <2>1. ASSUME NEW i \in S PROVE n - t >= i
    <3>1. n - i \in T
      OBVIOUS
    <3> QED BY <3>1, <1>3
  <2> QED BY <2>1
<1> QED BY <1>4 DEF Most

-----------------------------------------------------------------------------
(* What keeps the parts of the invariant *)

LEMMA TrueStays ==
  ASSUME NEW c \in Seq(Post), NEW d \in Seq(Post), Longer(c, d), NEW p, NEW s, TrueRow(c, p, s)
  PROVE  TrueRow(d, p, s)
<1>1. /\ DOMAIN c \subseteq DOMAIN d
      /\ \A i \in DOMAIN c : d[i].kind = c[i].kind /\ d[i].to = c[i].to
  BY Sequences DEF Longer
<1> QED BY <1>1 DEF TrueRow

LEMMA RowStays ==
  ASSUME NEW c \in Seq(Post), NEW d \in Seq(Post), Longer(c, d),
         NEW h, NEW k, NEW sc \in Scopes, NEW sd \in Scopes, sd.reviewer = sc.reviewer,
         NEW m \in Nat, NEW n \in Nat, m <= n,
         NEW s, GoodRow(c, h, sc, m, s), NoWarningSince(d, k, s, sd)
  PROVE  GoodRow(d, k, sd, n, s)
<1>1. s \in Row /\ \A r \in s.receipts : r.scope \in Scopes
  BY DEF GoodRow, Row
<1>2. \A r \in s.receipts : Dated(r.scope, n)
  BY <1>1 DEF GoodRow, Dated, Scopes
<1> QED BY <1>1, <1>2, TrueStays DEF GoodRow

LEMMA NoTimersRow ==
  ASSUME NEW s \in Row
  PROVE  /\ NoTimers(s) \in Row /\ NoTimers(s).warned = 0 /\ ~NoTimers(s).noticed
         /\ NoTimers(s).receipts = s.receipts
BY DEF NoTimers, Row

LEMMA RowCleared ==
  ASSUME NEW c \in Seq(Post), NEW d \in Seq(Post), Longer(c, d),
         NEW h, NEW k, NEW sc \in Scopes, NEW sd \in Scopes,
         NEW m \in Nat, NEW n \in Nat, m <= n,
         NEW s, GoodRow(c, h, sc, m, s), \A i \in k + 1 .. Len(d) : d[i].kind # "warning"
  PROVE  GoodRow(d, k, sd, n, NoTimers(s))
<1>1. PICK t : t = NoTimers(s)
  OBVIOUS
<1>2. s \in Row /\ t \in Row /\ t.warned = 0 /\ ~t.noticed /\ t.receipts = s.receipts
  BY <1>1, NoTimersRow DEF GoodRow
<1>3. TrueRow(c, sc.reviewer, t)
  BY <1>2 DEF GoodRow, TrueRow
<1>4. TrueRow(d, sd.reviewer, t)
  <2>1. TrueRow(d, sc.reviewer, t)
    BY <1>3, TrueStays
  <2> QED BY <1>2, <2>1 DEF TrueRow
<1>5. NoWarningSince(d, k, t, sd)
  BY DEF NoWarningSince
<1>6. \A r \in t.receipts : Dated(r.scope, n)
  <2>1. \A r \in t.receipts : r.scope \in Scopes /\ Dated(r.scope, m)
    BY <1>2 DEF GoodRow, Row
  <2> QED BY <2>1 DEF Dated, Scopes
<1> QED BY <1>1, <1>2, <1>4, <1>5, <1>6 DEF GoodRow

\* A scope that dates from a new deed has no receipt yet.
LEMMA NewScope ==
  ASSUME NEW c, NEW h, NEW sc, NEW n \in Nat, NEW s, GoodRow(c, h, sc, n, s),
         NEW sd \in Scopes, sd.head = n + 1 \/ sd.anchor = n + 1, NEW d, NEW k
  PROVE  NoWarningSince(d, k, s, sd)
<1>1. \A r \in s.receipts : r.scope # sd
  BY DEF GoodRow, Dated, Scopes
<1> QED BY <1>1 DEF NoWarningSince

LEMMA OrderAged ==
  ASSUME NEW c \in Seq(Post), InOrder(c)
  PROVE  InOrder(Aged(c))
<1>1. \A a, b \in 0 .. Period : a <= b => Older(a, Period) <= Older(b, Period)
  BY ReminderAssumption DEF Older
<1>2. \A i \in DOMAIN c : /\ c[i].age \in 0 .. Period
                          /\ Aged(c)[i].age = Older(c[i].age, Period) /\ Aged(c)[i].kind = c[i].kind
  BY AgedIs, Sequences DEF Post, Longer
<1> QED BY <1>1, <1>2, AgedIs DEF InOrder

LEMMA OrderExtended ==
  ASSUME NEW c \in Seq(Post), InOrder(c), NEW m \in Post, m.kind = "talk" \/ m.age = 0
  PROVE  InOrder(Append(c, m))
<1>1. \A i \in DOMAIN c : c[i].age \in Nat /\ i \in Nat
  <2>1. \A a \in 0 .. Period : a \in Nat
    BY ReminderAssumption
  <2>2. \A i \in DOMAIN c : c[i].age \in 0 .. Period
    BY Sequences DEF Post
  <2> QED BY <2>1, <2>2, Sequences
<1> QED BY <1>1, AppendIs DEF InOrder

LEMMA OnlyToAged ==
  ASSUME NEW c \in Seq(Post), NEW h \in Nat, NEW p, OnlyTo(c, h, p)
  PROVE  OnlyTo(Aged(c), h, p)
BY AgedIs, Sequences DEF OnlyTo, Longer

LEMMA OnlyToExtended ==
  ASSUME NEW c \in Seq(Post), NEW h \in Nat, NEW p, OnlyTo(c, h, p),
         NEW m \in Post, m.kind = "talk" \/ m.to.reviewer = p
  PROVE  OnlyTo(Append(c, m), h, p)
<1> SUFFICES ASSUME NEW i \in h + 1 .. Len(c) + 1, Append(c, m)[i].kind # "talk"
             PROVE  Append(c, m)[i].to.reviewer = p
  BY AppendIs DEF OnlyTo
<1>1. i \in DOMAIN c \/ i = Len(c) + 1
  BY Sequences
<1> QED BY <1>1, AppendIs, Sequences DEF OnlyTo

LEMMA NoWarningAged ==
  ASSUME NEW c \in Seq(Post), NEW h \in Nat, NEW s, NEW sc, NoWarningSince(c, h, s, sc)
  PROVE  NoWarningSince(Aged(c), h, s, sc)
BY AgedIs, Sequences DEF NoWarningSince, Longer

LEMMA NoWarningExtended ==
  ASSUME NEW c \in Seq(Post), NEW h \in Nat, NEW s, NEW sc, NoWarningSince(c, h, s, sc),
         NEW m \in Post, m.kind # "warning" \/ \A r \in s.receipts : r.scope # sc
  PROVE  NoWarningSince(Append(c, m), h, s, sc)
<1> SUFFICES ASSUME s.warned = 0, \E r \in s.receipts : r.scope = sc,
                    NEW i \in h + 1 .. Len(c) + 1
             PROVE  Append(c, m)[i].kind # "warning"
  BY AppendIs DEF NoWarningSince
<1>1. i \in DOMAIN c \/ i = Len(c) + 1
  BY Sequences
<1> QED BY <1>1, AppendIs, Sequences DEF NoWarningSince

-----------------------------------------------------------------------------
(* Days and people *)

LEMMA Talk == Remark \in Post /\ Remark.kind = "talk"
BY ReminderAssumption DEF Remark, Post, Kinds, Scopes

LEMMA NextDayKeeps ==
  ASSUME RemindersInvariant, NextDay
  PROVE  RemindersInvariant'
<1>1. /\ comments' = Aged(comments) /\ late' = Older(late, Deadline)
      /\ UNCHANGED <<scope, answered, turn, completed, shown, saved, acts, faults, heard>>
  BY DEF NextDay, Aged
<1>2. /\ comments \in Seq(Post) /\ heard \in Nat /\ scope \in Scopes /\ acts \in Nat /\ Typed
      /\ InOrder(comments) /\ OnlyTo(comments, heard, scope.reviewer) /\ Dated(scope, acts)
      /\ GoodRow(comments, heard, scope, acts, saved)
  BY ReminderAssumption DEF RemindersInvariant, Typed
<1>3. Typed'
  <2>1. late' \in 0 .. Deadline
    BY <1>1, <1>2, ReminderAssumption DEF Typed, Older
  <2>2. comments' \in Seq(Post) /\ Len(comments') = Len(comments)
    BY <1>1, <1>2, AgedIs
  <2> QED BY <1>1, <1>2, <2>1, <2>2 DEF Typed
<1>4. InOrder(comments') /\ OnlyTo(comments', heard, scope.reviewer)
  BY <1>1, <1>2, OrderAged, OnlyToAged
<1>5. GoodRow(comments', heard, scope, acts, saved)
  <2>1. NoWarningSince(comments', heard, saved, scope)
    BY <1>1, <1>2, NoWarningAged DEF GoodRow
  <2>2. Longer(comments, comments') /\ comments' \in Seq(Post)
    BY <1>1, <1>2, AgedIs
  <2> QED BY <1>2, <2>1, <2>2, RowStays
<1> QED BY <1>1, <1>2, <1>3, <1>4, <1>5 DEF RemindersInvariant

\* The author's deeds leave the reviewer, and with a new scope no receipt applies.
LEMMA AuthorKeeps ==
  ASSUME RemindersInvariant, Act, UNCHANGED <<answered, saved, heard>>,
         comments' = comments \/ comments' = Append(comments, Remark),
         turn' \in BOOLEAN, completed' \in BOOLEAN, shown' \in BOOLEAN, late' \in 0 .. Deadline,
         scope' \in Scopes, scope'.reviewer = scope.reviewer, Dated(scope', acts'),
         scope' = scope \/ scope'.head = acts' \/ scope'.anchor = acts'
  PROVE  RemindersInvariant'
<1>1. /\ comments \in Seq(Post) /\ heard \in Nat /\ scope \in Scopes /\ acts \in Nat /\ Typed
      /\ InOrder(comments) /\ OnlyTo(comments, heard, scope.reviewer) /\ Dated(scope, acts)
      /\ GoodRow(comments, heard, scope, acts, saved)
  BY ReminderAssumption DEF RemindersInvariant, Typed
<1>2. acts' = acts + 1 /\ acts' \in 0 .. MaxActs /\ faults' = faults /\ acts' \in Nat
  BY <1>1, ReminderAssumption DEF Act, Typed
<1>3. /\ comments' \in Seq(Post) /\ Len(comments) <= Len(comments') /\ Longer(comments, comments')
      /\ InOrder(comments') /\ OnlyTo(comments', heard, scope.reviewer)
      /\ NoWarningSince(comments', heard, saved, scope)
  <2>1. CASE comments' = comments
    BY <1>1, <2>1, Sequences DEF GoodRow, Longer
  <2>2. CASE comments' = Append(comments, Remark)
    <3>1. PICK m \in Post : m = Remark /\ m.kind = "talk"
      BY Talk
    <3>2. NoWarningSince(Append(comments, m), heard, saved, scope)
      BY <1>1, <3>1, NoWarningExtended DEF GoodRow
    <3>3. InOrder(Append(comments, m)) /\ OnlyTo(Append(comments, m), heard, scope.reviewer)
      BY <1>1, <3>1, OrderExtended, OnlyToExtended
    <3> QED BY <1>1, <2>2, <3>1, <3>2, <3>3, AppendIs
  <2> QED BY <2>1, <2>2
<1>4. NoWarningSince(comments', heard, saved, scope')
  BY <1>1, <1>2, <1>3, NewScope
<1>5. GoodRow(comments', heard, scope', acts', saved)
  BY <1>1, <1>2, <1>3, <1>4, RowStays
<1>6. Typed'
  <2>1. heard \in 0 .. Len(comments')
    BY <1>1, <1>3, Sequences DEF Typed
  <2> QED BY <1>1, <1>2, <1>3, <2>1 DEF Typed
<1> QED BY <1>3, <1>5, <1>6 DEF RemindersInvariant

LEMMA StillDated ==
  ASSUME NEW sc \in Scopes, NEW n \in Nat, Dated(sc, n)
  PROVE  Dated(sc, n + 1)
BY DEF Dated, Scopes

LEMMA AnchoredScope ==
  ASSUME NEW sc \in Scopes, NEW n \in Nat, Dated(sc, n), NEW d, d = [sc EXCEPT !.anchor = n + 1]
  PROVE  d \in Scopes /\ d.reviewer = sc.reviewer /\ d.anchor = n + 1 /\ Dated(d, n + 1)
<1>1. d \in Scopes /\ d.reviewer = sc.reviewer /\ d.anchor = n + 1 /\ d.head = sc.head /\ d.cycle = sc.cycle
  BY DEF Scopes
<1> QED BY <1>1, StillDated DEF Dated

Pushed(sc, n, a) == [sc EXCEPT !.head = n + 1, !.anchor = a]

LEMMA PushedScope ==
  ASSUME NEW sc \in Scopes, NEW n \in Nat, Dated(sc, n), NEW a \in {n + 1, sc.anchor},
         NEW d, d = Pushed(sc, n, a)
  PROVE  d \in Scopes /\ d.reviewer = sc.reviewer /\ d.head = n + 1 /\ Dated(d, n + 1)
<1>1. a \in Nat /\ a <= n + 1
  BY DEF Dated, Scopes
<1>2. PICK f : f = [sc EXCEPT !.head = n + 1]
  OBVIOUS
<1>3. f \in Scopes /\ f.reviewer = sc.reviewer /\ f.head = n + 1 /\ f.cycle = sc.cycle
  BY <1>2 DEF Scopes
<1>4. d = [f EXCEPT !.anchor = a]
  BY <1>2 DEF Pushed
<1>5. d \in Scopes /\ d.reviewer = sc.reviewer /\ d.anchor = a /\ d.head = n + 1 /\ d.cycle = sc.cycle
  BY <1>1, <1>3, <1>4 DEF Scopes
<1> QED BY <1>1, <1>5, StillDated DEF Dated

LEMMA AuthorCommentsKeeps ==
  ASSUME RemindersInvariant, AuthorComments
  PROVE  RemindersInvariant'
<1>1. /\ scope \in Scopes /\ acts \in Nat /\ Dated(scope, acts) /\ late \in 0 .. Deadline
      /\ turn \in BOOLEAN /\ completed \in BOOLEAN /\ shown \in BOOLEAN /\ 0 \in 0 .. Deadline
  BY ReminderAssumption DEF RemindersInvariant, Typed
<1>2. /\ Act /\ acts' = acts + 1 /\ UNCHANGED <<answered, saved, heard>>
      /\ completed' = completed /\ shown' = shown
      /\ comments' = Append(comments, Remark)
      /\ \/ scope' = [scope EXCEPT !.anchor = acts + 1] /\ turn' = TRUE /\ late' = 0
         \/ UNCHANGED <<scope, turn, late>>
  BY DEF AuthorComments, Act
<1>3. /\ scope' \in Scopes /\ scope'.reviewer = scope.reviewer /\ Dated(scope', acts')
      /\ scope' = scope \/ scope'.anchor = acts'
  <2>1. PICK sc \in Scopes, n \in Nat : sc = scope /\ n = acts
    BY <1>1
  <2>2. CASE scope' = scope
    BY <1>1, <1>2, <2>1, <2>2, StillDated
  <2>3. CASE scope' = [sc EXCEPT !.anchor = n + 1]
    <3>1. PICK d : d = [sc EXCEPT !.anchor = n + 1]
      OBVIOUS
    <3>2. d \in Scopes /\ d.reviewer = sc.reviewer /\ d.anchor = n + 1 /\ Dated(d, n + 1)
      BY <1>1, <2>1, <3>1, AnchoredScope
    <3> QED BY <1>2, <2>1, <2>3, <3>1, <3>2
  <2> QED BY <1>2, <2>1, <2>2, <2>3
<1> QED BY <1>1, <1>2, <1>3, AuthorKeeps

LEMMA AuthorPushesKeeps ==
  ASSUME RemindersInvariant, AuthorPushes
  PROVE  RemindersInvariant'
<1>1. /\ scope \in Scopes /\ acts \in Nat /\ Dated(scope, acts) /\ late \in 0 .. Deadline
      /\ completed \in BOOLEAN /\ shown \in BOOLEAN /\ 0 \in 0 .. Deadline
  BY ReminderAssumption DEF RemindersInvariant, Typed
<1>2. /\ Act /\ acts' = acts + 1 /\ UNCHANGED <<answered, saved, heard>>
      /\ completed' \in {completed, FALSE} /\ shown' = shown
      /\ comments' = comments /\ turn' = TRUE /\ late' \in {0, late}
      /\ \E a \in {acts + 1, scope.anchor} : scope' = Pushed(scope, acts, a)
  BY DEF AuthorPushes, Act, Pushed
<1>3. /\ scope' \in Scopes /\ scope'.reviewer = scope.reviewer /\ Dated(scope', acts')
      /\ scope'.head = acts'
  <2>1. PICK sc \in Scopes, n \in Nat : sc = scope /\ n = acts
    BY <1>1
  <2>2. PICK a \in {n + 1, sc.anchor} : scope' = Pushed(sc, n, a)
    BY <1>2, <2>1
  <2>3. PICK d : d = Pushed(sc, n, a)
    OBVIOUS
  <2>4. d \in Scopes /\ d.reviewer = sc.reviewer /\ d.head = n + 1 /\ Dated(d, n + 1)
    <3>1. sc \in Scopes /\ n \in Nat /\ a \in {n + 1, sc.anchor} /\ Dated(sc, n)
      BY <1>1, <2>1, <2>2
    <3> QED BY <2>3, <3>1, PushedScope
  <2> QED BY <1>2, <2>1, <2>2, <2>3, <2>4
<1> QED BY <1>1, <1>2, <1>3, AuthorKeeps

\* The deeds that clear the timers: what comes after them is not about the reviewer's
\* silence.
LEMMA HeardKeeps ==
  ASSUME RemindersInvariant, Act, saved' = NoTimers(saved), heard' = Len(comments),
         comments' = comments \/ comments' = Append(comments, Remark),
         answered' \in BOOLEAN, turn' \in BOOLEAN, completed' \in BOOLEAN, shown' \in BOOLEAN, late' \in 0 .. Deadline,
         scope' \in Scopes, Dated(scope', acts')
  PROVE  RemindersInvariant'
<1>1. /\ comments \in Seq(Post) /\ scope \in Scopes /\ acts \in Nat /\ Typed
      /\ InOrder(comments) /\ GoodRow(comments, heard, scope, acts, saved)
  BY ReminderAssumption DEF RemindersInvariant, Typed
<1>2. acts' = acts + 1 /\ acts' \in 0 .. MaxActs /\ faults' = faults /\ acts' \in Nat
  BY <1>1, ReminderAssumption DEF Act, Typed
<1>3. PICK m \in Post : m = Remark /\ m.kind = "talk"
  BY Talk
<1>4. /\ comments' \in Seq(Post) /\ Longer(comments, comments') /\ InOrder(comments')
      /\ Len(comments) \in 0 .. Len(comments')
      /\ \A i \in heard' + 1 .. Len(comments') : comments'[i].kind = "talk"
  <2>1. CASE comments' = comments
    BY <1>1, <2>1, Sequences DEF Longer
  <2>2. CASE comments' = Append(comments, m)
    <3>1. InOrder(comments')
      BY <1>1, <1>3, <2>2, OrderExtended
    <3>2. /\ comments' \in Seq(Post) /\ Len(comments') = Len(comments) + 1 /\ Len(comments) \in Nat
          /\ comments'[Len(comments) + 1] = m /\ Longer(comments, comments')
      BY <1>1, <2>2, AppendIs
    <3> QED BY <1>3, <3>1, <3>2
  <2> QED BY <1>3, <2>1, <2>2
<1>5. OnlyTo(comments', heard', scope'.reviewer)
  BY <1>4 DEF OnlyTo
<1>6. GoodRow(comments', heard', scope', acts', saved')
  <2>1. \A i \in heard' + 1 .. Len(comments') : comments'[i].kind # "warning"
    BY <1>4
  <2> QED BY <1>1, <1>2, <1>4, <2>1, RowCleared
<1>7. Typed'
  <2>1. saved' \in Row
    BY <1>6 DEF GoodRow
  <2> QED BY <1>1, <1>2, <1>4, <2>1 DEF Typed
<1> QED BY <1>4, <1>5, <1>6, <1>7 DEF RemindersInvariant

LEMMA ReviewerKeeps ==
  ASSUME RemindersInvariant, ReviewerAnswers \/ ReviewerStirs \/ Reassign
  PROVE  RemindersInvariant'
<1>1. /\ scope \in Scopes /\ acts \in Nat /\ Dated(scope, acts) /\ late \in 0 .. Deadline
      /\ 0 \in 0 .. Deadline /\ turn \in BOOLEAN /\ answered \in BOOLEAN
      /\ completed \in BOOLEAN /\ shown \in BOOLEAN
  BY ReminderAssumption DEF RemindersInvariant, Typed
<1>2. CASE ReviewerAnswers
  <2>1. /\ Act /\ acts' = acts + 1 /\ saved' = NoTimers(saved) /\ heard' = Len(comments)
        /\ comments' = Append(comments, Remark) /\ scope' = scope /\ late' = late
        /\ answered' = TRUE /\ turn' = FALSE /\ completed' \in {completed, TRUE} /\ shown' = shown
    BY <1>2 DEF ReviewerAnswers, Act
  <2>2. scope' \in Scopes /\ Dated(scope', acts')
    BY <1>1, <2>1, StillDated
  <2> QED BY <1>1, <2>1, <2>2, HeardKeeps
<1>3. CASE ReviewerStirs
  <2>1. /\ Act /\ acts' = acts + 1 /\ saved' = NoTimers(saved) /\ heard' = Len(comments)
        /\ UNCHANGED <<scope, answered, turn, shown, late, comments>>
        /\ completed' \in {completed, FALSE}
    BY <1>3 DEF ReviewerStirs, Act
  <2>2. scope' \in Scopes /\ Dated(scope', acts')
    BY <1>1, <2>1, StillDated
  <2> QED BY <1>1, <2>1, <2>2, HeardKeeps
<1>4. CASE Reassign
  <2>1. PICK p \in People :
          /\ Act /\ acts' = acts + 1 /\ saved' = NoTimers(saved) /\ heard' = Len(comments)
          /\ scope' = [reviewer |-> p, cycle |-> acts + 1, head |-> scope.head, anchor |-> 0]
          /\ answered' = FALSE /\ turn' = TRUE /\ late' = 0 /\ comments' = comments
          /\ completed' = FALSE /\ shown' = TRUE
    BY <1>4 DEF Reassign, Act
  <2>2. scope' \in Scopes /\ Dated(scope', acts')
    BY <1>1, <2>1 DEF Dated, Scopes
  <2> QED BY <1>1, <2>1, <2>2, HeardKeeps
<1> QED BY <1>2, <1>3, <1>4

LEMMA AssigneesEditedKeeps ==
  ASSUME RemindersInvariant, AssigneesEdited
  PROVE  RemindersInvariant'
<1>1. /\ scope \in Scopes /\ acts \in Nat /\ Dated(scope, acts) /\ late \in 0 .. Deadline
      /\ turn \in BOOLEAN /\ completed \in BOOLEAN
  BY ReminderAssumption DEF RemindersInvariant, Typed
<1>2. /\ Act /\ acts' = acts + 1 /\ UNCHANGED <<answered, saved, heard>>
      /\ UNCHANGED <<scope, turn, completed, late, comments>> /\ shown' \in BOOLEAN
  BY DEF AssigneesEdited, Act
<1>3. Dated(scope', acts')
  BY <1>1, <1>2, StillDated
<1> QED BY <1>1, <1>2, <1>3, AuthorKeeps

-----------------------------------------------------------------------------
(* The scheduled run *)

GoodNow(s) == GoodRow(comments, heard, scope, acts, s)

LEMMA ScopedIs ==
  ASSUME RemindersInvariant, NEW s, GoodNow(s)
  PROVE  /\ Scoped(s) \subseteq DOMAIN comments
         /\ \A i \in Scoped(s) : comments[i].kind = "warning" /\ ToReviewer(i)
         /\ Scoped(s) # {} <=> \E r \in s.receipts : r.scope = scope
BY DEF GoodNow, GoodRow, TrueRow, Scoped, ToReviewer

LEMMA ReceiptIs ==
  ASSUME RemindersInvariant, NEW s, GoodNow(s), NEW readable \in BOOLEAN,
         NEW r, r = Receipt(s, readable)
  PROVE  /\ r.kind = "warning" => /\ r.i \in DOMAIN comments /\ comments[r.i].kind = "warning"
                                  /\ ToReviewer(r.i)
                                  /\ r.source = "scan" \/ Scoped(s) # {}
         /\ r.kind = "none" => Scoped(s) = {}
<1>1. comments \in Seq(Post) /\ DOMAIN comments = 1 .. Len(comments) /\ Len(comments) \in Nat
  BY Sequences DEF RemindersInvariant, Typed
<1>2. CASE Scoped(s) # {}
  <2>1. Most(Scoped(s)) \in Scoped(s)
    <3>1. Scoped(s) \in SUBSET (0 .. Len(comments))
      BY <1>1, ScopedIs
    <3> QED BY <1>1, <1>2, <3>1, MostIs
  <2>2. r = [kind |-> "warning", i |-> Most(Scoped(s)), source |-> "state"]
    BY <1>2 DEF Receipt
  <2> QED BY <1>2, <2>1, <2>2, ScopedIs
<1>3. CASE Scoped(s) = {} /\ Scanned(readable) # {}
  <2>1. Scanned(readable) \subseteq DOMAIN comments /\ Scanned(readable) \in SUBSET Nat
    BY <1>1 DEF Scanned, FirstPage
  <2>2. Least(Scanned(readable)) \in Scanned(readable)
    BY <1>3, <2>1, LeastIs
  <2>3. PICK i \in Scanned(readable) : i = Least(Scanned(readable))
    BY <2>2
  <2>4. r = [kind |-> comments[i].kind, i |-> i, source |-> "scan"]
    BY <1>3, <2>3 DEF Receipt
  <2>5. ToReviewer(i) /\ i \in DOMAIN comments
    BY <2>1 DEF Scanned
  <2> QED BY <1>3, <2>4, <2>5
<1>4. CASE Scoped(s) = {} /\ Scanned(readable) = {}
  <2>1. \/ r = [None EXCEPT !.kind = "notice"] \/ r = [None EXCEPT !.kind = "blocked"] \/ r = None
    BY <1>4 DEF Receipt
  <2>2. r.kind # "warning"
    BY <2>1 DEF None
  <2> QED BY <1>4, <2>2
<1> QED BY <1>2, <1>3, <1>4

LEMMA WarnedRow ==
  ASSUME RemindersInvariant, NEW s, GoodNow(s), NEW c \in Seq(Post), Longer(comments, c),
         NEW i \in DOMAIN c, c[i].kind = "warning", c[i].to.reviewer = scope.reviewer
  PROVE  GoodRow(c, heard, scope, acts, Warned(s, i))
<1>1. PICK sc \in Scopes : sc = scope
  BY DEF RemindersInvariant, Typed
<1>2. i \in Nat \ {0}
  BY Sequences
<1>3. PICK t : t = Warned(s, i)
  OBVIOUS
<1>4. t \in Row /\ t.warned = i /\ t.noticed = s.noticed /\ t.receipts = s.receipts \union {[scope |-> sc, i |-> i]}
  <2>1. s \in Row
    BY DEF GoodNow, GoodRow
  <2>2. PICK m : m = [scope |-> sc, i |-> i]
    OBVIOUS
  <2>3. m \in [scope : Scopes, i : Nat]
    BY <1>2, <2>2
  <2>4. t = [s EXCEPT !.warned = i, !.receipts = s.receipts \union {m}]
    BY <1>1, <1>3, <2>2 DEF Warned
  <2>5. t.warned = i /\ t.noticed = s.noticed /\ t.receipts = s.receipts \union {m}
    BY <2>1, <2>4 DEF Row
  <2>6. t \in Row
    BY <1>2, <2>1, <2>3, <2>4 DEF Row
  <2> QED BY <2>2, <2>5, <2>6
<1>5. TrueRow(c, scope.reviewer, s)
  BY TrueStays DEF GoodNow, GoodRow, RemindersInvariant, Typed
<1>6. TrueRow(c, scope.reviewer, t)
  <2>1. ASSUME NEW r \in t.receipts
        PROVE  r.i \in DOMAIN c /\ c[r.i].kind = "warning" /\ c[r.i].to.reviewer = r.scope.reviewer
    BY <1>1, <1>4, <1>5 DEF TrueRow
  <2> QED BY <1>4, <1>5, <2>1 DEF TrueRow
<1>7. \A r \in t.receipts : Dated(r.scope, acts)
  BY <1>1, <1>4 DEF GoodNow, GoodRow, RemindersInvariant
<1>8. NoWarningSince(c, heard, t, scope)
  BY <1>2, <1>4 DEF NoWarningSince
<1> QED BY <1>3, <1>4, <1>6, <1>7, <1>8 DEF GoodRow

LEMMA NoticedRow ==
  ASSUME RemindersInvariant, NEW s, GoodNow(s), NEW c \in Seq(Post), Longer(comments, c),
         NoWarningSince(c, heard, s, scope),
         NEW i \in DOMAIN c, c[i].kind = "notice", c[i].to.reviewer = scope.reviewer
  PROVE  GoodRow(c, heard, scope, acts, [s EXCEPT !.noticed = TRUE])
<1>1. PICK t : t = [s EXCEPT !.noticed = TRUE]
  OBVIOUS
<1>2. s \in Row /\ t \in Row /\ t.warned = s.warned /\ t.noticed = TRUE /\ t.receipts = s.receipts
  BY <1>1 DEF GoodNow, GoodRow, Row
<1>3. TrueRow(c, scope.reviewer, s)
  BY TrueStays DEF GoodNow, GoodRow, RemindersInvariant, Typed
<1>4. TrueRow(c, scope.reviewer, t)
  BY <1>2, <1>3 DEF TrueRow
<1> QED BY <1>1, <1>2, <1>4 DEF GoodNow, GoodRow, NoWarningSince

\* Where a receipt scanned from the comments says that the notice is due, there is
\* no other reminder on the first page.
LEMMA OneOnPage ==
  ASSUME RemindersInvariant, NEW s, GoodNow(s), Scoped(s) = {},
         Receipt(s, TRUE).kind = "warning", ~Exhausted(s, TRUE)
  PROVE  \A i \in DOMAIN comments : comments[i].kind = "notice" => i > PageSize
<1>1. comments \in Seq(Post) /\ DOMAIN comments = 1 .. Len(comments) /\ Len(comments) \in Nat
  BY Sequences DEF RemindersInvariant, Typed
<1>2. PICK r : r = Receipt(s, TRUE) /\ r.kind = "warning"
  OBVIOUS
<1>3. PICK w \in DOMAIN comments : w \in FirstPage(TRUE) /\ comments[w].kind = "warning"
  <2>1. Scanned(TRUE) # {}
    <3>1. CASE Scanned(TRUE) = {}
      <4>1. \/ r = [None EXCEPT !.kind = "notice"] \/ r = [None EXCEPT !.kind = "blocked"] \/ r = None
        BY <1>2, <3>1 DEF Receipt
      <4>2. r.kind # "warning"
        BY <4>1 DEF None
      <4> QED BY <1>2, <4>2
    <3> QED BY <3>1
  <2>2. Scanned(TRUE) \in SUBSET Nat /\ Scanned(TRUE) \subseteq FirstPage(TRUE)
        /\ FirstPage(TRUE) \subseteq DOMAIN comments
    BY <1>1 DEF Scanned, FirstPage
  <2>3. Least(Scanned(TRUE)) \in Scanned(TRUE)
    BY <2>1, <2>2, LeastIs
  <2>4. PICK i \in Scanned(TRUE) : i = Least(Scanned(TRUE))
    BY <2>3
  <2>5. r = [kind |-> comments[i].kind, i |-> i, source |-> "scan"]
    BY <1>2, <2>1, <2>4 DEF Receipt
  <2>6. comments[i].kind = "warning"
    <3>1. r.kind = comments[i].kind
      BY <2>5
    <3> QED BY <1>2, <3>1
  <2> QED BY <2>2, <2>4, <2>6
<1>4. IsFiniteSet(FirstPage(TRUE))
  <2>1. FirstPage(TRUE) \subseteq 1 .. Len(comments) /\ IsFiniteSet(1 .. Len(comments))
    BY <1>1, FS_Interval DEF FirstPage
  <2> QED BY <2>1, FS_Subset
<1>5. ~(Cardinality(FirstPage(TRUE)) >= 2)
  BY DEF Exhausted
<1> SUFFICES ASSUME NEW n \in DOMAIN comments, comments[n].kind = "notice", ~(n > PageSize)
             PROVE  FALSE
  OBVIOUS
<1>6. n \in FirstPage(TRUE) /\ n # w
  BY <1>1, <1>3, ReminderAssumption DEF FirstPage, IsReminder
<1>7. Cardinality({w, n}) = 2
  <2>1. IsFiniteSet({w}) /\ Cardinality({w}) = 1
    BY FS_Singleton
  <2>2. {w} \union {n} = {w, n} /\ n \notin {w}
    BY <1>6
  <2>3. Cardinality({w} \union {n}) = Cardinality({w}) + 1
    <3>1. PICK W : W = {w}
      OBVIOUS
    <3> QED BY <2>1, <2>2, <3>1, FS_AddElement
  <2> QED BY <2>1, <2>2, <2>3
<1>8. {w, n} \subseteq FirstPage(TRUE)
  BY <1>3, <1>6
<1>9. Cardinality({w, n}) <= Cardinality(FirstPage(TRUE)) /\ Cardinality(FirstPage(TRUE)) \in Nat
  BY <1>4, <1>8, FS_Subset, FS_CardinalityType
<1> QED BY <1>5, <1>7, <1>9

\* The pass backfills the timer from a reminder it found; it gives notice without the
\* timer on a receipt for this scope, or where no notice is on the first page.
LEMMA BackfilledIs ==
  ASSUME RemindersInvariant, NEW readable \in BOOLEAN, NEW check \in Checks,
         NEW s, s = Backfilled(saved, readable)
  PROVE  /\ GoodNow(s)
         /\ saved.warned # 0 => s.warned # 0
         /\ Decision(s, check) = "transition" =>
              /\ turn /\ late = Deadline
              /\ \/ s.warned # 0 \/ Scoped(s) # {}
                 \/ \A i \in DOMAIN comments : comments[i].kind = "notice" => i > PageSize
              /\ \E i \in DOMAIN comments : /\ comments[i].kind = "warning" /\ ToReviewer(i)
                                            /\ comments[i].age = Period
         /\ Decision(s, check) = "warning" => turn /\ late = Deadline /\ Scoped(s) = {}
<1>1. PICK r : r = Receipt(saved, readable)
  OBVIOUS
<1>2. GoodNow(saved) /\ late \in 0 .. Deadline
  BY DEF RemindersInvariant, GoodNow, Typed
<1>3. s = saved \/ (s = Warned(saved, r.i) /\ r.kind = "warning" /\ saved.warned = 0)
  BY <1>1 DEF Backfilled
<1>4. r.kind = "warning" => r.i \in DOMAIN comments /\ comments[r.i].kind = "warning" /\ ToReviewer(r.i)
  BY <1>1, <1>2, ReceiptIs
<1>5. GoodNow(s)
  <2>1. CASE r.kind = "warning" /\ s = Warned(saved, r.i)
    <3>1. comments \in Seq(Post) /\ Longer(comments, comments)
      BY Sequences DEF RemindersInvariant, Typed, Longer
    <3> QED BY <1>2, <1>4, <2>1, <3>1, WarnedRow DEF GoodNow, ToReviewer
  <2> QED BY <1>2, <1>3, <2>1
<1>6. PICK b \in BOOLEAN : b = (check = "all")
  OBVIOUS
<1>7. PICK q : q = Receipt(s, b)
  OBVIOUS
<1>8. /\ q.kind = "warning" => /\ q.i \in DOMAIN comments /\ comments[q.i].kind = "warning"
                               /\ ToReviewer(q.i)
                               /\ q.source = "scan" \/ Scoped(s) # {}
      /\ q.kind = "none" => Scoped(s) = {}
  BY <1>5, <1>7, ReceiptIs
<1>9. Decision(s, check) # "none" => turn /\ late = Deadline /\ ~Exhausted(s, b)
  BY <1>6 DEF Decision
<1>10. Decision(s, check) = "transition" => q.kind = "warning" /\ comments[q.i].age = Period
  BY <1>6, <1>7 DEF Decision
<1>11. Decision(s, check) = "warning" => q.kind = "none"
  BY <1>6, <1>7 DEF Decision
<1>12. ASSUME Decision(s, check) = "transition", Scoped(s) = {}
       PROVE  \A i \in DOMAIN comments : comments[i].kind = "notice" => i > PageSize
  <2>1. q.kind = "warning" /\ ~Exhausted(s, b)
    BY <1>9, <1>10, <1>12
  <2>2. b = TRUE
    <3>1. CASE b = FALSE
      <4>1. Scanned(b) = {}
        BY <3>1 DEF Scanned, FirstPage
      <4>2. \/ q = [None EXCEPT !.kind = "notice"] \/ q = [None EXCEPT !.kind = "blocked"] \/ q = None
        BY <1>7, <1>12, <4>1 DEF Receipt
      <4> QED BY <2>1, <4>2 DEF None
    <3> QED BY <3>1
  <2> QED BY <1>5, <1>7, <1>12, <2>1, <2>2, OneOnPage
<1> QED BY <1>3, <1>5, <1>8, <1>9, <1>10, <1>11, <1>12

Reminder(kind) == [kind |-> kind, to |-> scope, age |-> 0]
Due == turn /\ late = Deadline

LEMMA ReminderIs ==
  ASSUME RemindersInvariant, NEW kind \in {"warning", "notice"}, NEW m, m = Reminder(kind)
  PROVE  m \in Post /\ m.kind = kind /\ m.to = scope /\ m.to.reviewer = scope.reviewer /\ m.age = 0
BY ReminderAssumption DEF Reminder, Post, Kinds, RemindersInvariant, Typed

LEMMA InSilent ==
  ASSUME RemindersInvariant, Silent # {}
  PROVE  /\ Most(Silent) \in Silent /\ \A i \in Silent : Most(Silent) >= i
         /\ Silent \subseteq DOMAIN comments /\ Most(Silent) > heard
<1>1. DOMAIN comments = 1 .. Len(comments) /\ Len(comments) \in Nat /\ heard \in Nat
  BY Sequences DEF RemindersInvariant, Typed
<1>2. Silent \in SUBSET (0 .. Len(comments)) /\ Silent \subseteq DOMAIN comments
  BY <1>1 DEF Silent
<1>3. Most(Silent) \in Silent /\ \A i \in Silent : Most(Silent) >= i
  BY <1>1, <1>2, MostIs
<1> QED BY <1>1, <1>2, <1>3 DEF Silent

LEMMA NoticeThere ==
  ASSUME RemindersInvariant, Stage = "noticed"
  PROVE  \E n \in DOMAIN comments : comments[n].kind = "notice"
<1>1. Silent # {} /\ \E i \in Most(Silent) .. Len(comments) : comments[i].kind = "notice"
  BY DEF Stage
<1>2. PICK n \in Most(Silent) .. Len(comments) : comments[n].kind = "notice"
  BY <1>1
<1>3. DOMAIN comments = 1 .. Len(comments) /\ Len(comments) \in Nat /\ Most(Silent) \in DOMAIN comments
  BY <1>1, InSilent, Sequences DEF RemindersInvariant, Typed
<1> QED BY <1>2, <1>3

\* A silent reviewer who was given notice is found to have been.
LEMMA NoticeIsFound ==
  ASSUME RemindersInvariant, NEW s, GoodNow(s), Stage = "noticed", s.warned # 0
  PROVE  Notices(s) # {}
<1>1. Silent # {} /\ \E i \in Most(Silent) .. Len(comments) : comments[i].kind = "notice"
  BY DEF Stage
<1>2. PICK n \in Most(Silent) .. Len(comments) : comments[n].kind = "notice"
  BY <1>1
<1>3. /\ DOMAIN comments = 1 .. Len(comments) /\ Len(comments) \in Nat /\ heard \in Nat
      /\ Most(Silent) \in DOMAIN comments /\ Most(Silent) > heard
      /\ \A i \in Silent : Most(Silent) >= i
  BY <1>1, InSilent, Sequences DEF RemindersInvariant, Typed
<1>4. n \in DOMAIN comments /\ n \in heard + 1 .. Len(comments)
  BY <1>2, <1>3
<1>5. ToReviewer(n)
  BY <1>2, <1>4 DEF RemindersInvariant, OnlyTo, ToReviewer
<1>6. s.warned \in DOMAIN comments /\ comments[s.warned].kind = "warning"
  BY DEF GoodNow, GoodRow, TrueRow
<1>7. s.warned <= heard \/ s.warned \in Silent
  BY <1>3, <1>6 DEF Silent
<1>8. n >= s.warned
  BY <1>2, <1>3, <1>6, <1>7
<1> QED BY <1>2, <1>4, <1>5, <1>8 DEF Notices

\* What a scheduled run does to the comments, and when.
Reminds ==
  \/ comments' = comments
  \/ /\ comments' = Append(comments, Reminder("warning"))
     /\ Due /\ Warnings = {}
  \/ /\ comments' = Append(comments, Reminder("notice"))
     /\ Due /\ (Stage = "noticed" => OutOfSight)
     /\ \E i \in DOMAIN comments : /\ comments[i].kind = "warning" /\ ToReviewer(i)
                                   /\ comments[i].age = Period

Steady == UNCHANGED <<scope, answered, turn, completed, shown, late, acts, heard>>
SavedWell == GoodRow(comments', heard, scope, acts, saved')

LEMMA SavesEither ==
  ASSUME NEW s, NEW lost \in BOOLEAN, Saves(s, lost)
  PROVE  saved' = saved \/ saved' = s
BY DEF Saves

\* A row that is good for the comments stays good as they grow, unless it is cleared
\* and they grow by a warning.
LEMMA RowGrows ==
  ASSUME RemindersInvariant, NEW s, GoodNow(s), NEW m \in Post,
         m.kind # "warning" \/ Scoped(s) = {}
  PROVE  GoodRow(Append(comments, m), heard, scope, acts, s)
<1>1. comments \in Seq(Post) /\ heard \in Nat /\ scope \in Scopes /\ acts \in Nat
  BY ReminderAssumption DEF RemindersInvariant, Typed
<1>2. m.kind # "warning" \/ \A r \in s.receipts : r.scope # scope
  BY ScopedIs
<1>3. NoWarningSince(Append(comments, m), heard, s, scope)
  BY <1>1, <1>2, NoWarningExtended DEF GoodNow, GoodRow
<1>4. PICK d \in Seq(Post) : d = Append(comments, m) /\ Longer(comments, d)
  BY <1>1, AppendIs
<1>5. GoodRow(comments, heard, scope, acts, s) /\ acts <= acts /\ NoWarningSince(d, heard, s, scope)
  BY <1>1, <1>3, <1>4 DEF GoodNow
<1>6. GoodRow(d, heard, scope, acts, s)
  BY <1>1, <1>4, <1>5, RowStays
<1> QED BY <1>4, <1>6

LEMMA WarningKeeps ==
  ASSUME RemindersInvariant, NEW s, GoodNow(s), GoodNow(saved), Scoped(s) = {}, Scoped(saved) = {}, Due,
         NEW fate \in Fates, NEW lost \in BOOLEAN, WarningHandled(s, fate, lost)
  PROVE  Reminds /\ SavedWell
<1>1. comments \in Seq(Post) /\ DOMAIN comments = 1 .. Len(comments) /\ Len(comments) \in Nat
      /\ Longer(comments, comments)
  BY Sequences DEF RemindersInvariant, Typed, Longer
<1>2. CASE Warnings # {}
  <2>1. Least(Warnings) \in Warnings
    <3>1. Warnings \in SUBSET Nat
      BY <1>1 DEF Warnings
    <3> QED BY <1>2, <3>1, LeastIs
  <2>2. PICK i \in DOMAIN comments : /\ i = Least(Warnings) /\ comments[i].kind = "warning"
                                     /\ comments[i].to.reviewer = scope.reviewer
    BY <2>1 DEF Warnings
  <2>3. GoodNow(Warned(s, i))
    BY <1>1, <2>2, WarnedRow DEF GoodNow
  <2>4. comments' = comments /\ Saves(Warned(s, i), lost)
    BY <1>2, <2>2 DEF WarningHandled
  <2>5. saved' = saved \/ saved' = Warned(s, i)
    BY <2>4, SavesEither
  <2> QED BY <2>3, <2>4, <2>5 DEF Reminds, SavedWell, GoodNow
<1>3. CASE Warnings = {}
  <2>1. PICK t : t = IF fate = "made" THEN Warned(s, Len(comments) + 1) ELSE s
    OBVIOUS
  <2>2. Posted("warning", fate) /\ Saves(t, lost)
    BY <1>3, <2>1 DEF WarningHandled
  <2>3. saved' = saved \/ saved' = t
    BY <2>2, SavesEither
  <2>4. PICK m \in Post : m = Reminder("warning") /\ m.kind = "warning" /\ m.to.reviewer = scope.reviewer
    BY ReminderIs
  <2>5. CASE fate = "failed"
    <3>1. comments' = comments /\ t = s
      BY <2>1, <2>2, <2>5 DEF Posted
    <3> QED BY <2>3, <3>1 DEF Reminds, SavedWell, GoodNow
  <2>6. CASE fate # "failed"
    <3>1. comments' = Append(comments, m)
      BY <2>2, <2>4, <2>6 DEF Posted, Reminder
    <3>2. GoodRow(comments', heard, scope, acts, s) /\ GoodRow(comments', heard, scope, acts, saved)
      BY <3>1, RowGrows
    <3>3. GoodRow(comments', heard, scope, acts, Warned(s, Len(comments) + 1))
      <4>1. /\ comments' \in Seq(Post) /\ Longer(comments, comments')
            /\ Len(comments) + 1 \in DOMAIN comments' /\ comments'[Len(comments) + 1] = m
        BY <1>1, <3>1, AppendIs
      <4> QED BY <2>4, <4>1, WarnedRow
    <3> QED BY <1>3, <2>1, <2>3, <2>4, <3>1, <3>2, <3>3 DEF Reminds, SavedWell
  <2> QED BY <2>5, <2>6
<1> QED BY <1>2, <1>3

LEMMA TransitionKeeps ==
  ASSUME RemindersInvariant, NEW s, GoodNow(s), GoodNow(saved), Due,
         saved.warned # 0 => s.warned # 0,
         \/ s.warned # 0 \/ Scoped(s) # {}
         \/ \A i \in DOMAIN comments : comments[i].kind = "notice" => i > PageSize,
         \E i \in DOMAIN comments : /\ comments[i].kind = "warning" /\ ToReviewer(i)
                                    /\ comments[i].age = Period,
         NEW fate \in Fates, NEW lost \in BOOLEAN, TransitionHandled(s, fate, lost)
  PROVE  Reminds /\ SavedWell
<1>1. comments \in Seq(Post) /\ DOMAIN comments = 1 .. Len(comments) /\ Len(comments) \in Nat
      /\ Longer(comments, comments)
  BY Sequences DEF RemindersInvariant, Typed, Longer
<1>2. CASE s.noticed
  <2>1. comments' = comments /\ Saves(s, lost)
    BY <1>2 DEF TransitionHandled
  <2>2. saved' = saved \/ saved' = s
    BY <2>1, SavesEither
  <2> QED BY <2>1, <2>2 DEF Reminds, SavedWell, GoodNow
<1>3. CASE ~s.noticed /\ Notices(s) # {}
  <2>1. PICK i \in DOMAIN comments : comments[i].kind = "notice" /\ comments[i].to.reviewer = scope.reviewer
    BY <1>3 DEF Notices, ToReviewer
  <2>2. GoodNow([s EXCEPT !.noticed = TRUE])
    BY <1>1, <2>1, NoticedRow DEF GoodNow, GoodRow
  <2>3. comments' = comments /\ Saves([s EXCEPT !.noticed = TRUE], lost)
    BY <1>3 DEF TransitionHandled
  <2>4. saved' = saved \/ saved' = [s EXCEPT !.noticed = TRUE]
    BY <2>3, SavesEither
  <2> QED BY <2>2, <2>3, <2>4 DEF Reminds, SavedWell, GoodNow
<1>4. CASE ~s.noticed /\ Notices(s) = {}
  <2>1. PICK t : t = IF fate = "made" THEN [s EXCEPT !.noticed = TRUE] ELSE s
    OBVIOUS
  <2>2. Posted("notice", fate) /\ Saves(t, lost)
    BY <1>4, <2>1 DEF TransitionHandled
  <2>3. saved' = saved \/ saved' = t
    BY <2>2, SavesEither
  <2>4. PICK m \in Post : m = Reminder("notice") /\ m.kind = "notice" /\ m.to.reviewer = scope.reviewer
    BY ReminderIs
  <2>5. Stage = "noticed" => OutOfSight
    <3>1. CASE s.warned # 0
      BY <1>4, <3>1, NoticeIsFound
    <3>2. CASE s.warned = 0 /\ Scoped(s) # {}
      <4>1. \A i \in heard + 1 .. Len(comments) : comments[i].kind # "warning"
        BY <3>2, ScopedIs DEF GoodNow, GoodRow, NoWarningSince
      <4>2. Silent = {}
        BY <4>1 DEF Silent
      <4> QED BY <4>2 DEF Stage
    <3>3. CASE s.warned = 0 /\ Scoped(s) = {}
      <4>1. \A i \in DOMAIN comments : comments[i].kind = "notice" => i > PageSize
        BY <3>3
      <4>2. Stage = "noticed" => \E i \in DOMAIN comments : comments[i].kind = "notice"
        BY NoticeThere
      <4> QED BY <3>3, <4>1, <4>2 DEF OutOfSight
    <3> QED BY <3>1, <3>2, <3>3
  <2>6. CASE fate = "failed"
    <3>1. comments' = comments /\ t = s
      BY <2>1, <2>2, <2>6 DEF Posted
    <3> QED BY <2>3, <3>1 DEF Reminds, SavedWell, GoodNow
  <2>7. CASE fate # "failed"
    <3>1. comments' = Append(comments, m)
      BY <2>2, <2>4, <2>7 DEF Posted, Reminder
    <3>2. GoodRow(comments', heard, scope, acts, s) /\ GoodRow(comments', heard, scope, acts, saved)
      BY <2>4, <3>1, RowGrows
    <3>3. GoodRow(comments', heard, scope, acts, [s EXCEPT !.noticed = TRUE])
      <4>1. /\ comments' \in Seq(Post) /\ Longer(comments, comments')
            /\ Len(comments) + 1 \in DOMAIN comments' /\ comments'[Len(comments) + 1] = m
        BY <1>1, <3>1, AppendIs
      <4>2. NoWarningSince(comments', heard, s, scope)
        BY <3>2 DEF GoodRow
      <4> QED BY <2>4, <4>1, <4>2, NoticedRow
    <3> QED BY <2>1, <2>3, <2>4, <2>5, <3>1, <3>2, <3>3 DEF Reminds, SavedWell
  <2> QED BY <2>6, <2>7
<1> QED BY <1>2, <1>3, <1>4

LEMMA RunDoes ==
  ASSUME RemindersInvariant, ScheduledRun
  PROVE  Reminds /\ SavedWell /\ Steady /\ faults' \in 0 .. MaxFaults
<1>1. PICK readable \in BOOLEAN, lost \in BOOLEAN, check \in Checks, fate \in Fates :
        Run(readable, check, fate, lost)
  BY DEF ScheduledRun
<1>2. PICK s : s = Backfilled(saved, readable)
  OBVIOUS
<1>3. GoodNow(saved) /\ GoodNow(s)
  BY <1>2, BackfilledIs DEF RemindersInvariant, GoodNow
<1>4. /\ \/ Decision(s, check) = "warning" /\ WarningHandled(s, fate, lost)
         \/ Decision(s, check) = "transition" /\ TransitionHandled(s, fate, lost)
         \/ Decision(s, check) = "none" /\ comments' = comments /\ Saves(s, lost)
      /\ Steady
  BY <1>1, <1>2 DEF Run, Steady
<1>5. faults' \in 0 .. MaxFaults
  <2> DEFINE x == <<1, ~readable>>
             y == <<2, check # "all">>
             z == <<3, fate # "made">>
             w == <<4, lost>>
  <2>1. PICK W : /\ W \subseteq {x, y, z, w}
                 /\ faults + Cardinality(W) <= MaxFaults /\ faults' = faults + Cardinality(W)
    <3>1. PICK W : W = {b \in {x, y, z, w} : b[2]}
      OBVIOUS
    <3>2. faults + Cardinality(W) <= MaxFaults /\ faults' = faults + Cardinality(W)
      BY <1>1, <3>1 DEF Run
    <3> QED BY <3>1, <3>2
  <2> HIDE DEF x, y, z, w
  <2>2. Cardinality(W) \in Nat
    <3>1. IsFiniteSet({x}) /\ IsFiniteSet({y}) /\ IsFiniteSet({z}) /\ IsFiniteSet({w})
      BY FS_Singleton
    <3>2. IsFiniteSet({x} \union {y} \union {z} \union {w})
      BY <3>1, FS_Union
    <3>3. {x} \union {y} \union {z} \union {w} = {x, y, z, w}
      OBVIOUS
    <3> QED BY <2>1, <3>2, <3>3, FS_Subset, FS_CardinalityType
  <2> QED BY <2>1, <2>2, ReminderAssumption DEF RemindersInvariant, Typed
<1>6. CASE Decision(s, check) = "warning" /\ WarningHandled(s, fate, lost)
  <2>1. Due /\ Scoped(s) = {}
    BY <1>2, <1>6, BackfilledIs DEF Due
  <2>2. Scoped(saved) = {}
    <3>1. saved.receipts \subseteq s.receipts
      <4>1. s = saved \/ \E i : s = Warned(saved, i)
        BY <1>2 DEF Backfilled
      <4>2. saved \in Row
        BY <1>3 DEF GoodNow, GoodRow
      <4>3. ASSUME NEW i, s = Warned(saved, i) PROVE saved.receipts \subseteq s.receipts
        BY <4>2, <4>3 DEF Warned, Row
      <4> QED BY <4>1, <4>3
    <3> QED BY <2>1, <3>1 DEF Scoped
  <2> QED BY <1>3, <1>4, <1>5, <1>6, <2>1, <2>2, WarningKeeps
<1>7. CASE Decision(s, check) = "transition" /\ TransitionHandled(s, fate, lost)
  <2>1. /\ Due /\ (saved.warned # 0 => s.warned # 0)
        /\ \/ s.warned # 0 \/ Scoped(s) # {}
           \/ \A i \in DOMAIN comments : comments[i].kind = "notice" => i > PageSize
        /\ \E i \in DOMAIN comments : /\ comments[i].kind = "warning" /\ ToReviewer(i)
                                      /\ comments[i].age = Period
    BY <1>2, <1>7, BackfilledIs DEF Due
  <2> QED BY <1>3, <1>4, <1>5, <1>7, <2>1, TransitionKeeps
<1>8. CASE Decision(s, check) = "none" /\ comments' = comments /\ Saves(s, lost)
  <2>1. saved' = saved \/ saved' = s
    BY <1>8, SavesEither
  <2> QED BY <1>3, <1>4, <1>5, <1>8, <2>1 DEF Reminds, SavedWell, GoodNow
<1> QED BY <1>4, <1>6, <1>7, <1>8

LEMMA RunKeeps ==
  ASSUME RemindersInvariant, ScheduledRun
  PROVE  RemindersInvariant'
<1>1. Reminds /\ SavedWell /\ Steady /\ faults' \in 0 .. MaxFaults
  BY RunDoes
<1>2. /\ comments \in Seq(Post) /\ heard \in Nat /\ heard <= Len(comments) /\ Len(comments) \in Nat
      /\ InOrder(comments) /\ OnlyTo(comments, heard, scope.reviewer)
  BY Sequences DEF RemindersInvariant, Typed
<1>3. /\ comments' \in Seq(Post) /\ heard \in 0 .. Len(comments')
      /\ InOrder(comments') /\ OnlyTo(comments', heard, scope.reviewer)
  <2>1. CASE comments' = comments
    BY <1>2, <2>1
  <2>2. CASE comments' # comments
    <3>1. PICK kind \in {"warning", "notice"} : comments' = Append(comments, Reminder(kind))
      BY <1>1, <2>2 DEF Reminds
    <3>2. PICK m \in Post : m = Reminder(kind) /\ m.age = 0 /\ m.to.reviewer = scope.reviewer
      BY ReminderIs
    <3>3. comments' = Append(comments, m)
      BY <3>1, <3>2
    <3>4. InOrder(comments') /\ OnlyTo(comments', heard, scope.reviewer)
      BY <1>2, <3>2, <3>3, OrderExtended, OnlyToExtended
    <3>5. comments' \in Seq(Post) /\ Len(comments') = Len(comments) + 1
      BY <1>2, <3>3, AppendIs
    <3> QED BY <1>2, <3>4, <3>5
  <2> QED BY <2>1, <2>2
<1>4. Typed'
  <2>1. saved' \in Row
    BY <1>1 DEF SavedWell, GoodRow
  <2> QED BY <1>1, <1>3, <2>1 DEF Typed, Steady, RemindersInvariant
<1> QED BY <1>1, <1>3, <1>4 DEF RemindersInvariant, SavedWell, Steady

-----------------------------------------------------------------------------
(* The comments as module ReminderPromise sees them *)

WarningsIn(c, p) == {i \in DOMAIN c : c[i].kind = "warning" /\ c[i].to.reviewer = p}
WarnedIn(c) == {c[i].to : i \in {j \in DOMAIN c : c[j].kind = "warning"}}
SinceIn(c) == [p \in {q \in People : WarningsIn(c, q) # {}} |-> c[Least(WarningsIn(c, p))].age]
SilentIn(c, h) == {i \in h + 1 .. Len(c) : c[i].kind = "warning"}
StageIn(c, h) == IF SilentIn(c, h) = {} THEN "open"
                 ELSE IF \E i \in Most(SilentIn(c, h)) .. Len(c) : c[i].kind = "notice"
                   THEN "noticed" ELSE "warned"
RemindersIn(c) == {i \in DOMAIN c : c[i].kind # "talk"}

LEMMA Mapping ==
  /\ WarnedOf = WarnedIn(comments) /\ Since = SinceIn(comments)
  /\ Stage = StageIn(comments, heard) /\ Number = Cardinality(RemindersIn(comments))
BY DEF WarnedOf, WarnedIn, Since, SinceIn, Stage, StageIn, Number, RemindersIn, IsReminder,
       WarningsTo, WarningsIn, Oldest, Silent, SilentIn, ToReviewer

LEMMA MappingNext ==
  /\ WarnedOf' = WarnedIn(comments') /\ Since' = SinceIn(comments')
  /\ Stage' = StageIn(comments', heard') /\ Number' = Cardinality(RemindersIn(comments'))
BY DEF WarnedOf, WarnedIn, Since, SinceIn, Stage, StageIn, Number, RemindersIn, IsReminder,
       WarningsTo, WarningsIn, Oldest, Silent, SilentIn, ToReviewer

LEMMA Sighted == OutOfSight \in BOOLEAN /\ OutOfSight' \in BOOLEAN
BY DEF OutOfSight

LEMMA LeastWarning ==
  ASSUME NEW c \in Seq(Post), NEW p, WarningsIn(c, p) # {}
  PROVE  /\ Least(WarningsIn(c, p)) \in WarningsIn(c, p)
         /\ \A i \in WarningsIn(c, p) : Least(WarningsIn(c, p)) <= i
<1>1. WarningsIn(c, p) \in SUBSET Nat
  BY Sequences DEF WarningsIn
<1> QED BY <1>1, LeastIs

LEMMA MostSilent ==
  ASSUME NEW c \in Seq(Post), NEW h \in Nat, SilentIn(c, h) # {}
  PROVE  /\ Most(SilentIn(c, h)) \in SilentIn(c, h)
         /\ \A i \in SilentIn(c, h) : Most(SilentIn(c, h)) >= i
<1>1. SilentIn(c, h) \in SUBSET (0 .. Len(c)) /\ Len(c) \in Nat
  BY Sequences DEF SilentIn
<1> QED BY <1>1, MostIs

LEMMA SameWhenAged ==
  ASSUME NEW c \in Seq(Post), NEW h \in Nat, NEW d \in Seq(Post), d = Aged(c)
  PROVE  /\ WarnedIn(d) = WarnedIn(c) /\ RemindersIn(d) = RemindersIn(c)
         /\ StageIn(d, h) = StageIn(c, h)
         /\ SinceIn(d) = [p \in DOMAIN SinceIn(c) |-> Older(SinceIn(c)[p], Period)]
<1>1. /\ Len(d) = Len(c) /\ DOMAIN d = DOMAIN c /\ DOMAIN c = 1 .. Len(c) /\ Len(c) \in Nat
      /\ \A i \in DOMAIN c : d[i].kind = c[i].kind /\ d[i].to = c[i].to
      /\ \A i \in DOMAIN c : d[i].age = Older(c[i].age, Period)
  BY AgedIs, Sequences DEF Longer
<1>2. WarnedIn(d) = WarnedIn(c)
  BY <1>1 DEF WarnedIn
<1>3. RemindersIn(d) = RemindersIn(c)
  BY <1>1 DEF RemindersIn
<1>4. SilentIn(d, h) = SilentIn(c, h) /\ SilentIn(c, h) \subseteq DOMAIN c
  BY <1>1 DEF SilentIn
<1>5. StageIn(d, h) = StageIn(c, h)
  <2>1. CASE SilentIn(c, h) = {}
    BY <1>4, <2>1 DEF StageIn
  <2>2. CASE SilentIn(c, h) # {}
    <3>1. Most(SilentIn(c, h)) \in DOMAIN c
      BY <1>4, <2>2, MostSilent
    <3>2. \A i \in Most(SilentIn(c, h)) .. Len(c) : d[i].kind = c[i].kind
      BY <1>1, <3>1
    <3> QED BY <1>1, <1>4, <2>2, <3>2 DEF StageIn
  <2> QED BY <2>1, <2>2
<1>6. \A p : WarningsIn(d, p) = WarningsIn(c, p)
  BY <1>1 DEF WarningsIn
<1>7. SinceIn(d) = [p \in DOMAIN SinceIn(c) |-> Older(SinceIn(c)[p], Period)]
  <2>1. DOMAIN SinceIn(c) = {q \in People : WarningsIn(c, q) # {}}
    BY DEF SinceIn
  <2>2. ASSUME NEW p \in People, WarningsIn(c, p) # {}
        PROVE  d[Least(WarningsIn(d, p))].age = Older(SinceIn(c)[p], Period)
    <3>1. Least(WarningsIn(c, p)) \in DOMAIN c
      BY <2>2, LeastWarning DEF WarningsIn
    <3>2. SinceIn(c)[p] = c[Least(WarningsIn(c, p))].age
      BY <2>2 DEF SinceIn
    <3> QED BY <1>1, <1>6, <3>1, <3>2
  <2>3. SinceIn(d) = [p \in {q \in People : WarningsIn(c, q) # {}} |-> d[Least(WarningsIn(d, p))].age]
    BY <1>6 DEF SinceIn
  <2> QED BY <2>1, <2>2, <2>3
<1> QED BY <1>2, <1>3, <1>5, <1>7

\* Talk is no reminder.
OnlyTalk(c, d) ==
  /\ Len(c) <= Len(d)
  /\ \A i \in DOMAIN c : d[i] = c[i]
  /\ \A i \in DOMAIN d : i > Len(c) => d[i].kind = "talk"

LEMMA TalkAdded ==
  ASSUME NEW c \in Seq(Post), NEW m \in Post, m.kind = "talk",
         NEW d \in Seq(Post), d = c \/ d = Append(c, m)
  PROVE  OnlyTalk(c, d)
<1>1. CASE d = c
  BY <1>1, Sequences DEF OnlyTalk
<1>2. CASE d = Append(c, m)
  BY <1>2, AppendIs DEF OnlyTalk
<1> QED BY <1>1, <1>2

LEMMA SameWhenTalk ==
  ASSUME NEW c \in Seq(Post), NEW h \in Nat, NEW d \in Seq(Post), OnlyTalk(c, d)
  PROVE  /\ WarnedIn(d) = WarnedIn(c) /\ RemindersIn(d) = RemindersIn(c)
         /\ StageIn(d, h) = StageIn(c, h) /\ SinceIn(d) = SinceIn(c)
         /\ StageIn(d, Len(c)) = "open"
<1>1. /\ Len(c) \in Nat /\ Len(d) \in Nat /\ Len(c) <= Len(d)
      /\ DOMAIN c = 1 .. Len(c) /\ DOMAIN d = 1 .. Len(d)
      /\ \A i \in DOMAIN c : d[i] = c[i]
      /\ \A i \in DOMAIN d : i > Len(c) => d[i].kind = "talk"
  BY Sequences DEF OnlyTalk
<1>2. {i \in DOMAIN d : d[i].kind = "warning"} = {i \in DOMAIN c : c[i].kind = "warning"}
  BY <1>1
<1>3. WarnedIn(d) = WarnedIn(c)
  <2>1. \A i \in {j \in DOMAIN c : c[j].kind = "warning"} : d[i].to = c[i].to
    BY <1>1
  <2> QED BY <1>2, <2>1 DEF WarnedIn
<1>4. RemindersIn(d) = RemindersIn(c)
  BY <1>1 DEF RemindersIn
<1>5. SilentIn(d, h) = SilentIn(c, h) /\ SilentIn(c, h) \subseteq DOMAIN c /\ SilentIn(d, Len(c)) = {}
  BY <1>1 DEF SilentIn
<1>6. StageIn(d, h) = StageIn(c, h)
  <2>1. CASE SilentIn(c, h) = {}
    BY <1>5, <2>1 DEF StageIn
  <2>2. CASE SilentIn(c, h) # {}
    <3>1. Most(SilentIn(c, h)) \in DOMAIN c
      BY <1>5, <2>2, MostSilent
    <3>2. (\E i \in Most(SilentIn(c, h)) .. Len(d) : d[i].kind = "notice")
            <=> (\E i \in Most(SilentIn(c, h)) .. Len(c) : c[i].kind = "notice")
      BY <1>1, <3>1
    <3> QED BY <1>5, <2>2, <3>2 DEF StageIn
  <2> QED BY <2>1, <2>2
<1>7. \A p : WarningsIn(d, p) = WarningsIn(c, p)
  BY <1>1 DEF WarningsIn
<1>8. SinceIn(d) = SinceIn(c)
  <2>1. ASSUME NEW p \in People, WarningsIn(c, p) # {}
        PROVE  d[Least(WarningsIn(d, p))].age = c[Least(WarningsIn(c, p))].age
    <3>1. Least(WarningsIn(c, p)) \in DOMAIN c
      BY <2>1, LeastWarning DEF WarningsIn
    <3> QED BY <1>1, <1>7, <3>1
  <2> QED BY <1>7, <2>1 DEF SinceIn
<1>9. StageIn(d, Len(c)) = "open"
  BY <1>5 DEF StageIn
<1> QED BY <1>3, <1>4, <1>6, <1>8, <1>9

\* One more reminder.
LEMMA OneMoreReminder ==
  ASSUME NEW c \in Seq(Post), NEW m \in Post, m.kind # "talk", NEW d \in Seq(Post), d = Append(c, m)
  PROVE  Cardinality(RemindersIn(d)) = Cardinality(RemindersIn(c)) + 1
<1>1. RemindersIn(d) = RemindersIn(c) \union {Len(c) + 1} /\ Len(c) + 1 \notin RemindersIn(c)
  BY AppendIs DEF RemindersIn
<1>2. IsFiniteSet(RemindersIn(c))
  <2>1. Len(c) \in Nat /\ RemindersIn(c) \subseteq 1 .. Len(c)
    BY Sequences DEF RemindersIn
  <2>2. IsFiniteSet(1 .. Len(c))
    BY <2>1, FS_Interval
  <2> QED BY <2>1, <2>2, FS_Subset
<1> QED BY <1>1, <1>2, FS_AddElement

SinceAlso(f, p) == [q \in DOMAIN f \union {p} |-> IF q \in DOMAIN f THEN f[q] ELSE 0]

LEMMA WarningAdds ==
  ASSUME NEW c \in Seq(Post), NEW h \in 0 .. Len(c), NEW m \in Post, m.kind = "warning", m.age = 0,
         NEW d \in Seq(Post), d = Append(c, m)
  PROVE  /\ WarnedIn(d) = WarnedIn(c) \union {m.to}
         /\ SinceIn(d) = SinceAlso(SinceIn(c), m.to.reviewer)
         /\ StageIn(d, h) = "warned"
<1> DEFINE n == Len(c) + 1
<1>0. PICK p \in People : p = m.to.reviewer
  BY DEF Post, Scopes
<1>1. /\ Len(c) \in Nat /\ Len(d) = n /\ DOMAIN c = 1 .. Len(c) /\ DOMAIN d = 1 .. n /\ h \in Nat
      /\ \A i \in DOMAIN c : d[i] = c[i]
      /\ d[n] = m
  BY AppendIs
<1>2. WarnedIn(d) = WarnedIn(c) \union {m.to}
  <2>1. {i \in DOMAIN d : d[i].kind = "warning"} = {i \in DOMAIN c : c[i].kind = "warning"} \union {n}
    BY <1>1
  <2>2. \A i \in {j \in DOMAIN c : c[j].kind = "warning"} : d[i].to = c[i].to
    BY <1>1
  <2> HIDE DEF n
  <2> QED BY <1>1, <2>1, <2>2 DEF WarnedIn
<1>3. StageIn(d, h) = "warned"
  <2>1. n \in Nat /\ n \in SilentIn(d, h) /\ \A i \in SilentIn(d, h) : i \in Nat /\ i <= n
    BY <1>1 DEF SilentIn
  <2>2. Most(SilentIn(d, h)) \in SilentIn(d, h) /\ Most(SilentIn(d, h)) >= n
    BY <1>1, <2>1, MostSilent
  <2>3. Most(SilentIn(d, h)) = n
    <3>1. PICK k \in SilentIn(d, h) : k = Most(SilentIn(d, h)) /\ k >= n
      BY <2>2
    <3>2. k \in Nat /\ k <= n
      BY <2>1
    <3> HIDE DEF n
    <3>3. k = n
      BY <2>1, <3>1, <3>2
    <3> QED BY <3>1, <3>3
  <2>4. \A i \in n .. n : d[i].kind # "notice"
    BY <1>1
  <2> QED BY <1>1, <2>1, <2>3, <2>4 DEF StageIn
<1>4. \A q : WarningsIn(d, q) = WarningsIn(c, q) \union (IF q = p THEN {n} ELSE {})
  BY <1>1, <1>0 DEF WarningsIn
<1>5. \A q : WarningsIn(c, q) # {} => Least(WarningsIn(d, q)) = Least(WarningsIn(c, q))
  <2> SUFFICES ASSUME NEW q, WarningsIn(c, q) # {}
               PROVE  Least(WarningsIn(d, q)) = Least(WarningsIn(c, q))
    OBVIOUS
  <2>1. /\ Least(WarningsIn(c, q)) \in WarningsIn(c, q)
        /\ \A i \in WarningsIn(c, q) : Least(WarningsIn(c, q)) <= i
    BY LeastWarning
  <2>2. /\ Least(WarningsIn(d, q)) \in WarningsIn(d, q)
        /\ \A i \in WarningsIn(d, q) : Least(WarningsIn(d, q)) <= i
    BY <1>4, LeastWarning
  <2>3. \A i \in WarningsIn(c, q) : i \in Nat /\ i < n
    BY <1>1 DEF WarningsIn
  <2>4. \A i \in WarningsIn(d, q) : i \in Nat /\ (i \in WarningsIn(c, q) \/ i = n)
    BY <1>1, <1>4, <2>3
  <2> HIDE DEF n
  <2> QED BY <1>4, <2>1, <2>2, <2>3, <2>4
<1>6. DOMAIN SinceIn(c) = {q \in People : WarningsIn(c, q) # {}}
  BY DEF SinceIn
<1>7. {q \in People : WarningsIn(d, q) # {}} = DOMAIN SinceIn(c) \union {p}
  BY <1>4, <1>6
<1>8. ASSUME NEW q \in DOMAIN SinceIn(c) \union {p}
      PROVE  d[Least(WarningsIn(d, q))].age = IF q \in DOMAIN SinceIn(c) THEN SinceIn(c)[q] ELSE 0
  <2>1. CASE q \in DOMAIN SinceIn(c)
    <3>1. SinceIn(c)[q] = c[Least(WarningsIn(c, q))].age /\ WarningsIn(c, q) # {}
      BY <1>6, <2>1 DEF SinceIn
    <3>2. Least(WarningsIn(c, q)) \in DOMAIN c
      BY <3>1, LeastWarning DEF WarningsIn
    <3> QED BY <1>1, <1>5, <2>1, <3>1, <3>2
  <2>2. CASE q \notin DOMAIN SinceIn(c)
    <3>1. q = p /\ WarningsIn(d, q) = {n}
      BY <1>4, <1>6, <2>2
    <3>2. Least(WarningsIn(d, q)) = n
      BY <3>1, LeastWarning
    <3> QED BY <1>1, <2>2, <3>2
  <2> QED BY <2>1, <2>2
<1>9. SinceIn(d) = [q \in DOMAIN SinceIn(c) \union {p} |-> d[Least(WarningsIn(d, q))].age]
  BY <1>7 DEF SinceIn
<1>10. SinceIn(d) = SinceAlso(SinceIn(c), p)
  BY <1>8, <1>9 DEF SinceAlso
<1> QED BY <1>0, <1>2, <1>3, <1>10

LEMMA NoticeAdds ==
  ASSUME NEW c \in Seq(Post), NEW h \in 0 .. Len(c), NEW m \in Post, m.kind = "notice",
         NEW d \in Seq(Post), d = Append(c, m)
  PROVE  /\ WarnedIn(d) = WarnedIn(c) /\ SinceIn(d) = SinceIn(c)
         /\ StageIn(d, h) = IF SilentIn(c, h) = {} THEN "open" ELSE "noticed"
<1> DEFINE n == Len(c) + 1
<1>1. /\ Len(c) \in Nat /\ Len(d) = n /\ DOMAIN c = 1 .. Len(c) /\ DOMAIN d = 1 .. n /\ h \in Nat
      /\ \A i \in DOMAIN c : d[i] = c[i]
      /\ d[n] = m
  BY AppendIs
<1>2. WarnedIn(d) = WarnedIn(c)
  <2>1. {i \in DOMAIN d : d[i].kind = "warning"} = {i \in DOMAIN c : c[i].kind = "warning"}
    BY <1>1
  <2>2. \A i \in {j \in DOMAIN c : c[j].kind = "warning"} : d[i].to = c[i].to
    BY <1>1
  <2> QED BY <2>1, <2>2 DEF WarnedIn
<1>3. StageIn(d, h) = IF SilentIn(c, h) = {} THEN "open" ELSE "noticed"
  <2>1. SilentIn(d, h) = SilentIn(c, h) /\ SilentIn(c, h) \subseteq DOMAIN c
    BY <1>1 DEF SilentIn
  <2>2. CASE SilentIn(c, h) = {}
    BY <2>1, <2>2 DEF StageIn
  <2>3. CASE SilentIn(c, h) # {}
    <3>1. Most(SilentIn(c, h)) \in DOMAIN c
      BY <1>1, <2>1, <2>3, MostSilent
    <3>2. n \in Most(SilentIn(c, h)) .. n /\ d[n].kind = "notice"
      BY <1>1, <3>1
    <3> QED BY <1>1, <2>1, <2>3, <3>2 DEF StageIn
  <2> QED BY <2>2, <2>3
<1>4. \A q : WarningsIn(d, q) = WarningsIn(c, q)
  BY <1>1 DEF WarningsIn
<1>5. SinceIn(d) = SinceIn(c)
  <2>1. ASSUME NEW q \in People, WarningsIn(c, q) # {}
        PROVE  d[Least(WarningsIn(d, q))].age = c[Least(WarningsIn(c, q))].age
    <3>1. Least(WarningsIn(c, q)) \in WarningsIn(c, q)
      BY <2>1, LeastWarning
    <3>2. Least(WarningsIn(c, q)) \in DOMAIN c
      BY <3>1 DEF WarningsIn
    <3> QED BY <1>1, <1>4, <3>2
  <2> QED BY <1>4, <2>1 DEF SinceIn
<1> QED BY <1>2, <1>3, <1>5

-----------------------------------------------------------------------------
(* Every step is one of the promise *)

LEMMA PromisedDay ==
  ASSUME RemindersInvariant, NextDay
  PROVE  Promise!NextDay
<1>1. /\ comments' = Aged(comments) /\ late' = Older(late, Deadline)
      /\ UNCHANGED <<scope, turn, heard>>
  BY DEF NextDay, Aged
<1>2. comments \in Seq(Post) /\ heard \in Nat
  BY ReminderAssumption DEF RemindersInvariant, Typed
<1>3. PICK c \in Seq(Post), d \in Seq(Post), h \in Nat :
        c = comments /\ d = comments' /\ h = heard /\ d = Aged(c)
  BY <1>1, <1>2, AgedIs
<1>4. /\ WarnedIn(d) = WarnedIn(c) /\ RemindersIn(d) = RemindersIn(c)
      /\ StageIn(d, h) = StageIn(c, h)
      /\ SinceIn(d) = [p \in DOMAIN SinceIn(c) |-> Older(SinceIn(c)[p], Period)]
  BY <1>3, SameWhenAged
<1>5. /\ WarnedOf' = WarnedOf /\ Number' = Number /\ Stage' = Stage
      /\ Since' = [p \in DOMAIN Since |-> Older(Since[p], Period)]
  BY <1>1, <1>3, <1>4, Mapping, MappingNext
<1>6. OutOfSight' = OutOfSight
  <2>1. \A i \in DOMAIN c : d[i].kind = c[i].kind
    BY <1>3, AgedIs DEF Longer
  <2>2. DOMAIN d = DOMAIN c
    BY <1>3, AgedIs
  <2>3. saved' = saved
    BY DEF NextDay
  <2> QED BY <1>3, <2>1, <2>2, <2>3 DEF OutOfSight
<1>7. \A a, b : Promise!OneMore(a, b) = Older(a, b)
  BY DEF Promise!OneMore, Older
<1> QED BY <1>1, <1>5, <1>6, <1>7 DEF Promise!NextDay

LEMMA PromisedDeed ==
  ASSUME RemindersInvariant, RemindersInvariant', PeopleAct
  PROVE  Promise!PeopleAct
<1>1. /\ comments' = comments \/ comments' = Append(comments, Remark)
      /\ heard' \in {heard, Len(comments)}
      /\ late' \in {late, 0}
  BY DEF PeopleAct, AuthorComments, AuthorPushes, ReviewerAnswers, ReviewerStirs, Reassign,
         AssigneesEdited
<1>2. /\ comments \in Seq(Post) /\ comments' \in Seq(Post) /\ heard \in Nat
      /\ scope' \in Scopes /\ turn' \in BOOLEAN
  BY ReminderAssumption DEF RemindersInvariant, Typed
<1>3. PICK c \in Seq(Post), d \in Seq(Post), h \in Nat :
        c = comments /\ d = comments' /\ h = heard /\ OnlyTalk(c, d)
  <2>1. OnlyTalk(comments, comments')
    BY <1>1, <1>2, Talk, TalkAdded
  <2> QED BY <1>2, <2>1
<1>4. /\ WarnedIn(d) = WarnedIn(c) /\ RemindersIn(d) = RemindersIn(c)
      /\ StageIn(d, h) = StageIn(c, h) /\ SinceIn(d) = SinceIn(c)
      /\ StageIn(d, Len(c)) = "open"
  BY <1>3, SameWhenTalk
<1>5. UNCHANGED <<WarnedOf, Since, Number>> /\ Stage' \in {Stage, "open"}
  BY <1>1, <1>3, <1>4, Mapping, MappingNext
<1> QED BY <1>1, <1>2, <1>5, Sighted DEF Promise!PeopleAct

LEMMA PromisedRun ==
  ASSUME RemindersInvariant, ScheduledRun
  PROVE  Promise!Warn \/ Promise!Notice \/ Promise!Save
<1>1. Reminds /\ UNCHANGED <<scope, turn, late, heard>>
  BY RunDoes DEF Steady
<1>2. /\ comments \in Seq(Post) /\ heard \in 0 .. Len(comments) /\ scope \in Scopes
      /\ scope.reviewer \in People /\ InOrder(comments)
  BY DEF RemindersInvariant, Typed, Scopes
<1>3. CASE comments' = comments
  <2>1. UNCHANGED <<WarnedOf, Since, Stage, Number>>
    BY <1>1, <1>3, Mapping, MappingNext
  <2> QED BY <1>1, <2>1, Sighted DEF Promise!Save
<1>4. CASE comments' = Append(comments, Reminder("warning")) /\ Due /\ Warnings = {}
  <2>1. PICK m \in Post : /\ m = Reminder("warning") /\ m.kind = "warning" /\ m.to = scope
                          /\ m.to.reviewer = scope.reviewer /\ m.age = 0
    BY ReminderIs
  <2>2. PICK c \in Seq(Post), d \in Seq(Post), h \in 0 .. Len(comments), p \in People :
          c = comments /\ d = comments' /\ d = Append(c, m) /\ h = heard /\ p = scope.reviewer
    BY <1>2, <1>4, <2>1, AppendIs
  <2>3. /\ WarnedIn(d) = WarnedIn(c) \union {m.to}
        /\ SinceIn(d) = SinceAlso(SinceIn(c), p)
        /\ StageIn(d, h) = "warned"
        /\ Cardinality(RemindersIn(d)) = Cardinality(RemindersIn(c)) + 1
    <3>1. h \in 0 .. Len(c) /\ p \in People /\ p = m.to.reviewer /\ m.kind # "talk"
      BY <2>1, <2>2
    <3>2. Cardinality(RemindersIn(d)) = Cardinality(RemindersIn(c)) + 1
      BY <2>2, <3>1, OneMoreReminder
    <3>3. d = Append(c, m) /\ m.kind = "warning" /\ m.age = 0
      BY <2>1, <2>2
    <3>4. /\ WarnedIn(d) = WarnedIn(c) \union {m.to}
          /\ SinceIn(d) = SinceAlso(SinceIn(c), m.to.reviewer)
          /\ StageIn(d, h) = "warned"
      BY <3>1, <3>3, WarningAdds
    <3> QED BY <3>1, <3>2, <3>4
  <2>4. /\ WarnedOf' = WarnedOf \union {scope} /\ Stage' = "warned" /\ Number' = Number + 1
        /\ Since' = SinceAlso(Since, scope.reviewer)
    BY <1>1, <2>1, <2>2, <2>3, Mapping, MappingNext
  <2>5. scope \notin WarnedOf
    BY <1>4 DEF Warnings, WarnedOf
  <2> QED BY <1>1, <1>4, <2>4, <2>5, Sighted DEF Promise!Warn, Due, SinceAlso
<1>5. CASE /\ comments' = Append(comments, Reminder("notice")) /\ Due /\ (Stage = "noticed" => OutOfSight)
           /\ \E i \in DOMAIN comments : /\ comments[i].kind = "warning" /\ ToReviewer(i)
                                         /\ comments[i].age = Period
  <2>1. PICK m \in Post : m = Reminder("notice") /\ m.kind = "notice"
    BY ReminderIs
  <2>2. PICK c \in Seq(Post), d \in Seq(Post), h \in 0 .. Len(comments), p \in People :
          c = comments /\ d = comments' /\ d = Append(c, m) /\ h = heard /\ p = scope.reviewer
    BY <1>2, <1>5, <2>1, AppendIs
  <2>3. /\ WarnedIn(d) = WarnedIn(c) /\ SinceIn(d) = SinceIn(c)
        /\ StageIn(d, h) = IF SilentIn(c, h) = {} THEN "open" ELSE "noticed"
        /\ Cardinality(RemindersIn(d)) = Cardinality(RemindersIn(c)) + 1
    <3>1. h \in 0 .. Len(c) /\ m.kind # "talk"
      BY <2>1, <2>2
    <3>2. Cardinality(RemindersIn(d)) = Cardinality(RemindersIn(c)) + 1
      BY <2>2, <3>1, OneMoreReminder
    <3>3. /\ WarnedIn(d) = WarnedIn(c) /\ SinceIn(d) = SinceIn(c)
          /\ StageIn(d, h) = IF SilentIn(c, h) = {} THEN "open" ELSE "noticed"
      <4>1. d = Append(c, m) /\ m.kind = "notice"
        BY <2>1, <2>2
      <4> QED BY <3>1, <4>1, NoticeAdds
    <3> QED BY <3>2, <3>3
  <2>4. /\ WarnedOf' = WarnedOf /\ Since' = Since /\ Number' = Number + 1
        /\ Stage' = (IF Stage = "warned" THEN "noticed" ELSE Stage)
    <3>1. StageIn(c, h) = Stage /\ Stage' = StageIn(d, h)
      BY <1>1, <2>2, Mapping, MappingNext
    <3>2. SilentIn(c, h) = {} <=> Stage = "open"
      BY <1>5, <3>1 DEF StageIn
    <3>3. SilentIn(c, h) # {} => Stage \in {"warned", "noticed"}
      BY <1>5, <3>1 DEF StageIn
    <3>4. WarnedOf' = WarnedOf /\ Since' = Since /\ Number' = Number + 1
      BY <1>1, <2>2, <2>3, Mapping, MappingNext
    <3> QED BY <2>3, <3>1, <3>2, <3>3, <3>4
  <2>5. scope.reviewer \in DOMAIN Since /\ Since[scope.reviewer] = Period
    <3>1. PICK i \in DOMAIN c : c[i].kind = "warning" /\ c[i].to.reviewer = p /\ c[i].age = Period
      BY <1>5, <2>2 DEF ToReviewer
    <3>2. i \in WarningsIn(c, p)
      BY <3>1 DEF WarningsIn
    <3>3. Least(WarningsIn(c, p)) \in WarningsIn(c, p) /\ Least(WarningsIn(c, p)) <= i
      BY <3>2, LeastWarning
    <3>4. PICK j \in DOMAIN c : j = Least(WarningsIn(c, p)) /\ j <= i /\ c[j].kind = "warning"
      BY <3>3 DEF WarningsIn
    <3>5. c[j].age \in 0 .. Period /\ c[i].age <= c[j].age
      <4>1. InOrder(c)
        BY <1>2, <2>2
      <4>2. c[i].age <= c[j].age
        BY <3>1, <3>4, <4>1 DEF InOrder
      <4>3. c[j] \in Post
        BY <3>4, Sequences
      <4> QED BY <4>2, <4>3 DEF Post
    <3>6. c[j].age = Period
      BY <3>1, <3>5, ReminderAssumption
    <3>7. p \in DOMAIN SinceIn(c) /\ SinceIn(c)[p] = c[j].age
      BY <3>2, <3>4 DEF SinceIn
    <3> QED BY <2>2, <3>6, <3>7, Mapping
  <2> QED BY <1>1, <1>5, <2>4, <2>5, Sighted DEF Promise!Notice, Due
<1> QED BY <1>1, <1>3, <1>4, <1>5 DEF Reminds

-----------------------------------------------------------------------------
(* The theorems *)

LEMMA RemindersInit == Init => RemindersInvariant
<1> SUFFICES ASSUME Init PROVE RemindersInvariant
  OBVIOUS
<1>1. comments = <<>> /\ comments \in Seq(Post) /\ Len(comments) = 0 /\ DOMAIN comments = {}
  BY DEF Init
<1>2. scope \in Scopes /\ Dated(scope, acts) /\ acts = 0 /\ faults = 0 /\ heard = 0
  BY ReminderAssumption DEF Init, Scopes, Dated
<1>3. saved \in Row /\ saved.warned = 0 /\ ~saved.noticed /\ saved.receipts = {}
  BY DEF Init, Row
<1>4. Typed
  <2>1. \A n \in Nat : 0 \in 0 .. n
    OBVIOUS
  <2>2. Deadline \in Nat /\ MaxActs \in Nat /\ MaxFaults \in Nat
    BY ReminderAssumption
  <2>3. late \in 0 .. Deadline /\ acts \in 0 .. MaxActs /\ faults \in 0 .. MaxFaults
    BY <1>2, <2>1, <2>2 DEF Init
  <2>4. heard \in 0 .. Len(comments)
    BY <1>1, <1>2
  <2>5. answered \in BOOLEAN /\ turn \in BOOLEAN /\ completed \in BOOLEAN /\ shown \in BOOLEAN
    BY DEF Init
  <2> QED BY <1>1, <1>2, <1>3, <2>3, <2>4, <2>5 DEF Typed
<1>5. GoodRow(comments, heard, scope, acts, saved)
  BY <1>3 DEF GoodRow, TrueRow, NoWarningSince
<1> QED BY <1>1, <1>2, <1>4, <1>5 DEF RemindersInvariant, InOrder, OnlyTo

LEMMA RemindersNext ==
  ASSUME RemindersInvariant, Next
  PROVE  RemindersInvariant'
BY NextDayKeeps, AuthorCommentsKeeps, AuthorPushesKeeps, ReviewerKeeps, AssigneesEditedKeeps, RunKeeps
   DEF Next, PeopleAct

LEMMA RemindersStutter ==
  ASSUME RemindersInvariant, UNCHANGED vars
  PROVE  RemindersInvariant'
BY DEF RemindersInvariant, Typed, Dated, InOrder, OnlyTo, GoodRow, TrueRow, NoWarningSince, vars

\* The inductive invariant: whatever reads, posts and saves of the overdue pass fail,
\* and whatever people do between them, the reminders stand in the order of their
\* scopes and the saved row knows of none that was not posted.
THEOREM RemindersInvariantHolds == Spec => []RemindersInvariant
<1>1. RemindersInvariant /\ [Next]_vars => RemindersInvariant'
  BY RemindersNext, RemindersStutter
<1> QED BY <1>1, RemindersInit, PTL DEF Spec

\* handle_overdue_review_warning, handle_transition_notice and the backfills: a timer,
\* a notice and a receipt in the saved row stand for a comment that was posted, timer
\* and notice to the reviewer of now.
THEOREM SavedRowTrue == Spec => []SavedIsTrue
<1>1. RemindersInvariant => SavedIsTrue
  <2> SUFFICES ASSUME RemindersInvariant PROVE SavedIsTrue
    OBVIOUS
  <2>1. Typed /\ GoodRow(comments, heard, scope, acts, saved)
    BY DEF RemindersInvariant
  <2>2. DOMAIN comments = 1 .. Len(comments) /\ Len(comments) \in Nat /\ \A i \in DOMAIN comments : comments[i] \in Post
    BY <2>1, Sequences DEF Typed
  <2>3. saved.warned \in 0 .. Len(comments) /\ saved.noticed \in BOOLEAN
    BY <2>1, <2>2 DEF GoodRow, TrueRow, Row
  <2>4. \A r \in saved.receipts : r.scope \in Scopes /\ r.i \in DOMAIN comments
    BY <2>1 DEF GoodRow, TrueRow, Row
  <2>5. RemindersTypeOK
    BY <2>1, <2>2, <2>3, <2>4 DEF RemindersTypeOK, Typed, Post, Kinds
  <2> QED BY <2>1, <2>5 DEF SavedIsTrue, GoodRow, TrueRow, ToReviewer
<1> QED BY <1>1, RemindersInvariantHolds, PTL

\* The overdue pass implements ReminderPromise: through lost posts, lost saves and
\* failed reads a lapse is warned of once and not early, a notice follows a warning by
\* a transition period, and the silent are not given two for it.
THEOREM PromiseIsKept == Spec => PromiseKept
<1>1. Init => Promise!Init
  <2> SUFFICES ASSUME Init PROVE Promise!Init
    OBVIOUS
  <2>1. scope \in Scopes /\ late = 0 /\ turn = TRUE
    BY RemindersInit DEF RemindersInvariant, Typed, Init
  <2>2. comments = <<>> /\ DOMAIN comments = {} /\ Len(comments) = 0 /\ heard = 0
    BY DEF Init
  <2>3. WarnedOf = {} /\ {i \in DOMAIN comments : IsReminder(i)} = {} /\ Silent = {}
    BY <2>2 DEF WarnedOf, Silent
  <2>4. \A p : WarningsTo(p) = {}
    BY <2>2 DEF WarningsTo
  <2>5. Since = [p \in {} |-> 0]
    BY <2>4 DEF Since
  <2>6. Stage = "open" /\ Number = 0
    BY <2>3, FS_EmptySet DEF Stage, Number
  <2>7. OutOfSight = FALSE
    BY <2>2 DEF OutOfSight
  <2> QED BY <2>1, <2>3, <2>5, <2>6, <2>7 DEF Promise!Init
<1>2. RemindersInvariant /\ RemindersInvariant' /\ [Next]_vars => [Promise!Next]_(Promise!vars)
  <2> SUFFICES ASSUME RemindersInvariant, RemindersInvariant', [Next]_vars
               PROVE  Promise!Next \/ UNCHANGED Promise!vars
    OBVIOUS
  <2>1. CASE UNCHANGED vars
    <3>1. UNCHANGED <<scope, late, turn, comments, heard>>
      BY <2>1 DEF vars
    <3>2. UNCHANGED <<WarnedOf, Since, Stage, OutOfSight, Number>>
      <4>1. OutOfSight' = OutOfSight
        BY <2>1 DEF vars, OutOfSight
      <4> QED BY <3>1, <4>1, Mapping, MappingNext
    <3> QED BY <3>1, <3>2 DEF Promise!vars
  <2>2. CASE NextDay
    BY <2>2, PromisedDay DEF Promise!Next
  <2>3. CASE PeopleAct
    BY <2>3, PromisedDeed DEF Promise!Next
  <2>4. CASE ScheduledRun
    BY <2>4, PromisedRun DEF Promise!Next
  <2> QED BY <2>1, <2>2, <2>3, <2>4 DEF Next
<1> QED BY <1>1, <1>2, RemindersInvariantHolds, PTL DEF Spec, PromiseKept, Promise!Spec
=============================================================================
