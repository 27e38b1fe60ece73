---------------------------- MODULE BotRunProofs ----------------------------
(***************************************************************************)
(* Proofs about LeaseLock, for any set of runs, any lease times, any lag   *)
(* and any number of failures, and then about BotRun, which works under    *)
(* that lock: a run that ends well has saved, the state issue loses an     *)
(* update only after a PATCH that was overtaken, and a PATCH sent within   *)
(* the renewal window of the answer that vouches for it is not.            *)
(***************************************************************************)
EXTENDS BotRun, SequenceTheorems, TLAPS

-----------------------------------------------------------------------------
(* Of LeaseLock: type correctness *)

\* What the proofs use of sequences.
LEMMA Appended == ASSUME NEW S, NEW s \in Seq(S), NEW e \in S, NEW t, t = Append(s, e)
                  PROVE  /\ t \in Seq(S)
                         /\ Len(s) \in Nat /\ Len(t) = Len(s) + 1
                         /\ \A i \in 1..Len(s) : t[i] = s[i]
                         /\ t[Len(t)] = e /\ t[Len(s) + 1] = e
BY AppendProperties, LenProperties

LEMMA InitTyped == Init => TypeOK
<1> SUFFICES ASSUME Init PROVE TypeOK
  OBVIOUS
<1>1. Unlocked \in Lock
  BY DEF Unlocked, Lock
<1>2. ref \in Seq(Lock)
  <2>1. <<>> \in Seq(Lock) /\ <<Unlocked>> \in Seq(Lock)
    BY <1>1
  <2> QED BY <2>1 DEF Init
<1>3. \A r \in Runs : NoUpdate(r) \in Request
  BY <1>1 DEF NoUpdate, Update, Request
<1> QED
  BY <1>2, <1>3, BoundsAssumption DEF Init, TypeOK, Acquiring

LEMMA ReadTyped == ASSUME TypeOK, NEW i \in Readable
                   PROVE  /\ Len(ref) \in Nat /\ i \in 1..Len(ref) /\ i \in Nat
                          /\ ref[i] \in Lock /\ ref[i].exp \in Nat
<1>1. i \in 1..Len(ref)
  BY DEF Readable, Visible
<1>2. Len(ref) \in Nat /\ ref[i] \in Lock
  BY <1>1, LenProperties, ElementOfSeq DEF TypeOK
<1> QED BY <1>1, <1>2 DEF Lock

LEMMA SnapshotTyped == ASSUME TypeOK, SnapshotRaises
                       PROVE  ref' \in Seq(Lock) /\ faults' \in Nat /\ wire' = wire
<1>1. Foreign \in Lock
  BY DEF Foreign, Lock
<1>2. Append(ref, Foreign) \in Seq(Lock)
  BY <1>1, AppendProperties DEF TypeOK
<1> QED
  BY <1>2, BoundsAssumption DEF TypeOK, SnapshotRaises, Fault

LEMMA EndTyped == ASSUME TypeOK, NEW r \in Runs, NEW p \in Ended, End(r, p)
                  PROVE  /\ phase' \in [Runs -> Acquiring \union Holding \union Releasing \union Ended]
                         /\ since' \in [Runs -> Nat]
                         /\ sent' \in [Runs -> Request]
                         /\ tries' \in [Runs -> 0..RetryLimit]
                         /\ ctxExp' \in [Runs -> Nat]
BY BoundsAssumption
   DEF TypeOK, End, Go, NoUpdate, Update, Request, Lock, Unlocked

LEMMA CasTyped == ASSUME TypeOK, NEW q \in Request, CasAccepted(q) \/ CasRefused(q) \/ CasLost(q)
                  PROVE  ref' \in Seq(Lock) /\ wire' \subseteq Request /\ faults' \in Nat
<1>1. Append(ref, q.lock) \in Seq(Lock)
  BY AppendProperties DEF TypeOK, Request
<1>2. CASE CasAccepted(q)
  BY <1>1, <1>2 DEF TypeOK, CasAccepted
<1>3. CASE CasRefused(q)
  BY <1>3 DEF TypeOK, CasRefused, github
<1>4. CASE CasLost(q)
  BY <1>4 DEF TypeOK, CasLost, Fault
<1> QED BY <1>2, <1>3, <1>4

LEMMA LockTyped == ASSUME TypeOK, NEW r \in Runs
                   PROVE  /\ LockOf(r) \in Lock
                          /\ \A i \in Nat : Update(r, i, LockOf(r)) \in Request
                          /\ \A i \in Nat : Update(r, i, Unlocked) \in Request
                          /\ NoUpdate(r) \in Request
BY TimesAssumption DEF TypeOK, LockOf, Update, NoUpdate, Request, Lock, Unlocked

LEMMA NextTyped == TypeOK /\ [Next]_vars => TypeOK'
<1> SUFFICES ASSUME TypeOK, [Next]_vars PROVE TypeOK'
  OBVIOUS
<1> USE DEF Acquiring, Holding, Releasing, Ended, Go
<1>1. CASE Tick
  BY <1>1 DEF Tick, TypeOK, github
<1>2. ASSUME NEW q \in wire, LateUpdate(q) PROVE TypeOK'
  BY <1>2 DEF LateUpdate, TypeOK, Request
<1>3. ASSUME NEW r \in Runs, Crash(r) PROVE TypeOK'
  BY <1>3, EndTyped DEF Crash, TypeOK, github
<1>4. ASSUME NEW r \in Runs, Step(r) PROVE TypeOK'
  <2> USE LockTyped
  <2>1. CASE StartAcquire(r)
    BY <2>1 DEF StartAcquire, TypeOK, github
  <2>2. CASE AcquireTimesOut(r)
    BY <2>2, EndTyped DEF AcquireTimesOut, TypeOK, github
  <2>3. CASE AcquireReadRaises(r)
    BY <2>3, EndTyped, SnapshotTyped DEF AcquireReadRaises, TypeOK
  <2>4. CASE AcquireCas(r)
    <3>1. sent[r] \in Request
      BY DEF TypeOK
    <3>2. ref' \in Seq(Lock) /\ wire' \subseteq Request /\ faults' \in Nat
      BY <2>4, <3>1, CasTyped DEF AcquireCas
    <3>3. CASE End(r, "failed")
      BY <2>4, <3>2, <3>3, EndTyped DEF AcquireCas, TypeOK
    <3>4. CASE ~End(r, "failed")
      BY <2>4, <3>2, <3>4 DEF AcquireCas, AcquireAgain, TypeOK
    <3> QED BY <3>3, <3>4
  <2>5. CASE EnsureFresh(r)
    <3>1. CASE Go(r, "fresh") /\ UNCHANGED tries
      BY <2>5, <3>1 DEF EnsureFresh, TypeOK, github
    <3>2. CASE Go(r, "ren_read") /\ tries' = [tries EXCEPT ![r] = 1]
      BY <2>5, <3>2, BoundsAssumption DEF EnsureFresh, TypeOK, github
    <3> QED BY <2>5, <3>1, <3>2 DEF EnsureFresh
  <2>6. CASE RenewReadRaises(r)
    BY <2>6, SnapshotTyped, BoundsAssumption DEF RenewReadRaises, RenewEnds, TypeOK
  <2>7. CASE RenewCas(r)
    <3>1. sent[r] \in Request /\ sent[r].lock.exp \in Nat
      BY DEF TypeOK, Request, Lock
    <3>2. ref' \in Seq(Lock) /\ wire' \subseteq Request /\ faults' \in Nat
      BY <2>7, <3>1, CasTyped DEF RenewCas
    <3>3. CASE Again(r, "ren_read")
      BY <2>7, <3>2, <3>3, BoundsAssumption DEF RenewCas, Again, TypeOK
    <3>4. CASE \E a \in {"fresh", "stale"}, e \in Nat : RenewEnds(r, a, e)
      BY <2>7, <3>2, <3>4, BoundsAssumption DEF RenewCas, RenewEnds, TypeOK
    <3> QED BY <2>7, <3>1, <3>3, <3>4 DEF RenewCas, TypeOK
  <2>8. CASE UseAnswer(r)
    BY <2>8 DEF UseAnswer, TypeOK, github
  <2>9. CASE StartRelease(r)
    BY <2>9, BoundsAssumption DEF StartRelease, TypeOK, github
  <2>10. CASE ReleaseReadRaises(r)
    BY <2>10, EndTyped, SnapshotTyped DEF ReleaseReadRaises, TypeOK
  <2>11. CASE ReleaseCas(r)
    <3>1. sent[r] \in Request
      BY DEF TypeOK
    <3>2. ref' \in Seq(Lock) /\ wire' \subseteq Request /\ faults' \in Nat
      BY <2>11, <3>1, CasTyped DEF ReleaseCas
    <3>3. CASE Again(r, "rel_read")
      BY <2>11, <3>2, <3>3, BoundsAssumption DEF ReleaseCas, Again, TypeOK
    <3>4. CASE \E p \in Ended : End(r, p)
      BY <2>11, <3>2, <3>4, EndTyped DEF ReleaseCas, TypeOK
    <3> QED BY <2>11, <3>3, <3>4 DEF ReleaseCas
  <2>12. ASSUME NEW i \in Readable, AcquireRead(r, i) PROVE TypeOK'
    <3>1. ref[i].exp \in Nat /\ Update(r, i, LockOf(r)) \in Request
      BY ReadTyped
    <3>2. CASE Activate(r, ref[i].exp)
      BY <2>12, <3>1, <3>2 DEF AcquireRead, Activate, TypeOK, github
    <3>3. CASE sent' = [sent EXCEPT ![r] = Update(r, i, LockOf(r))]
      BY <2>12, <3>1, <3>2, <3>3 DEF AcquireRead, TypeOK, github
    <3> QED BY <2>12, <3>2, <3>3 DEF AcquireRead
  <2>13. ASSUME NEW i \in Readable, AcquireConfirm(r, i) PROVE TypeOK'
    <3>1. sent[r].lock.exp \in Nat
      BY DEF TypeOK, Request, Lock
    <3>2. CASE End(r, "failed")
      BY <2>13, <3>2, EndTyped DEF AcquireConfirm, TypeOK, github
    <3>3. CASE Activate(r, sent[r].lock.exp)
      BY <2>13, <3>1, <3>3 DEF AcquireConfirm, Activate, TypeOK, github
    <3>4. CASE AcquireAgain(r)
      BY <2>13, <3>4 DEF AcquireConfirm, AcquireAgain, TypeOK, github
    <3> QED BY <2>13, <3>2, <3>3, <3>4 DEF AcquireConfirm
  <2>14. ASSUME NEW i \in Readable, RenewRead(r, i) PROVE TypeOK'
    <3>1. Update(r, i, LockOf(r)) \in Request
      BY ReadTyped
    <3>2. CASE RenewEnds(r, "stale", ctxExp[r])
      BY <2>14, <3>2, BoundsAssumption DEF RenewRead, RenewEnds, TypeOK, github
    <3>3. CASE sent' = [sent EXCEPT ![r] = Update(r, i, LockOf(r))]
      BY <2>14, <3>1, <3>2, <3>3 DEF RenewRead, TypeOK, github
    <3> QED BY <2>14, <3>2, <3>3 DEF RenewRead
  <2>15. ASSUME NEW i \in Readable, ReleaseRead(r, i) PROVE TypeOK'
    <3>1. Update(r, i, Unlocked) \in Request
      BY ReadTyped
    <3>2. CASE End(r, "unreleased")
      BY <2>15, <3>2, EndTyped DEF ReleaseRead, TypeOK, github
    <3>3. CASE Again(r, "rel_read")
      BY <2>15, <3>3, BoundsAssumption DEF ReleaseRead, Again, TypeOK, github
    <3>4. CASE sent' = [sent EXCEPT ![r] = Update(r, i, Unlocked)] /\ UNCHANGED <<since, tries, ctxExp>>
      BY <2>15, <3>1, <3>2, <3>3, <3>4 DEF ReleaseRead, TypeOK, github
    <3> QED BY <2>15, <3>2, <3>3, <3>4 DEF ReleaseRead
  <2> QED
    BY <1>4, <2>1, <2>2, <2>3, <2>4, <2>5, <2>6, <2>7, <2>8, <2>9, <2>10, <2>11,
       <2>12, <2>13, <2>14, <2>15 DEF Step
<1>5. CASE UNCHANGED vars
  BY <1>5 DEF vars, TypeOK
<1> QED
  BY <1>1, <1>2, <1>3, <1>4, <1>5 DEF Next

\* Every state of every behaviour is well typed; in particular a renewal or a
\* release makes at most RetryLimit attempts.
THEOREM Typed == Spec => []TypeOK
BY InitTyped, NextTyped, PTL DEF Spec

-----------------------------------------------------------------------------
(* The inductive invariant, for the runs that do not take the step *)

LEMMA RefTyped == ASSUME TypeOK
                  PROVE  /\ Len(ref) \in Nat
                         /\ \A i \in 1..Len(ref) : ref[i] \in Lock
BY LenProperties, ElementOfSeq DEF TypeOK

\* Nothing a run's invariant mentions has changed.
LEMMA Bystander ==
  ASSUME NEW s \in Runs, RunInvariant(s), UNCHANGED <<now, ref>>,
         \A q \in wire' : q.run = s => q \in wire,
         phase'[s] = phase[s], sent'[s] = sent[s], ctxExp'[s] = ctxExp[s]
  PROVE  RunInvariant(s)'
<1>1. \A q : q.run = s /\ Sound(q) => Sound(q)'
  BY DEF Sound, Valid
<1>2. UpdatesSound(s)'
  BY <1>1 DEF RunInvariant, UpdatesSound
<1>3. OwnParent(s)' /\ NotBuried(s)'
  BY DEF RunInvariant, OwnParent, NotBuried
<1>4. Confirmable(s)' /\ NoComeback(s)' /\ Gone(s)'
  BY DEF RunInvariant, Confirmable, NoComeback, Gone, NoLateUpdate, CurrentLock
<1>5. Backed(s)'
  BY DEF RunInvariant, Backed, Trusting, CurrentLock
<1> QED BY <1>2, <1>3, <1>4, <1>5 DEF RunInvariant

\* Time makes valid locks invalid and nothing else.
LEMMA TimePasses ==
  ASSUME TypeOK, NEW s \in Runs, RunInvariant(s), Tick
  PROVE  RunInvariant(s)'
<1> USE DEF Tick, github
<1>1. ASSUME NEW q \in Request, Sound(q) PROVE Sound(q)'
  <2>1. ref[q.parent] \in Lock /\ q.lock \in Lock
    BY <1>1, RefTyped DEF Sound, Request
  <2>2. Valid(ref[q.parent])' => Valid(ref[q.parent])
    BY <2>1 DEF Valid, Lock, TypeOK
  <2>3. q.lock.exp <= now' + TTL
    BY <1>1, <2>1, TimesAssumption DEF Sound, TypeOK, Lock
  <2> QED BY <1>1, <2>2, <2>3 DEF Sound
<1>2. UpdatesSound(s)'
  BY <1>1 DEF RunInvariant, UpdatesSound, TypeOK
<1>3. OwnParent(s)'
  BY DEF RunInvariant, OwnParent
<1>4. NotBuried(s)'
  <2> SUFFICES ASSUME phase[s] \in Acquiring, NEW i \in 1..Len(ref),
                      ref[i].holder = s, i < Len(ref)
               PROVE  ref[i].exp <= now + 1
    BY DEF NotBuried
  <2>1. ref[i].exp \in Nat /\ now \in Nat
    BY RefTyped DEF TypeOK, Lock
  <2>2. ref[i].exp <= now
    BY DEF RunInvariant, NotBuried
  <2> QED BY <2>1, <2>2
<1>5. Confirmable(s)' /\ NoComeback(s)' /\ Gone(s)'
  BY DEF RunInvariant, Confirmable, NoComeback, Gone, NoLateUpdate, CurrentLock
<1>6. Backed(s)'
  BY DEF RunInvariant, Backed, Trusting, CurrentLock, TypeOK
<1> QED BY <1>2, <1>3, <1>4, <1>5, <1>6 DEF RunInvariant

\* A sound update stays sound when the ref grows.
LEMMA SoundGrows ==
  ASSUME TypeOK, NEW l \in Lock, ref' = Append(ref, l), now' = now,
         NEW q, q.parent \in 1..Len(ref), phase'[q.run] = phase[q.run], Sound(q)
  PROVE  Sound(q)' /\ q.parent < Len(ref')
<1>1. /\ Len(ref) \in Nat /\ Len(ref') = Len(ref) + 1
      /\ \A i \in 1..Len(ref) : ref'[i] = ref[i]
  BY Appended DEF TypeOK
<1>2. ref'[q.parent] = ref[q.parent] /\ q.parent \in 1..Len(ref')
  BY <1>1
<1> QED BY <1>1, <1>2 DEF Sound, Valid

\* Another run's update reaches the ref.
LEMMA Overtaken ==
  ASSUME TypeOK, NEW s \in Runs, RunInvariant(s),
         NEW u \in Request, u.run # s, Sound(u), u.parent = Len(ref),
         ref' = Append(ref, u.lock), now' = now, wire' \subseteq wire,
         phase'[s] = phase[s], sent'[s] = sent[s], ctxExp'[s] = ctxExp[s]
  PROVE  RunInvariant(s)'
<1>1. u.lock \in Lock /\ u.run \in Runs
  BY DEF Request
<1>2. /\ Len(ref) \in Nat /\ Len(ref') = Len(ref) + 1
      /\ \A i \in 1..Len(ref) : ref'[i] = ref[i] /\ ref[i] \in Lock
      /\ ref'[Len(ref')] = u.lock
  BY <1>1, Appended, RefTyped DEF TypeOK
<1>3. \A q : q.run = s /\ Sound(q) => Sound(q)' /\ q.parent < Len(ref')
  BY <1>1, SoundGrows DEF Sound
<1>4. Len(ref) > 0 /\ ref[Len(ref)] \in Lock
  BY <1>2 DEF Sound
<1>5. ref[Len(ref)].holder = s => ref[Len(ref)].exp <= now
  BY <1>4 DEF Sound, Valid, Lock, TypeOK
<1>6. UpdatesSound(s)' /\ NoLateUpdate(s)'
  BY <1>3 DEF RunInvariant, UpdatesSound, NoLateUpdate
<1>7. OwnParent(s)'
  BY <1>2 DEF RunInvariant, OwnParent, UpdatesSound, Sound, Sending
<1>8. NotBuried(s)'
  <2> SUFFICES ASSUME phase[s] \in Acquiring, NEW i \in 1..Len(ref),
                      ref[i].holder = s
               PROVE  ref[i].exp <= now
    BY <1>2 DEF NotBuried
  <2>1. CASE i = Len(ref)
    BY <2>1, <1>5
  <2>2. CASE i < Len(ref)
    BY <2>2 DEF RunInvariant, NotBuried
  <2> QED BY <1>2, <2>1, <2>2
<1>9. Confirmable(s)'
  BY <1>2, <1>6 DEF RunInvariant, Confirmable
<1>10. NoComeback(s)'
  BY <1>2, <1>6 DEF NoComeback
<1>11. Gone(s)'
  BY <1>2, <1>6, NoRunAssumption DEF Gone, CurrentLock, Sound, Unlocked
<1>12. Backed(s)'
  BY <1>2, <1>4, <1>5 DEF RunInvariant, Backed, Trusting, CurrentLock, TypeOK, Lock
<1> QED BY <1>6, <1>7, <1>8, <1>9, <1>10, <1>11, <1>12 DEF RunInvariant

\* The ref is created at a commit that is no lock.
LEMMA Bootstrapped ==
  ASSUME TypeOK, NEW s \in Runs, RunInvariant(s),
         ref = <<>>, ref' = Append(ref, Foreign), UNCHANGED <<now, wire>>,
         phase'[s] = phase[s], sent'[s] = sent[s], ctxExp'[s] = ctxExp[s]
  PROVE  RunInvariant(s)'
<1>1. Len(ref) = 0 /\ Len(ref') = 1
  BY AppendProperties, EmptySeq
<1>2. /\ \A q \in wire : q.run # s
      /\ phase[s] \notin Sending \union Holding \union {"acq_confirm", "released"}
  BY <1>1 DEF RunInvariant, UpdatesSound, Sound, Confirmable, NoComeback, Gone
<1>3. UpdatesSound(s)' /\ OwnParent(s)' /\ Confirmable(s)' /\ NoComeback(s)' /\ Gone(s)'
  BY <1>2 DEF UpdatesSound, OwnParent, Confirmable, NoComeback, Gone, Sending
<1>4. NotBuried(s)' /\ Backed(s)'
  BY <1>1, <1>2 DEF NotBuried, Backed, Trusting
<1> QED BY <1>3, <1>4 DEF RunInvariant

-----------------------------------------------------------------------------
(* The inductive invariant, for the run that takes the step *)

\* A run whose use of the lock is over, or that is about to release, only
\* matters by the updates it has left behind.
LEMMA Inactive ==
  ASSUME NEW r \in Runs,
         phase'[r] \in {"failed", "crashed", "unreleased", "rel_read"},
         \A q \in wire' : q.run = r => Sound(q)'
  PROVE  RunInvariant(r)'
BY DEF RunInvariant, UpdatesSound, OwnParent, NotBuried, Confirmable, NoComeback, Gone,
       Backed, Trusting, Sending, Acquiring, Holding

\* The updates a run has left behind stay sound while it goes on: waiting, then
\* holding, then releasing.
LEMMA LeftBehind ==
  ASSUME NEW r \in Runs, RunInvariant(r), UNCHANGED <<now, ref, wire>>,
         phase'[r] \in Acquiring => phase[r] \in Acquiring,
         phase'[r] \in Acquiring \union Holding => phase[r] \in Acquiring \union Holding
  PROVE  \A q \in wire' : q.run = r => Sound(q)'
BY DEF RunInvariant, UpdatesSound, Sound, Valid

\* The same when the update in hand gets lost.
LEMMA LostSound ==
  ASSUME NEW r \in Runs, RunInvariant(r), phase[r] \in Sending, CasLost(sent[r]), now' = now,
         phase'[r] \in Acquiring => phase[r] \in Acquiring,
         phase'[r] \in Acquiring \union Holding => phase[r] \in Acquiring \union Holding
  PROVE  \A q \in wire' : q.run = r => Sound(q)'
BY DEF RunInvariant, UpdatesSound, Sound, Valid, CasLost

\* A new lock of a run that has just read commit i is a sound update.
LEMMA BuiltSound ==
  ASSUME TypeOK, LeasesBounded, NEW r \in Runs, NEW i \in Readable, UNCHANGED <<now, ref>>,
         \/ phase'[r] \in Acquiring /\ ~Valid(ref[i])
         \/ phase'[r] \in Holding /\ ref[i].holder = r
  PROVE  Sound(Update(r, i, LockOf(r)))'
<1>1. i \in 1..Len(ref) /\ ref[i].exp <= now + TTL
  BY ReadTyped DEF LeasesBounded
<1>2. now \in Nat /\ TTL \in Nat
  BY TimesAssumption DEF TypeOK
<1> QED
  BY <1>1, <1>2 DEF Sound, Update, LockOf, Valid, Acquiring, Holding

\* A run goes on waiting.
LEMMA Waiting ==
  ASSUME NEW r \in Runs, RunInvariant(r), UNCHANGED <<now, ref>>,
         phase[r] \in Acquiring, phase'[r] = "acq_read",
         \A q \in wire' : q.run = r => Sound(q)'
  PROVE  RunInvariant(r)'
BY DEF RunInvariant, UpdatesSound, OwnParent, NotBuried, Confirmable, NoComeback, Gone,
       Backed, Trusting, Sending, Acquiring, Holding

\* A run goes on holding its lease, with no update in hand.
LEMMA Keeping ==
  ASSUME NEW r \in Runs, RunInvariant(r), UNCHANGED <<now, ref>>,
         phase[r] \in Holding, phase'[r] \in {"held", "fresh", "stale", "ren_read"},
         ctxExp'[r] = ctxExp[r],
         \A q \in wire' : q.run = r => Sound(q)',
         NoLateUpdate(r)' \/ CurrentLock.holder = r
  PROVE  RunInvariant(r)'
BY DEF RunInvariant, UpdatesSound, OwnParent, NotBuried, Confirmable, NoComeback, Gone,
       Backed, Trusting, CurrentLock, Sending, Acquiring, Holding

LEMMA SnapshotCases ==
  ASSUME TypeOK, NEW r \in Runs, RunInvariant(r), SnapshotRaises, now' = now,
         phase'[r] \in {"failed", "unreleased"}
  PROVE  \A q \in wire' : q.run = r => Sound(q)'
<1>1. CASE ref' = ref
  BY <1>1 DEF SnapshotRaises, RunInvariant, UpdatesSound, Sound, Valid, Acquiring, Holding
<1>2. CASE ref = <<>>
  <2>1. \A q \in wire : q.run # r
    BY <1>2, EmptySeq DEF RunInvariant, UpdatesSound, Sound
  <2> QED BY <2>1 DEF SnapshotRaises
<1> QED BY <1>1, <1>2 DEF SnapshotRaises

\* acquire_state_issue_lease_lock
LEMMA AcquireOwn ==
  ASSUME TypeOK, LeasesBounded, NEW r \in Runs, RunInvariant(r),
         \/ StartAcquire(r) \/ AcquireTimesOut(r) \/ AcquireReadRaises(r) \/ AcquireCas(r)
         \/ \E i \in Readable : AcquireRead(r, i) \/ AcquireConfirm(r, i)
  PROVE  RunInvariant(r)'
<1> USE DEF Go, github
<1>1. CASE StartAcquire(r)
  <2>1. phase[r] = "start" /\ phase'[r] = "acq_read"
    BY <1>1 DEF StartAcquire, TypeOK
  <2> QED BY <1>1, <2>1, LeftBehind, Waiting DEF StartAcquire, Acquiring, Holding
<1>2. CASE AcquireTimesOut(r)
  <2>1. phase[r] = "acq_read" /\ phase'[r] = "failed"
    BY <1>2 DEF AcquireTimesOut, End, TypeOK
  <2> QED BY <1>2, <2>1, LeftBehind, Inactive DEF AcquireTimesOut, Acquiring, Holding
<1>3. CASE AcquireReadRaises(r)
  <2>1. phase'[r] = "failed"
    BY <1>3 DEF AcquireReadRaises, End, TypeOK
  <2> QED BY <1>3, <2>1, SnapshotCases, Inactive DEF AcquireReadRaises
<1>4. CASE AcquireCas(r)
  <2>1. phase[r] = "acq_cas" /\ phase[r] \in Sending /\ phase[r] \in Acquiring
    BY <1>4 DEF AcquireCas, Sending, Acquiring
  <2>2. CASE AcquireAgain(r)
    <3>1. phase'[r] = "acq_read"
      BY <2>2 DEF AcquireAgain, TypeOK
    <3>2. CASE CasRefused(sent[r])
      BY <1>4, <2>1, <3>1, <3>2, LeftBehind, Waiting DEF AcquireCas, CasRefused, Acquiring, Holding
    <3>3. CASE CasLost(sent[r])
      BY <1>4, <2>1, <3>1, <3>3, LostSound, Waiting DEF AcquireCas, CasLost, Acquiring, Holding
    <3>4. phase' # [phase EXCEPT ![r] = "acq_confirm"]
      BY <3>1 DEF TypeOK
    <3> QED BY <1>4, <3>1, <3>2, <3>3, <3>4 DEF AcquireCas
  <2>3. CASE CasLost(sent[r]) /\ End(r, "failed")
    <3>1. phase'[r] = "failed"
      BY <2>3 DEF End, TypeOK
    <3> QED BY <1>4, <2>1, <2>3, <3>1, LostSound, Inactive DEF AcquireCas, Acquiring, Holding
  <2>4. CASE CasAccepted(sent[r]) /\ Go(r, "acq_confirm") /\ UNCHANGED <<since, sent, tries, ctxExp>>
    <3>1. /\ Sound(sent[r]) /\ sent[r].run = r /\ sent[r].lock.holder = r
          /\ sent[r].lock \in Lock /\ ~Valid(ref[Len(ref)])
      BY <2>1, <2>4 DEF RunInvariant, UpdatesSound, Sound, CasAccepted, FastForward, TypeOK, Request
    <3>2. /\ Len(ref) \in Nat /\ Len(ref') = Len(ref) + 1
          /\ \A i \in 1..Len(ref) : ref'[i] = ref[i] /\ ref[i] \in Lock
          /\ ref'[Len(ref')] = sent[r].lock
      BY <2>4, <3>1, Appended, RefTyped DEF TypeOK, CasAccepted
    <3>3. phase'[r] = "acq_confirm" /\ now' = now
      BY <1>4, <2>4 DEF TypeOK, AcquireCas
    <3>4. \A q \in wire : q.run = r => q.parent \in 1..Len(ref) /\ q.parent < Len(ref') /\ Sound(q)'
      BY <2>1, <3>2, <3>3 DEF RunInvariant, UpdatesSound, Sound, Valid, Acquiring
    <3>5. NotBuried(r)'
      <4> SUFFICES ASSUME NEW i \in 1..Len(ref), ref[i].holder = r PROVE ref[i].exp <= now
        BY <3>2, <3>3 DEF NotBuried
      <4>1. CASE i = Len(ref)
        BY <4>1, <3>1, <3>2 DEF Valid, TypeOK, Lock
      <4>2. CASE i < Len(ref)
        BY <4>2, <2>1 DEF RunInvariant, NotBuried
      <4> QED BY <3>2, <4>1, <4>2
    <3>6. Confirmable(r)'
      BY <2>4, <3>1, <3>2, <3>4 DEF Confirmable, NoLateUpdate, CasAccepted
    <3>7. UpdatesSound(r)'
      BY <2>4, <3>3, <3>4 DEF UpdatesSound, CasAccepted, Sending
    <3> QED BY <3>3, <3>5, <3>6, <3>7
            DEF RunInvariant, OwnParent, NoComeback, Gone, Backed, Trusting, Holding
  <2> QED BY <1>4, <2>2, <2>3, <2>4 DEF AcquireCas
<1>5. ASSUME NEW i \in Readable, AcquireRead(r, i) PROVE RunInvariant(r)'
  <2>1. phase[r] = "acq_read" /\ phase[r] \in Acquiring
    BY <1>5 DEF AcquireRead, Acquiring
  <2>2. i \in 1..Len(ref) /\ ref[i] \in Lock /\ Len(ref) \in Nat
    BY ReadTyped
  <2>3. CASE Valid(ref[i]) /\ ref[i].holder = r /\ Activate(r, ref[i].exp)
    <3>1. phase'[r] = "held" /\ ctxExp'[r] = ref[i].exp
      BY <2>3 DEF Activate, TypeOK
    <3>2. \A q \in wire' : q.run = r => Sound(q)'
      BY <1>5, <2>1, <3>1, LeftBehind DEF AcquireRead, Acquiring, Holding
    <3>3. i = Len(ref)
      <4>1. ref[i].exp \in Nat /\ now \in Nat /\ ref[i].exp > now
        BY <2>2, <2>3 DEF Valid, TypeOK, Lock
      <4>2. i < Len(ref) => ref[i].exp <= now
        BY <2>1, <2>2, <2>3 DEF RunInvariant, NotBuried
      <4> QED BY <2>2, <4>1, <4>2
    <3>4. CurrentLock = ref[i] /\ CurrentLock' = ref[i] /\ Len(ref') > 0
      BY <1>5, <2>2, <3>3 DEF AcquireRead, CurrentLock
    <3>5. ref[i].exp \in Nat
      BY <2>2 DEF Lock
    <3> QED
      BY <2>3, <3>1, <3>2, <3>4, <3>5
         DEF RunInvariant, UpdatesSound, OwnParent, NotBuried, Confirmable, NoComeback, Gone,
             Backed, Trusting, Sending, Acquiring, Holding
  <2>4. CASE ~Valid(ref[i]) /\ Go(r, "acq_cas") /\ sent' = [sent EXCEPT ![r] = Update(r, i, LockOf(r))]
    <3>1. phase'[r] = "acq_cas" /\ sent'[r] = Update(r, i, LockOf(r))
      BY <2>4 DEF TypeOK
    <3>2. \A q \in wire' : q.run = r => Sound(q)'
      BY <1>5, <2>1, <3>1, LeftBehind DEF AcquireRead, Acquiring, Holding
    <3>3. Sound(Update(r, i, LockOf(r)))'
      BY <1>5, <2>4, <3>1, BuiltSound DEF AcquireRead, Acquiring
    <3>4. LockOf(r)' = LockOf(r)
      BY <1>5 DEF AcquireRead, LockOf
    <3>5. UpdatesSound(r)'
      BY <3>1, <3>2, <3>3, <3>4 DEF UpdatesSound, Update
    <3>6. NotBuried(r)'
      BY <1>5, <2>1 DEF RunInvariant, NotBuried, AcquireRead
    <3> QED BY <3>1, <3>5, <3>6
            DEF RunInvariant, OwnParent, Confirmable, NoComeback, Gone, Backed, Trusting, Holding
  <2> QED BY <1>5, <2>3, <2>4 DEF AcquireRead
<1>6. ASSUME NEW i \in Readable, AcquireConfirm(r, i) PROVE RunInvariant(r)'
  <2>1. phase[r] = "acq_confirm" /\ phase[r] \in Acquiring
    BY <1>6 DEF AcquireConfirm, Acquiring
  <2>2. CASE Activate(r, sent[r].lock.exp)
    <3>1. phase'[r] = "held" /\ ctxExp'[r] = sent[r].lock.exp
      BY <2>2 DEF Activate, TypeOK
    <3>2. \A q \in wire' : q.run = r => Sound(q)'
      BY <1>6, <2>1, <3>1, LeftBehind DEF AcquireConfirm, Acquiring, Holding
    <3>3. PICK k \in 1..Len(ref) : ref[k] = sent[r].lock
      BY <2>1 DEF RunInvariant, Confirmable
    <3>4. sent[r].lock.holder = r /\ NoLateUpdate(r) /\ Len(ref) \in Nat
          /\ sent[r].lock.exp \in Nat /\ now \in Nat
      BY <2>1, RefTyped DEF RunInvariant, Confirmable, TypeOK, Request, Lock
    <3>5. sent[r].lock.exp > now => k = Len(ref)
      BY <2>1, <3>3, <3>4 DEF RunInvariant, NotBuried
    <3>6. UNCHANGED <<now, ref, wire>>
      BY <1>6 DEF AcquireConfirm
    <3>7. Backed(r)'
      BY <3>1, <3>3, <3>4, <3>5, <3>6 DEF Backed, Trusting, CurrentLock
    <3>8. NoComeback(r)'
      BY <3>3, <3>4, <3>6 DEF NoComeback, NoLateUpdate
    <3> QED BY <3>1, <3>2, <3>7, <3>8
            DEF RunInvariant, UpdatesSound, OwnParent, NotBuried, Confirmable, Gone, Sending, Acquiring
  <2>3. CASE AcquireAgain(r)
    <3>1. phase'[r] = "acq_read"
      BY <2>3 DEF AcquireAgain, TypeOK
    <3> QED BY <1>6, <2>1, <3>1, LeftBehind, Waiting DEF AcquireConfirm, Acquiring, Holding
  <2>4. CASE End(r, "failed")
    <3>1. phase'[r] = "failed"
      BY <2>4 DEF End, TypeOK
    <3> QED BY <1>6, <2>1, <3>1, LeftBehind, Inactive DEF AcquireConfirm, Acquiring, Holding
  <2> QED BY <1>6, <2>2, <2>3, <2>4 DEF AcquireConfirm
<1> QED BY <1>1, <1>2, <1>3, <1>4, <1>5, <1>6

\* ensure_state_issue_lease_lock_fresh and renew_state_issue_lease_lock
LEMMA RenewOwn ==
  ASSUME TypeOK, LeasesBounded, NEW r \in Runs, RunInvariant(r),
         \/ EnsureFresh(r) \/ RenewReadRaises(r) \/ RenewCas(r) \/ UseAnswer(r)
         \/ \E i \in Readable : RenewRead(r, i)
  PROVE  RunInvariant(r)'
<1> USE DEF Go, github
<1>1. CASE EnsureFresh(r) \/ UseAnswer(r)
  <2>1. /\ phase[r] \in Holding /\ phase'[r] \in {"held", "fresh", "ren_read"}
        /\ UNCHANGED <<now, ref, wire, ctxExp>>
    BY <1>1 DEF EnsureFresh, UseAnswer, TypeOK, Holding
  <2>2. \A q \in wire' : q.run = r => Sound(q)'
    BY <2>1, LeftBehind DEF Acquiring, Holding
  <2>3. NoLateUpdate(r)' \/ CurrentLock.holder = r
    BY <2>1 DEF RunInvariant, NoComeback, NoLateUpdate
  <2> QED BY <2>1, <2>2, <2>3, Keeping
<1>2. CASE RenewReadRaises(r)
  <2>1. /\ phase[r] \in Holding /\ phase'[r] = "stale" /\ ctxExp'[r] = ctxExp[r] /\ now' = now
    BY <1>2 DEF RenewReadRaises, RenewEnds, TypeOK, Holding
  <2>2. UNCHANGED <<ref, wire>>
    BY <1>2, <2>1, EmptySeq DEF RunInvariant, NoComeback, RenewReadRaises, SnapshotRaises
  <2>3. \A q \in wire' : q.run = r => Sound(q)'
    BY <2>1, <2>2, LeftBehind DEF Acquiring, Holding
  <2>4. NoLateUpdate(r)' \/ CurrentLock.holder = r
    BY <2>1, <2>2 DEF RunInvariant, NoComeback, NoLateUpdate
  <2> QED BY <2>1, <2>2, <2>3, <2>4, Keeping
<1>3. CASE RenewCas(r)
  <2>1. phase[r] = "ren_cas" /\ phase[r] \in Sending /\ phase[r] \in Holding /\ now' = now
    BY <1>3 DEF RenewCas, Sending, Holding
  <2>2. ASSUME Again(r, "ren_read") \/ RenewEnds(r, "stale", ctxExp[r])
        PROVE  phase'[r] \in {"ren_read", "stale"} /\ ctxExp'[r] = ctxExp[r]
    BY <2>2 DEF Again, RenewEnds, TypeOK
  <2>3. /\ Sound(sent[r]) /\ sent[r].run = r /\ sent[r].lock.holder = r
        /\ sent[r] \in Request /\ ref[sent[r].parent].holder = r
    BY <2>1 DEF RunInvariant, UpdatesSound, OwnParent, Sound, TypeOK
  <2>4. CASE CasRefused(sent[r]) /\ (Again(r, "ren_read") \/ RenewEnds(r, "stale", ctxExp[r]))
    <3>1. \A q \in wire' : q.run = r => Sound(q)'
      BY <2>1, <2>2, <2>4, LeftBehind DEF CasRefused, Acquiring, Holding
    <3>2. NoLateUpdate(r)' \/ CurrentLock.holder = r
      BY <2>1, <2>4 DEF RunInvariant, NoComeback, NoLateUpdate, CasRefused
    <3> QED BY <2>1, <2>2, <2>4, <3>1, <3>2, Keeping DEF CasRefused
  <2>5. CASE CasLost(sent[r]) /\ (Again(r, "ren_read") \/ RenewEnds(r, "stale", ctxExp[r]))
    <3>1. \A q \in wire' : q.run = r => Sound(q)'
      BY <2>1, <2>2, <2>5, LostSound DEF Acquiring, Holding
    <3>2. NoLateUpdate(r)' \/ CurrentLock.holder = r
      <4>1. CASE sent[r].parent = Len(ref)
        BY <4>1, <2>3 DEF CurrentLock
      <4>2. CASE sent[r].parent # Len(ref)
        <5>1. sent[r].parent < Len(ref) /\ wire' = wire \union {sent[r]} /\ ref' = ref
          BY <4>2, <2>3, <2>5, RefTyped DEF Sound, CasLost
        <5> QED BY <2>1, <5>1 DEF RunInvariant, NoComeback, NoLateUpdate
      <4> QED BY <4>1, <4>2
    <3> QED BY <2>1, <2>2, <2>5, <3>1, <3>2, Keeping DEF CasLost
  <2>6. CASE CasAccepted(sent[r]) /\ RenewEnds(r, "fresh", sent[r].lock.exp)
    <3>1. phase'[r] = "fresh" /\ ctxExp'[r] = sent[r].lock.exp
      BY <2>6 DEF RenewEnds, TypeOK
    <3>2. /\ Len(ref) \in Nat /\ Len(ref') = Len(ref) + 1
          /\ \A i \in 1..Len(ref) : ref'[i] = ref[i]
          /\ ref'[Len(ref')] = sent[r].lock /\ sent[r].lock.exp \in Nat
      BY <2>3, <2>6, Appended DEF TypeOK, CasAccepted, Request, Lock
    <3>3. \A q \in wire' : q.run = r => Sound(q)' /\ q.parent < Len(ref')
      BY <2>1, <2>6, <3>1, <3>2
         DEF RunInvariant, UpdatesSound, Sound, Valid, CasAccepted, Acquiring, Holding
    <3>4. Backed(r)'
      BY <3>1, <3>2, <2>3 DEF Backed, CurrentLock
    <3> QED BY <3>1, <3>2, <3>3, <3>4
            DEF RunInvariant, UpdatesSound, OwnParent, NotBuried, Confirmable, NoComeback,
                NoLateUpdate, Gone, Sending, Acquiring
  <2> QED BY <1>3, <2>4, <2>5, <2>6 DEF RenewCas
<1>4. ASSUME NEW i \in Readable, RenewRead(r, i) PROVE RunInvariant(r)'
  <2>1. phase[r] = "ren_read" /\ phase[r] \in Holding /\ UNCHANGED <<now, ref, wire>>
    BY <1>4 DEF RenewRead, Holding
  <2>2. CASE RenewEnds(r, "stale", ctxExp[r])
    <3>1. phase'[r] = "stale" /\ ctxExp'[r] = ctxExp[r]
      BY <2>2 DEF RenewEnds, TypeOK
    <3>2. \A q \in wire' : q.run = r => Sound(q)'
      BY <2>1, <3>1, LeftBehind DEF Acquiring, Holding
    <3>3. NoLateUpdate(r)' \/ CurrentLock.holder = r
      BY <2>1 DEF RunInvariant, NoComeback, NoLateUpdate
    <3> QED BY <2>1, <3>1, <3>2, <3>3, Keeping
  <2>3. CASE /\ ref[i].holder = r /\ Go(r, "ren_cas")
             /\ sent' = [sent EXCEPT ![r] = Update(r, i, LockOf(r))]
             /\ UNCHANGED <<since, tries, ctxExp>>
    <3>1. phase'[r] = "ren_cas" /\ sent'[r] = Update(r, i, LockOf(r)) /\ ctxExp' = ctxExp
      BY <2>3 DEF TypeOK
    <3>2. \A q \in wire' : q.run = r => Sound(q)'
      BY <2>1, <3>1, LeftBehind DEF Acquiring, Holding
    <3>3. Sound(Update(r, i, LockOf(r)))' /\ LockOf(r)' = LockOf(r)
      BY <2>1, <2>3, <3>1, BuiltSound DEF LockOf, Holding
    <3>4. UpdatesSound(r)' /\ OwnParent(r)'
      BY <2>1, <2>3, <3>1, <3>2, <3>3 DEF UpdatesSound, OwnParent, Update
    <3>5. NoComeback(r)' /\ Backed(r)'
      BY <2>1, <3>1 DEF RunInvariant, NoComeback, NoLateUpdate, Backed, Trusting, CurrentLock, Holding
    <3> QED BY <3>1, <3>4, <3>5 DEF RunInvariant, NotBuried, Confirmable, Gone, Acquiring
  <2> QED BY <1>4, <2>2, <2>3 DEF RenewRead
<1> QED BY <1>1, <1>2, <1>3, <1>4

\* release_state_issue_lease_lock, and the death of a run
LEMMA ReleaseOwn ==
  ASSUME TypeOK, NEW r \in Runs, RunInvariant(r),
         \/ StartRelease(r) \/ ReleaseReadRaises(r) \/ ReleaseCas(r) \/ Crash(r)
         \/ \E i \in Readable : ReleaseRead(r, i)
  PROVE  RunInvariant(r)'
<1> USE DEF Go, github
<1>1. CASE StartRelease(r) \/ Crash(r)
  <2>1. /\ phase'[r] \in {"crashed", "rel_read"}
        /\ UNCHANGED <<now, ref, wire>>
    BY <1>1 DEF StartRelease, Crash, End, TypeOK
  <2> QED BY <2>1, LeftBehind, Inactive DEF Acquiring, Holding
<1>2. CASE ReleaseReadRaises(r)
  <2>1. phase'[r] = "unreleased"
    BY <1>2 DEF ReleaseReadRaises, End, TypeOK
  <2> QED BY <1>2, <2>1, SnapshotCases, Inactive DEF ReleaseReadRaises
<1>3. CASE ReleaseCas(r)
  <2>1. phase[r] = "rel_cas" /\ phase[r] \in Sending /\ now' = now
    BY <1>3 DEF ReleaseCas, Sending
  <2>2. CASE CasAccepted(sent[r]) /\ End(r, "released")
    <3>1. phase'[r] = "released"
      BY <2>2 DEF End, TypeOK
    <3>2. sent[r].lock = Unlocked /\ sent[r].lock \in Lock
      BY <2>1 DEF RunInvariant, OwnParent, TypeOK, Request
    <3>3. /\ Len(ref) \in Nat /\ Len(ref') = Len(ref) + 1
          /\ \A i \in 1..Len(ref) : ref'[i] = ref[i]
          /\ ref'[Len(ref')] = Unlocked
      BY <2>2, <3>2, Appended DEF TypeOK, CasAccepted
    <3>4. \A q \in wire' : q.run = r => Sound(q)' /\ q.parent < Len(ref')
      BY <2>1, <2>2, <3>1, <3>3
         DEF RunInvariant, UpdatesSound, Sound, Valid, CasAccepted, Acquiring, Holding
    <3>5. Gone(r)'
      BY <3>3, <3>4, NoRunAssumption DEF Gone, CurrentLock, NoLateUpdate, Unlocked
    <3> QED BY <3>1, <3>4, <3>5
            DEF RunInvariant, UpdatesSound, OwnParent, NotBuried, Confirmable, NoComeback,
                Backed, Trusting, Sending, Acquiring, Holding
  <2>3. CASE ~(CasAccepted(sent[r]) /\ End(r, "released"))
    <3>1. phase'[r] \in {"rel_read", "unreleased"}
      BY <1>3, <2>3 DEF ReleaseCas, Again, End, TypeOK
    <3>2. \A q \in wire' : q.run = r => Sound(q)'
      BY <1>3, <2>1, <2>3, <3>1, LeftBehind, LostSound
         DEF ReleaseCas, CasRefused, Acquiring, Holding
    <3> QED BY <3>1, <3>2, Inactive
  <2> QED BY <2>2, <2>3
<1>4. ASSUME NEW i \in Readable, ReleaseRead(r, i) PROVE RunInvariant(r)'
  <2>1. phase[r] = "rel_read" /\ UNCHANGED <<now, ref, wire>>
    BY <1>4 DEF ReleaseRead
  <2>2. CASE Again(r, "rel_read") \/ End(r, "unreleased")
    <3>1. phase'[r] \in {"rel_read", "unreleased"}
      BY <2>2 DEF Again, End, TypeOK
    <3> QED BY <2>1, <3>1, LeftBehind, Inactive DEF Acquiring, Holding
  <2>3. CASE /\ ref[i].holder = r /\ Go(r, "rel_cas")
             /\ sent' = [sent EXCEPT ![r] = Update(r, i, Unlocked)]
    <3>1. phase'[r] = "rel_cas" /\ sent'[r] = Update(r, i, Unlocked)
      BY <2>3 DEF TypeOK
    <3>2. \A q \in wire' : q.run = r => Sound(q)'
      BY <2>1, <3>1, LeftBehind DEF Acquiring, Holding
    <3>3. i \in 1..Len(ref) /\ now \in Nat /\ TTL \in Nat
      BY ReadTyped, TimesAssumption DEF TypeOK
    <3>4. Sound(Update(r, i, Unlocked))'
      BY <2>1, <2>3, <3>1, <3>3 DEF Sound, Update, Unlocked, Acquiring, Holding
    <3>5. UpdatesSound(r)' /\ OwnParent(r)'
      BY <2>1, <2>3, <3>1, <3>2, <3>4 DEF UpdatesSound, OwnParent, Update, Unlocked
    <3> QED BY <3>1, <3>5 DEF RunInvariant, NotBuried, Confirmable, NoComeback, Gone,
                              Backed, Trusting, Acquiring, Holding
  <2> QED BY <1>4, <2>2, <2>3 DEF ReleaseRead
<1> QED BY <1>1, <1>2, <1>3, <1>4

-----------------------------------------------------------------------------
(* Steps of the whole system *)

LEMMA Frame ==
  ASSUME TypeOK, NEW r \in Runs, Step(r) \/ Crash(r), NEW s \in Runs, s # r
  PROVE  phase'[s] = phase[s] /\ sent'[s] = sent[s] /\ ctxExp'[s] = ctxExp[s] /\ now' = now
<1> USE DEF Go, End, github
<1>1. CASE StartAcquire(r) \/ AcquireTimesOut(r) \/ AcquireReadRaises(r) \/ AcquireCas(r)
  BY <1>1 DEF StartAcquire, AcquireTimesOut, AcquireReadRaises, AcquireCas, AcquireAgain, TypeOK
<1>2. CASE EnsureFresh(r) \/ RenewReadRaises(r) \/ RenewCas(r) \/ UseAnswer(r)
  BY <1>2 DEF EnsureFresh, RenewReadRaises, RenewCas, UseAnswer, RenewEnds, Again, TypeOK
<1>3. CASE StartRelease(r) \/ ReleaseReadRaises(r) \/ ReleaseCas(r) \/ Crash(r)
  BY <1>3 DEF StartRelease, ReleaseReadRaises, ReleaseCas, Crash, Again, TypeOK
<1>4. ASSUME NEW i \in Readable,
             \/ AcquireRead(r, i) \/ AcquireConfirm(r, i)
             \/ RenewRead(r, i) \/ ReleaseRead(r, i)
      PROVE  phase'[s] = phase[s] /\ sent'[s] = sent[s] /\ ctxExp'[s] = ctxExp[s] /\ now' = now
  BY <1>4 DEF AcquireRead, AcquireConfirm, RenewRead, ReleaseRead, Activate, AcquireAgain,
              RenewEnds, Again, TypeOK
<1> QED BY <1>1, <1>2, <1>3, <1>4 DEF Step

\* What one step of a run can do to the ref and to the lost updates.
RefUntouched(r) == ref' = ref /\ (wire' = wire \/ wire' = wire \union {sent[r]})
RefCreated      == ref = <<>> /\ ref' = Append(ref, Foreign) /\ wire' = wire
RefMoved(r)     == phase[r] \in Sending /\ CasAccepted(sent[r])

LEMMA RefCases ==
  ASSUME NEW r \in Runs, Step(r) \/ Crash(r)
  PROVE  RefUntouched(r) \/ RefCreated \/ RefMoved(r)
<1> USE DEF github, RefUntouched, RefCreated, RefMoved, Sending
<1>1. CASE StartAcquire(r) \/ AcquireTimesOut(r) \/ EnsureFresh(r) \/ UseAnswer(r) \/ StartRelease(r) \/ Crash(r)
  BY <1>1 DEF StartAcquire, AcquireTimesOut, EnsureFresh, UseAnswer, StartRelease, Crash
<1>2. CASE AcquireReadRaises(r) \/ RenewReadRaises(r) \/ ReleaseReadRaises(r)
  BY <1>2 DEF AcquireReadRaises, RenewReadRaises, ReleaseReadRaises, SnapshotRaises
<1>3. CASE AcquireCas(r) \/ RenewCas(r) \/ ReleaseCas(r)
  BY <1>3 DEF AcquireCas, RenewCas, ReleaseCas, CasRefused, CasLost
<1>4. CASE \E i \in Readable : \/ AcquireRead(r, i) \/ AcquireConfirm(r, i)
                               \/ RenewRead(r, i) \/ ReleaseRead(r, i)
  BY <1>4 DEF AcquireRead, AcquireConfirm, RenewRead, ReleaseRead
<1> QED BY <1>1, <1>2, <1>3, <1>4 DEF Step

LEMMA OthersKeep ==
  ASSUME TypeOK, NEW r \in Runs, Step(r) \/ Crash(r), RunInvariant(r),
         NEW s \in Runs, s # r, RunInvariant(s)
  PROVE  RunInvariant(s)'
<1>1. phase'[s] = phase[s] /\ sent'[s] = sent[s] /\ ctxExp'[s] = ctxExp[s] /\ now' = now
  BY Frame
<1>2. phase[r] \in Sending => sent[r].run = r /\ Sound(sent[r]) /\ sent[r] \in Request
  BY DEF RunInvariant, UpdatesSound, TypeOK
<1>3. CASE RefUntouched(r) /\ wire' = wire
  BY <1>1, <1>3, Bystander DEF RefUntouched
<1>4. CASE RefUntouched(r) /\ wire' # wire
  <2>1. phase[r] \in Sending /\ wire' = wire \union {sent[r]}
    BY <1>4 DEF RefUntouched, Step, StartAcquire, AcquireTimesOut, AcquireReadRaises, AcquireCas,
                EnsureFresh, RenewReadRaises, RenewCas, UseAnswer, StartRelease, ReleaseReadRaises,
                ReleaseCas, AcquireRead, AcquireConfirm, RenewRead, ReleaseRead, Crash,
                SnapshotRaises, github, Sending
  <2> QED BY <1>1, <1>2, <1>4, <2>1, Bystander DEF RefUntouched
<1>5. CASE RefCreated
  BY <1>1, <1>5, Bootstrapped DEF RefCreated
<1>6. CASE RefMoved(r)
  <2>1. sent[r].parent = Len(ref) /\ ref' = Append(ref, sent[r].lock) /\ wire' = wire
    BY <1>6 DEF RefMoved, CasAccepted, FastForward
  <2> QED BY <1>1, <1>2, <1>6, <2>1, Overtaken DEF RefMoved
<1> QED BY <1>3, <1>4, <1>5, <1>6, RefCases

\* A lost update of the run itself reaches the ref.
LEMMA LateOwn ==
  ASSUME TypeOK, NEW u \in wire, LateUpdate(u), RunInvariant(u.run)
  PROVE  RunInvariant(u.run)'
<1> DEFINE r == u.run
<1>1. /\ u \in Request /\ r \in Runs /\ u.lock \in Lock /\ Sound(u)
      /\ u.parent = Len(ref) /\ ref' = Append(ref, u.lock) /\ wire' = wire \ {u}
      /\ UNCHANGED <<now, phase, sent, ctxExp>>
  BY DEF LateUpdate, FastForward, TypeOK, Request, RunInvariant, UpdatesSound
<1>2. /\ Len(ref) \in Nat /\ Len(ref') = Len(ref) + 1
      /\ \A i \in 1..Len(ref) : ref'[i] = ref[i] /\ ref[i] \in Lock
      /\ ref'[Len(ref')] = u.lock
  BY <1>1, Appended, RefTyped DEF TypeOK
<1>3. \A q : q.run = r /\ Sound(q) => Sound(q)' /\ q.parent < Len(ref')
  BY <1>1, SoundGrows DEF Sound
<1>4. UpdatesSound(r)' /\ NoLateUpdate(r)'
  BY <1>1, <1>3 DEF RunInvariant, UpdatesSound, NoLateUpdate
<1>5. OwnParent(r)'
  BY <1>1, <1>2 DEF RunInvariant, OwnParent, UpdatesSound, Sound, Sending
<1>6. NotBuried(r)'
  <2> SUFFICES ASSUME phase[r] \in Acquiring, NEW i \in 1..Len(ref), ref[i].holder = r
               PROVE  ref[i].exp <= now
    BY <1>1, <1>2 DEF NotBuried
  <2>1. CASE i = Len(ref)
    BY <2>1, <1>1, <1>2 DEF Sound, Valid, TypeOK, Lock
  <2>2. CASE i < Len(ref)
    BY <2>2 DEF RunInvariant, NotBuried
  <2> QED BY <1>2, <2>1, <2>2
<1>7. Confirmable(r)'
  BY <1>1, <1>2, <1>4 DEF RunInvariant, Confirmable
<1>8. NoComeback(r)'
  BY <1>2, <1>4 DEF NoComeback
<1>9. Gone(r)'
  BY <1>1 DEF RunInvariant, Gone, NoLateUpdate
<1>10. Backed(r)'
  <2> SUFFICES ASSUME phase[r] \in Holding, ctxExp[r] > now
               PROVE  u.lock.holder = r /\ u.lock.exp >= ctxExp[r]
    BY <1>1, <1>2 DEF Backed, Trusting, CurrentLock
  <2>1. u.lock.holder = r
    BY <1>1 DEF Sound
  <2>2. u.lock.exp >= ref[Len(ref)].exp
    BY <1>1, <2>1, NoRunAssumption DEF Sound, Unlocked
  <2>3. ref[Len(ref)].exp >= ctxExp[r] /\ ref[Len(ref)] \in Lock
    BY <1>1, <1>2 DEF RunInvariant, Backed, Trusting, CurrentLock, NoComeback
  <2>4. ctxExp[r] \in Nat /\ ref[Len(ref)].exp \in Nat /\ u.lock.exp \in Nat
    BY <1>1, <2>3 DEF TypeOK, Lock
  <2> QED BY <2>1, <2>2, <2>3, <2>4
<1> QED BY <1>4, <1>5, <1>6, <1>7, <1>8, <1>9, <1>10 DEF RunInvariant

-----------------------------------------------------------------------------
(* The inductive invariant *)

LEMMA BoundKept ==
  ASSUME TypeOK, LeaseInvariant, [Next]_vars
  PROVE  LeasesBounded'
<1>0. /\ Len(ref) \in Nat /\ now \in Nat /\ TTL \in Nat
      /\ \A i \in 1..Len(ref) : ref[i] \in Lock /\ ref[i].exp \in Nat /\ ref[i].exp <= now + TTL
  BY RefTyped, TimesAssumption DEF LeaseInvariant, LeasesBounded, TypeOK, Lock
<1>1. ASSUME NEW l \in Lock, l.exp <= now + TTL, ref' = Append(ref, l), now' = now
      PROVE  LeasesBounded'
  <2>1. /\ Len(ref') = Len(ref) + 1 /\ \A i \in 1..Len(ref) : ref'[i] = ref[i]
        /\ ref'[Len(ref) + 1] = l
    BY <1>1, Appended DEF TypeOK
  <2> QED BY <1>0, <1>1, <2>1 DEF LeasesBounded
<1>2. CASE Tick
  BY <1>0, <1>2 DEF LeasesBounded, Tick, github
<1>3. ASSUME NEW r \in Runs, Step(r) \/ Crash(r) PROVE LeasesBounded'
  <2>1. now' = now
    BY <1>3 DEF Step, Crash, StartAcquire, AcquireTimesOut, AcquireReadRaises, AcquireCas,
                EnsureFresh, RenewReadRaises, RenewCas, UseAnswer, StartRelease,
                ReleaseReadRaises, ReleaseCas, AcquireRead, AcquireConfirm, RenewRead, ReleaseRead
  <2>2. CASE RefUntouched(r)
    BY <1>0, <2>1, <2>2 DEF RefUntouched, LeasesBounded
  <2>3. CASE RefCreated
    <3>1. Foreign \in Lock /\ Foreign.exp <= now + TTL
      BY <1>0 DEF Foreign, Lock
    <3> QED BY <1>1, <2>1, <2>3, <3>1 DEF RefCreated
  <2>4. CASE RefMoved(r)
    <3>1. sent[r].lock \in Lock /\ sent[r].lock.exp <= now + TTL
      BY <2>4 DEF RefMoved, LeaseInvariant, RunInvariant, UpdatesSound, Sound, TypeOK, Request
    <3> QED BY <1>1, <2>1, <2>4, <3>1 DEF RefMoved, CasAccepted
  <2> QED BY <1>3, <2>2, <2>3, <2>4, RefCases
<1>4. ASSUME NEW q \in wire, LateUpdate(q) PROVE LeasesBounded'
  <2>1. q.lock \in Lock /\ q.lock.exp <= now + TTL
    BY DEF LeaseInvariant, RunInvariant, UpdatesSound, Sound, TypeOK, Request
  <2> QED BY <1>1, <1>4, <2>1 DEF LateUpdate
<1>5. CASE UNCHANGED vars
  BY <1>0, <1>5 DEF vars, LeasesBounded
<1> QED BY <1>2, <1>3, <1>4, <1>5 DEF Next

LEMMA InitInvariant == Init => LeaseInvariant
<1> SUFFICES ASSUME Init PROVE LeaseInvariant
  OBVIOUS
<1>1. LeasesBounded
  <2>1. \A i \in 1..Len(ref) : ref[i] = Unlocked
    BY DEF Init
  <2> QED BY <2>1, TimesAssumption DEF Init, LeasesBounded, Unlocked
<1>2. ASSUME NEW r \in Runs PROVE RunInvariant(r)
  <2>1. wire = {} /\ phase[r] = "start" /\ (Len(ref) = 0 \/ Len(ref) = 1)
    BY DEF Init
  <2>2. NotBuried(r)
    <3>1. PICK n \in 0..1 : Len(ref) = n
      BY <2>1
    <3>2. \A i \in 1..n : ~ i < n
      OBVIOUS
    <3> QED BY <3>1, <3>2 DEF NotBuried
  <2> QED BY <2>1, <2>2 DEF RunInvariant, UpdatesSound, OwnParent, Confirmable, NoComeback, Gone,
                            Backed, Trusting, Sending, Holding
<1> QED BY <1>1, <1>2 DEF LeaseInvariant

LEMMA NextInvariant == TypeOK /\ LeaseInvariant /\ [Next]_vars => LeaseInvariant'
<1> SUFFICES ASSUME TypeOK, LeaseInvariant, [Next]_vars PROVE LeaseInvariant'
  OBVIOUS
<1>1. LeasesBounded /\ LeasesBounded'
  BY BoundKept DEF LeaseInvariant
<1>2. ASSUME NEW s \in Runs PROVE RunInvariant(s)'
  <2>1. RunInvariant(s)
    BY DEF LeaseInvariant
  <2>2. CASE Tick
    BY <2>1, <2>2, TimePasses
  <2>3. ASSUME NEW r \in Runs, Step(r) \/ Crash(r), r # s PROVE RunInvariant(s)'
    BY <2>1, <2>3, OthersKeep DEF LeaseInvariant
  <2>4. CASE Step(s) \/ Crash(s)
    <3>1. CASE \/ StartAcquire(s) \/ AcquireTimesOut(s) \/ AcquireReadRaises(s) \/ AcquireCas(s)
               \/ \E i \in Readable : AcquireRead(s, i) \/ AcquireConfirm(s, i)
      BY <1>1, <2>1, <3>1, AcquireOwn
    <3>2. CASE \/ EnsureFresh(s) \/ RenewReadRaises(s) \/ RenewCas(s) \/ UseAnswer(s)
               \/ \E i \in Readable : RenewRead(s, i)
      BY <1>1, <2>1, <3>2, RenewOwn
    <3>3. CASE \/ StartRelease(s) \/ ReleaseReadRaises(s) \/ ReleaseCas(s) \/ Crash(s)
               \/ \E i \in Readable : ReleaseRead(s, i)
      BY <2>1, <3>3, ReleaseOwn
    <3> QED BY <2>4, <3>1, <3>2, <3>3 DEF Step
  <2>5. ASSUME NEW q \in wire, LateUpdate(q) PROVE RunInvariant(s)'
    <3>1. q \in Request /\ q.run \in Runs /\ RunInvariant(q.run)
      BY DEF TypeOK, Request, LeaseInvariant
    <3>2. CASE q.run = s
      BY <2>5, <3>1, <3>2, LateOwn
    <3>3. CASE q.run # s
      <4>1. /\ Sound(q) /\ q.parent = Len(ref) /\ ref' = Append(ref, q.lock) /\ wire' \subseteq wire
            /\ UNCHANGED <<now, phase, sent, ctxExp>>
        BY <2>5, <3>1 DEF RunInvariant, UpdatesSound, LateUpdate, FastForward
      <4> QED BY <2>1, <3>1, <3>3, <4>1, Overtaken
    <3> QED BY <3>2, <3>3
  <2>6. CASE UNCHANGED vars
    BY <2>1, <2>6, Bystander DEF vars
  <2> QED BY <2>2, <2>3, <2>4, <2>5, <2>6 DEF Next
<1> QED BY <1>1, <1>2 DEF LeaseInvariant

-----------------------------------------------------------------------------
(* Theorems *)

\* The inductive invariant of the lock holds of every behaviour.
THEOREM InvariantHolds == Spec => []LeaseInvariant
BY InitTyped, NextTyped, InitInvariant, NextInvariant, PTL DEF Spec

\* A run's unexpired lease context is backed by the head of the ref.
THEOREM ContextsBacked == Spec => []LeaseBacked
<1>1. LeaseInvariant => LeaseBacked
  BY DEF LeaseInvariant, RunInvariant, LeaseBacked
<1> QED BY <1>1, InvariantHolds, PTL

\* At most one run has an unexpired lease context, for any number of runs, with
\* reads that lag, answers that are lost and updates that come late.
THEOREM Exclusive == Spec => []LeaseExclusive
<1>1. LeaseInvariant => LeaseExclusive
  BY DEF LeaseInvariant, RunInvariant, LeaseExclusive, Backed
<1> QED BY <1>1, InvariantHolds, PTL

\* A run whose release was answered True never has the lock again.
THEOREM ReleasesFinal == Spec => []ReleasedForGood
<1>1. LeaseInvariant => ReleasedForGood
  BY DEF LeaseInvariant, RunInvariant, Gone, ReleasedForGood
<1> QED BY <1>1, InvariantHolds, PTL

\* A step that moves the ref appends an update that is sound.
LEMMA RefMoves ==
  ASSUME TypeOK, LeaseInvariant, Next, ref # <<>>, ref' # ref
  PROVE  /\ now' = now
         /\ \E q \in Request :
              /\ Sound(q) /\ q.parent = Len(ref) /\ ref' = Append(ref, q.lock)
              /\ \/ q \in wire /\ UNCHANGED <<phase, ctxExp>>
                 \/ phase[q.run] \in Sending /\ q = sent[q.run] /\ Step(q.run)
<1>1. CASE Tick
  BY <1>1 DEF Tick, github
<1>2. ASSUME NEW r \in Runs, Step(r) \/ Crash(r)
      PROVE  /\ now' = now /\ Sound(sent[r]) /\ sent[r].run = r /\ sent[r] \in Request
             /\ phase[r] \in Sending /\ CasAccepted(sent[r]) /\ Step(r)
  <2>1. RefMoved(r)
    BY <1>2, RefCases DEF RefUntouched, RefCreated
  <2>2. Step(r)
    BY <1>2 DEF Crash, github
  <2>3. now' = now
    BY <2>2 DEF Step, StartAcquire, AcquireTimesOut, AcquireReadRaises, AcquireCas,
                EnsureFresh, RenewReadRaises, RenewCas, UseAnswer, StartRelease,
                ReleaseReadRaises, ReleaseCas, AcquireRead, AcquireConfirm, RenewRead, ReleaseRead
  <2> QED BY <2>1, <2>2, <2>3 DEF RefMoved, LeaseInvariant, RunInvariant, UpdatesSound, TypeOK
<1>3. ASSUME NEW q \in wire, LateUpdate(q)
      PROVE  /\ now' = now /\ q \in Request /\ Sound(q) /\ q.parent = Len(ref)
             /\ ref' = Append(ref, q.lock) /\ UNCHANGED <<phase, ctxExp>>
  BY <1>3 DEF LateUpdate, FastForward, LeaseInvariant, RunInvariant, UpdatesSound, TypeOK, Request
<1> QED BY <1>1, <1>2, <1>3 DEF Next, CasAccepted, FastForward

\* A valid lock changes hands only through its own run's release.
THEOREM NeverStolen == Spec => NoTheft
<1>1. ASSUME TypeOK, LeaseInvariant, Next, ref # <<>>, CurrentLock.holder \in Runs,
             CurrentLock.exp > now, ref' # ref
      PROVE  \/ CurrentLock'.holder = CurrentLock.holder
             \/ CurrentLock' = Unlocked /\ phase[CurrentLock.holder] \in Releasing \union Ended
  <2>1. PICK q \in Request : Sound(q) /\ q.parent = Len(ref) /\ ref' = Append(ref, q.lock)
    BY <1>1, RefMoves
  <2>2. q.lock \in Lock /\ q.run \in Runs
    BY DEF Request
  <2>3. ref'[Len(ref')] = q.lock
    BY <1>1, <2>1, <2>2, Appended DEF TypeOK
  <2>4. CurrentLock.holder = q.run
    BY <1>1, <2>1 DEF Sound, Valid, CurrentLock
  <2>5. CASE q.lock.holder = q.run
    BY <2>3, <2>4, <2>5 DEF CurrentLock
  <2>6. CASE q.lock = Unlocked /\ q.lock.holder # q.run
    <3>1. phase[q.run] \notin Acquiring \union Holding
      BY <2>1, <2>6 DEF Sound
    <3>2. phase[q.run] \in Releasing \union Ended
      BY <1>1, <2>2, <3>1 DEF TypeOK
    <3> QED BY <2>3, <2>4, <2>6, <3>2 DEF CurrentLock
  <2> QED BY <2>1, <2>5, <2>6 DEF Sound
<1> QED BY <1>1, InvariantHolds, Typed, PTL DEF Spec, NoTheft

\* A renewal that answers True extends a lock that was its run's all along.
THEOREM RenewalsUnbroken == Spec => RenewalUnbroken
<1>1. ASSUME TypeOK, LeaseInvariant, Next, NEW r \in Runs, phase[r] = "ren_cas", phase'[r] = "fresh"
      PROVE  CurrentLock.holder = r /\ CurrentLock'.holder = r
  <2>0. phase'[r] # phase[r]
    BY <1>1
  <2>1. Step(r) \/ Crash(r)
    BY <1>1, <2>0, Frame DEF Next, Tick, LateUpdate
  <2>2. RenewCas(r)
    BY <1>1, <2>1
       DEF Step, Crash, StartAcquire, AcquireTimesOut, AcquireReadRaises, AcquireCas,
           EnsureFresh, RenewReadRaises, UseAnswer, StartRelease, ReleaseReadRaises, ReleaseCas,
           AcquireRead, AcquireConfirm, RenewRead, ReleaseRead, End, Go, TypeOK
  <2>3. CasAccepted(sent[r])
    BY <1>1, <2>2 DEF RenewCas, Again, RenewEnds, Go, TypeOK
  <2>4. /\ Sound(sent[r]) /\ sent[r].run = r /\ sent[r] \in Request
        /\ ref[sent[r].parent].holder = r /\ sent[r].lock.holder = r
    BY <1>1 DEF LeaseInvariant, RunInvariant, UpdatesSound, OwnParent, Sound, Sending, Holding, TypeOK
  <2>5. sent[r].lock \in Lock /\ sent[r].parent = Len(ref) /\ ref' = Append(ref, sent[r].lock)
    BY <2>3, <2>4 DEF CasAccepted, FastForward, Request
  <2>6. \A l \in Lock : ref' = Append(ref, l) => ref'[Len(ref')] = l
    BY <1>1, Appended DEF TypeOK
  <2> QED BY <2>4, <2>5, <2>6 DEF CurrentLock
<1>2. TypeOK /\ LeaseInvariant /\ [Next]_vars
        => [\A r \in Runs : phase[r] = "ren_cas" /\ phase'[r] = "fresh"
              => CurrentLock.holder = r /\ CurrentLock'.holder = r]_vars
  BY <1>1
<1> QED BY <1>2, InvariantHolds, Typed, PTL DEF Spec, RenewalUnbroken

-----------------------------------------------------------------------------
(* The protocol implements module Lease *)

LEMMA LeaseInit == Init => L!Init
<1> SUFFICES ASSUME Init PROVE L!Init
  OBVIOUS
<1>1. Unlocked.holder \notin Runs
  BY NoRunAssumption DEF Unlocked
<1>2. ref = <<>> \/ CurrentLock = Unlocked
  BY DEF Init, CurrentLock
<1> QED BY <1>1, <1>2 DEF Init, L!Init, Unlocked, Holding

\* What a run believes of its lease, and what the ref says.
Belief(r) == IF phase[r] \in Holding THEN ctxExp[r] ELSE 0
RefLock == IF ref = <<>> \/ CurrentLock.holder \notin Runs THEN Unlocked ELSE CurrentLock

\* While the ref stays as it is, a run only learns or forgets an expiry.
LEMMA LearnStep ==
  ASSUME TypeOK, LeaseInvariant, TypeOK', LeaseInvariant',
         NEW r \in Runs, Step(r) \/ Crash(r), ref' = ref \/ RefCreated
  PROVE  L!Learn(r)
<1>1. \A s \in Runs : s # r => Belief(s)' = Belief(s)
  BY Frame DEF Belief
<1>2. now' = now
  BY DEF Step, Crash, StartAcquire, AcquireTimesOut, AcquireReadRaises, AcquireCas,
         EnsureFresh, RenewReadRaises, RenewCas, UseAnswer, StartRelease,
         ReleaseReadRaises, ReleaseCas, AcquireRead, AcquireConfirm, RenewRead, ReleaseRead
<1>3. RefLock' = RefLock
  <2>1. CASE ref' = ref
    BY <2>1 DEF RefLock, CurrentLock
  <2>2. CASE RefCreated
    <3>1. Foreign \in Lock
      BY DEF Foreign, Lock
    <3>2. Len(ref') > 0 /\ ref'[Len(ref')] = Foreign
      BY <2>2, <3>1, Appended DEF TypeOK, RefCreated
    <3> QED BY <2>2, <3>2, NoRunAssumption DEF RefLock, CurrentLock, RefCreated, Foreign
  <2> QED BY <2>1, <2>2
<1>4. Belief(r)' \in Nat
  BY DEF Belief, TypeOK
<1>5. Belief(r)' <= now \/ (RefLock.holder = r /\ Belief(r)' <= RefLock.exp)
  <2> SUFFICES ASSUME ~(Belief(r)' <= now)
               PROVE  RefLock'.holder = r /\ Belief(r)' <= RefLock'.exp
    BY <1>3
  <2>1. now \in Nat /\ Belief(r)' > now
    BY <1>4 DEF TypeOK
  <2>2. phase'[r] \in Holding /\ Belief(r)' = ctxExp'[r]
    BY <2>1 DEF Belief
  <2>3. CurrentLock'.holder = r /\ CurrentLock'.exp >= Belief(r)' /\ Len(ref') > 0
    BY <1>2, <2>1, <2>2 DEF LeaseInvariant, RunInvariant, Backed, Trusting, NoComeback
  <2>4. RefLock' = CurrentLock' /\ CurrentLock' \in Lock
    BY <2>3, EmptySeq, RefTyped DEF RefLock, CurrentLock, TypeOK
  <2> QED BY <1>4, <2>3, <2>4 DEF Lock
<1>6. [s \in Runs |-> Belief(s)]' = [[s \in Runs |-> Belief(s)] EXCEPT ![r] = Belief(r)']
  BY <1>1
<1> QED BY <1>2, <1>3, <1>4, <1>5, <1>6 DEF L!Learn, Belief, RefLock

\* A run whose update moves the ref learns its expiry if it renewed.
LEMMA SenderLearns ==
  ASSUME TypeOK, LeaseInvariant, NEW r \in Runs, phase[r] \in Sending, Step(r),
         ref' # ref, ref # <<>>
  PROVE  \/ Belief(r)' = Belief(r)
         \/ /\ Belief(r)' = sent[r].lock.exp
            /\ ref[sent[r].parent].holder = r
<1>1. CasAccepted(sent[r])
  BY RefCases DEF RefUntouched, RefCreated, RefMoved
<1>2. CASE phase[r] = "acq_cas"
  <2>1. AcquireCas(r)
    BY <1>2 DEF Step, StartAcquire, AcquireTimesOut, AcquireReadRaises, EnsureFresh,
                RenewReadRaises, RenewCas, UseAnswer, StartRelease, ReleaseReadRaises, ReleaseCas,
                AcquireRead, AcquireConfirm, RenewRead, ReleaseRead
  <2>2. phase'[r] \in {"acq_confirm", "acq_read", "failed"}
    BY <2>1 DEF AcquireCas, AcquireAgain, End, Go, TypeOK
  <2> QED BY <1>2, <2>2 DEF Belief, Holding
<1>3. CASE phase[r] = "ren_cas"
  <2>1. RenewCas(r)
    BY <1>3 DEF Step, StartAcquire, AcquireTimesOut, AcquireReadRaises, AcquireCas, EnsureFresh,
                RenewReadRaises, UseAnswer, StartRelease, ReleaseReadRaises, ReleaseCas,
                AcquireRead, AcquireConfirm, RenewRead, ReleaseRead
  <2>2. CASE RenewEnds(r, "fresh", sent[r].lock.exp)
    <3>1. phase'[r] = "fresh" /\ ctxExp'[r] = sent[r].lock.exp
      BY <2>2 DEF RenewEnds, Go, TypeOK
    <3> QED BY <1>3, <3>1 DEF Belief, Holding, LeaseInvariant, RunInvariant, OwnParent
  <2>3. CASE RenewEnds(r, "stale", ctxExp[r]) \/ Again(r, "ren_read")
    <3>1. phase'[r] \in {"stale", "ren_read"} /\ ctxExp'[r] = ctxExp[r]
      BY <2>3 DEF RenewEnds, Again, Go, TypeOK
    <3> QED BY <1>3, <3>1 DEF Belief, Holding
  <2> QED BY <2>1, <2>2, <2>3 DEF RenewCas
<1>4. CASE phase[r] = "rel_cas"
  <2>1. ReleaseCas(r)
    BY <1>4 DEF Step, StartAcquire, AcquireTimesOut, AcquireReadRaises, AcquireCas, EnsureFresh,
                RenewReadRaises, RenewCas, UseAnswer, StartRelease, ReleaseReadRaises,
                AcquireRead, AcquireConfirm, RenewRead, ReleaseRead
  <2>2. phase'[r] \in {"released", "unreleased", "rel_read"}
    BY <2>1 DEF ReleaseCas, Again, End, Go, TypeOK
  <2> QED BY <1>4, <2>2 DEF Belief, Holding
<1> QED BY <1>2, <1>3, <1>4 DEF Sending

\* A step that moves the ref grants, extends or frees the lease.
LEMMA MoveStep ==
  ASSUME TypeOK, LeaseInvariant, TypeOK', LeaseInvariant', Next, ref # <<>>, ref' # ref
  PROVE  L!Next
<1>1. now' = now
  BY RefMoves
<1>2. PICK q \in Request :
             /\ Sound(q) /\ q.parent = Len(ref) /\ ref' = Append(ref, q.lock)
             /\ \/ q \in wire /\ UNCHANGED <<phase, ctxExp>>
                \/ phase[q.run] \in Sending /\ q = sent[q.run] /\ Step(q.run)
  BY RefMoves
<1> DEFINE r == q.run
           h == ref[Len(ref)]
           B == [s \in Runs |-> Belief(s)]
<1>3. r \in Runs /\ q.lock \in Lock /\ q.lock.exp \in Nat /\ q.lock.exp <= now + TTL
  BY <1>2 DEF Request, Lock, Sound
<1>4. Len(ref') > 0 /\ ref'[Len(ref')] = q.lock
  BY <1>2, <1>3, Appended DEF TypeOK
<1>5. RefLock' = q.lock
  BY <1>2, <1>3, <1>4, NoRunAssumption DEF RefLock, CurrentLock, Sound, Unlocked
<1>6. RefLock = IF h.holder \in Runs THEN h ELSE Unlocked
  BY DEF RefLock, CurrentLock
<1>7. h \in Lock /\ h.exp \in Nat /\ now \in Nat
  BY <1>2, RefTyped DEF Sound, TypeOK, Lock
<1>8. \A s \in Runs : s # r => Belief(s)' = Belief(s)
  BY <1>2, <1>3, Frame DEF Belief
<1>9. Belief(r)' = Belief(r) \/ (Belief(r)' = q.lock.exp /\ h.holder = r)
  <2>1. CASE q \in wire /\ UNCHANGED <<phase, ctxExp>>
    BY <2>1 DEF Belief
  <2>2. CASE phase[r] \in Sending /\ q = sent[r] /\ Step(r)
    BY <1>2, <1>3, <2>2, SenderLearns
  <2> QED BY <1>2, <2>1, <2>2
<1>10. B' = B \/ B' = [B EXCEPT ![r] = Belief(r)']
  BY <1>3, <1>8
<1>11. CASE q.lock.holder = r /\ h.holder = r
  <2>1. RefLock = h /\ q.lock.exp \in h.exp..now + TTL
    BY <1>2, <1>3, <1>6, <1>7, <1>11, NoRunAssumption, TimesAssumption DEF Sound, Unlocked
  <2>2. q.lock = [holder |-> r, exp |-> q.lock.exp]
    BY <1>3, <1>11 DEF Lock
  <2>3. B' = B \/ B' = [B EXCEPT ![r] = q.lock.exp]
    BY <1>3, <1>8, <1>9
  <2>4. L!Extend(r)
    BY <1>1, <1>5, <1>11, <2>1, <2>2, <2>3 DEF L!Extend, RefLock, Belief
  <2> QED BY <1>3, <2>4 DEF L!Next
<1>12. CASE q.lock.holder = r /\ h.holder # r
  <2>1. RefLock.holder = NoRun \/ RefLock.exp <= now
    BY <1>2, <1>6, <1>7, <1>12 DEF Sound, Valid, Unlocked
  <2>2. q.lock = [holder |-> r, exp |-> q.lock.exp] /\ q.lock.exp \in 0..now + TTL
    BY <1>3, <1>7, <1>12, TimesAssumption DEF Lock
  <2>3. B' = B
    BY <1>3, <1>8, <1>9, <1>12
  <2>4. L!Grant(r)
    BY <1>1, <1>5, <2>1, <2>2, <2>3 DEF L!Grant, L!Expired, RefLock, Belief
  <2> QED BY <1>3, <2>4 DEF L!Next
<1>13. CASE q.lock = Unlocked /\ h.holder = r
  <2>1. phase[r] \notin Holding
    BY <1>2, <1>3, <1>13, NoRunAssumption DEF Sound, Unlocked
  <2>2. Belief(r) = 0 /\ Belief(r)' = 0
    BY <1>9, <1>13, <2>1 DEF Belief, Unlocked
  <2>3. B' = B
    BY <1>3, <1>8, <2>2
  <2>4. RefLock.holder = r
    BY <1>3, <1>6, <1>13
  <2>5. L!Free(r)
    BY <1>1, <1>3, <1>5, <1>13, <2>2, <2>3, <2>4 DEF L!Free, RefLock, Belief, Unlocked
  <2> QED BY <1>3, <2>5 DEF L!Next
<1> QED BY <1>2, <1>11, <1>12, <1>13 DEF Sound

\* Whatever the protocol does is a step of the lease it promises.
THEOREM Implements == Spec => ImplementsLease
<1>1. ASSUME TypeOK, LeaseInvariant, TypeOK', LeaseInvariant', [Next]_vars
      PROVE  [L!Next]_L!leaseVars
  <2>1. CASE UNCHANGED vars
    BY <2>1 DEF vars, L!leaseVars, CurrentLock
  <2>2. CASE Tick
    BY <2>2 DEF Tick, github, CurrentLock, L!Next, L!Tick
  <2>3. CASE Next /\ ref # <<>> /\ ref' # ref
    BY <1>1, <2>3, MoveStep
  <2>4. ASSUME NEW r \in Runs, Step(r) \/ Crash(r), ref = <<>> \/ ref' = ref
        PROVE  L!Next
    <3>1. phase[r] \notin Sending \/ ref' = ref
      BY <1>1, <2>4 DEF LeaseInvariant, RunInvariant, UpdatesSound, Sound
    <3>2. ref' = ref \/ RefCreated
      BY <2>4, <3>1, RefCases DEF RefUntouched, RefMoved
    <3>3. L!Learn(r)
      BY <1>1, <2>4, <3>2, LearnStep
    <3> QED BY <3>3 DEF L!Next
  <2>5. ASSUME NEW q \in wire, LateUpdate(q) PROVE ref # <<>> /\ ref' # ref
    <3>1. q.parent = Len(ref) /\ q.parent \in 1..Len(ref) /\ q.lock \in Lock
      BY <1>1, <2>5 DEF LateUpdate, FastForward, LeaseInvariant, RunInvariant, UpdatesSound,
                        Sound, TypeOK, Request
    <3>2. Len(ref') = Len(ref) + 1 /\ Len(ref) \in Nat
      BY <1>1, <2>5, <3>1, Appended DEF LateUpdate, TypeOK
    <3> QED BY <3>1, <3>2
  <2> QED BY <1>1, <2>1, <2>2, <2>3, <2>4, <2>5 DEF Next
<1> QED BY <1>1, LeaseInit, InvariantHolds, Typed, PTL DEF Spec, ImplementsLease, L!Spec

-----------------------------------------------------------------------------
(* Of BotRun: the inductive invariant *)

\* The answer "fresh" leaves at least the renewal window from the time that
\* vouches for it.
Vouched(r) == /\ phase[r] = "fresh" => vouched[r] + Window < ctxExp[r]
              /\ phase[r] = "ren_cas" => sent[r].lock.exp >= TTL

\* A run reads the state only once it has the lease.
UsedLease(r) == pc[r] # "load" => phase[r] \in Holding \union Releasing \union Ended

\* While the ref names a run that may still write, its copy has every update
\* of the state issue, unless a PATCH came too late.
CopyCurrent(r) == ~stray /\ phase[r] \in Holding /\ pc[r] \notin {"load"} \union Over /\ CurrentLock.holder = r
                    => store.updates \subseteq mem[r].updates

\* What a run has done on GitHub is in its copy until it is saved, and has been
\* in the state issue from then on.
Persisted(r) == r \in acted =>
  /\ pc[r] \notin {"load", "handle"}
  /\ pc[r] \in {"check", "save"} => Change(r) \in mem[r].updates
  /\ pc[r] \in {"reload", "labels", "recheck", "mark", "ok"} => Change(r) \in stored

BotRunInvariant(r) == Vouched(r) /\ UsedLease(r) /\ CopyCurrent(r) /\ Persisted(r)

BotInvariant == BotTypeOK /\ LeaseInvariant /\ NoLostUpdate /\ \A r \in Runs : BotRunInvariant(r)

LEMMA BotInitInvariant == BotInit => BotInvariant
<1> SUFFICES ASSUME BotInit PROVE BotInvariant
  OBVIOUS
<1>1. TypeOK /\ LeaseInvariant
  BY InitTyped, InitInvariant DEF BotInit
<1>2. Empty \in State
  BY DEF Empty, State
<1>3. BotTypeOK
  <2>1. store \in State /\ mem \in [Runs -> State]
    BY <1>2 DEF BotInit
  <2>2. pc \in [Runs -> Working \union Saving \union Over]
    BY DEF BotInit, Working
  <2>3. epoch \in [Runs -> Nat] /\ saves \in [Runs -> 0..RetryLimit] /\ vouched \in [Runs -> Nat]
    BY BoundsAssumption DEF BotInit
  <2>4. acted \subseteq Runs /\ posts \subseteq Post /\ stored \subseteq Updates /\ stray \in BOOLEAN
    BY DEF BotInit
  <2> QED BY <1>1, <2>1, <2>2, <2>3, <2>4 DEF BotTypeOK
<1>3a. NoLostUpdate
  BY DEF BotInit, NoLostUpdate
<1>4. ASSUME NEW r \in Runs PROVE BotRunInvariant(r)
  BY DEF BotInit, Init, BotRunInvariant, Vouched, UsedLease, CopyCurrent, Persisted, Empty
<1> QED BY <1>1, <1>3, <1>3a, <1>4 DEF BotInvariant

-----------------------------------------------------------------------------
(* The lease under a run *)

LeaseStep(r) == Acquire(r) \/ AskFresh(r) \/ Release(r) \/ Killed(r) \/ SaveRefused(r)
BodyStep(r)  == Load(r) \/ Handle(r) \/ Check(r) \/ Reload(r) \/ Labels(r)

LEMMA LeaseSteps == ASSUME NEW r \in Runs, LeaseStep(r)
                    PROVE  Step(r) \/ Crash(r)
BY DEF LeaseStep, Acquire, AskFresh, Release, Killed, SaveRefused, Step

LEMMA BodySteps == ASSUME BotTypeOK, NEW r \in Runs, BodyStep(r)
                   PROVE  /\ phase[r] = "held" /\ faults' \in Nat
                          /\ UNCHANGED <<now, ref, wire, phase, since, sent, tries, ctxExp, vouched>>
<1>1. faults \in Nat
  BY DEF BotTypeOK, TypeOK
<1> QED
  BY <1>1 DEF BodyStep, Load, Handle, Check, Reload, Labels, Body, ReadFails, Fault

\* The lease does not care about failed calls to the state issue.
LEMMA LeaseStill ==
  ASSUME TypeOK, LeaseInvariant, faults' \in Nat,
         UNCHANGED <<now, ref, wire, phase, since, sent, tries, ctxExp>>
  PROVE  TypeOK' /\ LeaseInvariant'
<1>1. TypeOK'
  BY DEF TypeOK
<1>2. LeasesBounded'
  BY DEF LeaseInvariant, LeasesBounded
<1>3. ASSUME NEW s \in Runs PROVE RunInvariant(s)'
  BY Bystander DEF LeaseInvariant
<1> QED BY <1>1, <1>2, <1>3 DEF LeaseInvariant

LEMMA WriteKeepsLease ==
  ASSUME BotTypeOK, LeaseInvariant, NEW r \in Runs, Write(r)
  PROVE  TypeOK' /\ LeaseInvariant'
<1>1. /\ phase[r] = "fresh" /\ phase' = [phase EXCEPT ![r] = "held"] /\ faults' \in Nat
      /\ UNCHANGED <<now, ref, wire, since, sent, tries, ctxExp>>
  BY DEF Write, Go, Fault, BotTypeOK, TypeOK
<1>2. TypeOK'
  BY <1>1 DEF BotTypeOK, TypeOK, Holding
<1>3. LeasesBounded'
  BY <1>1 DEF LeaseInvariant, LeasesBounded
<1>4. ASSUME NEW s \in Runs, s # r PROVE RunInvariant(s)'
  <2>1. phase'[s] = phase[s]
    BY <1>1, <1>4 DEF BotTypeOK, TypeOK
  <2> QED BY <1>1, <2>1, Bystander DEF LeaseInvariant
<1>5. RunInvariant(r)'
  <2>1. RunInvariant(r) /\ phase[r] \in Holding /\ phase'[r] = "held"
    BY <1>1 DEF LeaseInvariant, Holding, BotTypeOK, TypeOK
  <2>2. \A q \in wire' : q.run = r => Sound(q)'
    BY <1>1, <2>1, LeftBehind DEF Acquiring, Holding
  <2>3. NoLateUpdate(r)' \/ CurrentLock.holder = r
    BY <1>1, <2>1 DEF RunInvariant, NoComeback, NoLateUpdate
  <2> QED BY <1>1, <2>1, <2>2, <2>3, Keeping
<1> QED BY <1>2, <1>3, <1>4, <1>5 DEF LeaseInvariant

LEMMA LeaseKept ==
  ASSUME BotTypeOK, LeaseInvariant, [BotNext]_botVars
  PROVE  TypeOK' /\ LeaseInvariant'
<1>0. TypeOK
  BY DEF BotTypeOK
<1>1. CASE [Next]_vars
  BY <1>0, <1>1, NextTyped, NextInvariant
<1>2. ASSUME NEW r \in Runs, LeaseStep(r) PROVE [Next]_vars
  BY <1>2, LeaseSteps DEF Next
<1>3. ASSUME NEW r \in Runs, BodyStep(r) PROVE TypeOK' /\ LeaseInvariant'
  BY <1>0, <1>3, BodySteps, LeaseStill
<1>4. ASSUME NEW r \in Runs, Write(r) PROVE TypeOK' /\ LeaseInvariant'
  BY <1>4, WriteKeepsLease
<1>5. CASE Tick \/ (\E q \in wire : LateUpdate(q)) \/ (\E p \in posts : LatePatch(p)) \/ Migrate \/ UNCHANGED botVars
  BY <1>1, <1>5 DEF Next, LatePatch, Migrate, botVars
<1> QED BY <1>1, <1>2, <1>3, <1>4, <1>5 DEF BotNext, LeaseStep, BodyStep

\* Nobody who is done with the lease starts to hold it again.
LEMMA PhaseMoves ==
  ASSUME TypeOK, NEW r \in Runs, Step(r) \/ Crash(r),
         phase[r] \in Holding \union Releasing \union Ended
  PROVE  /\ phase'[r] \in Holding \union Releasing \union Ended
         /\ phase'[r] \in Holding => phase[r] \in Holding
<1> USE DEF Go, End, Acquiring, Holding, Releasing, Ended
<1>1. CASE StartAcquire(r) \/ AcquireTimesOut(r) \/ AcquireReadRaises(r) \/ AcquireCas(r)
  BY <1>1 DEF StartAcquire, AcquireTimesOut, AcquireReadRaises, AcquireCas, TypeOK
<1>2. CASE EnsureFresh(r) \/ RenewReadRaises(r) \/ RenewCas(r) \/ UseAnswer(r)
  BY <1>2 DEF EnsureFresh, RenewReadRaises, RenewCas, UseAnswer, RenewEnds, Again, TypeOK
<1>3. CASE StartRelease(r) \/ ReleaseReadRaises(r) \/ ReleaseCas(r) \/ Crash(r)
  BY <1>3 DEF StartRelease, ReleaseReadRaises, ReleaseCas, Crash, Again, TypeOK
<1>4. ASSUME NEW i \in Readable,
             \/ AcquireRead(r, i) \/ AcquireConfirm(r, i)
             \/ RenewRead(r, i) \/ ReleaseRead(r, i)
      PROVE  /\ phase'[r] \in Holding \union Releasing \union Ended
             /\ phase'[r] \in Holding => phase[r] \in Holding
  BY <1>4 DEF AcquireRead, AcquireConfirm, RenewRead, ReleaseRead, RenewEnds, Again, TypeOK
<1> QED BY <1>1, <1>2, <1>3, <1>4 DEF Step

\* A run that has held the lease all along and has it now, had it before.
LEMMA NoReturn ==
  ASSUME TypeOK, LeaseInvariant, Next, NEW s \in Runs,
         phase[s] \in Holding, CurrentLock'.holder = s
  PROVE  CurrentLock.holder = s
<1>1. CASE ref' = ref
  BY <1>1 DEF CurrentLock
<1>2. CASE ref' # ref
  <2>1. Len(ref) > 0 /\ (NoLateUpdate(s) \/ CurrentLock.holder = s) /\ OwnParent(s)
    BY DEF LeaseInvariant, RunInvariant, NoComeback
  <2>2. ref # <<>>
    BY <2>1, EmptySeq
  <2>3. PICK q \in Request :
              /\ Sound(q) /\ q.parent = Len(ref) /\ ref' = Append(ref, q.lock)
              /\ \/ q \in wire /\ UNCHANGED <<phase, ctxExp>>
                 \/ phase[q.run] \in Sending /\ q = sent[q.run] /\ Step(q.run)
    BY <1>2, <2>2, RefMoves
  <2>4. q.lock \in Lock /\ CurrentLock' = q.lock
    BY <2>3, Appended DEF TypeOK, Request, CurrentLock
  <2>5. q.run = s
    BY <2>3, <2>4, NoRunAssumption DEF Sound, Unlocked
  <2>6. CASE q \in wire
    <3>1. ~NoLateUpdate(s)
      BY <2>3, <2>5, <2>6, RefTyped DEF NoLateUpdate
    <3> QED BY <2>1, <3>1
  <2>7. CASE phase[s] \in Sending /\ q = sent[s]
    BY <2>1, <2>3, <2>7 DEF OwnParent, Sending, Holding, CurrentLock
  <2> QED BY <2>3, <2>5, <2>6, <2>7
<1> QED BY <1>1, <1>2

-----------------------------------------------------------------------------
(* Writing the state issue *)

\* A body that is not too late is the copy of a run that the ref names, and
\* holds every update of the body it replaces.
LEMMA LandsInTime ==
  ASSUME BotInvariant, NEW r \in Runs, NEW b, Lands(r, b), ~stray'
  PROVE  /\ ~stray /\ b = mem[r] /\ CurrentLock.holder = r /\ pc[r] \in Saving
         /\ store' = b /\ stored' = stored \union b.updates
         /\ store.updates \subseteq b.updates /\ stored \subseteq b.updates
<1>1. ~stray /\ StillSaving(r, b) /\ store' = b /\ stored' = stored \union b.updates
  BY DEF Lands
<1>2. store.updates \subseteq mem[r].updates
  BY <1>1 DEF StillSaving, BotInvariant, BotRunInvariant, CopyCurrent, Saving, Over
<1>3. stored \subseteq store.updates
  BY <1>1 DEF BotInvariant, NoLostUpdate
<1> QED BY <1>1, <1>2, <1>3 DEF StillSaving

\* Everything else leaves the updates alone.
LEMMA StoreSteps ==
  ASSUME BotInvariant, [BotNext]_botVars
  PROVE  \/ store'.updates = store.updates /\ UNCHANGED <<stored, stray>>
         \/ \E r \in Runs : Write(r) /\ Lands(r, mem[r])
         \/ \E p \in posts : LatePatch(p) /\ p.run \in Runs /\ Lands(p.run, p.body)
<1>1. ASSUME NEW r \in Runs, LeaseStep(r) \/ BodyStep(r) PROVE UNCHANGED issueVars
  BY <1>1 DEF LeaseStep, BodyStep, Acquire, AskFresh, Release, Killed, SaveRefused, runVars,
              Load, Handle, Check, Reload, Labels, ReadFails
<1>2. CASE Migrate
  BY <1>2 DEF Migrate, BotInvariant, BotTypeOK, State
<1>3. CASE UNCHANGED botVars
  BY <1>3 DEF botVars, runVars, issueVars
<1>4. ASSUME NEW r \in Runs, Write(r)
      PROVE  Lands(r, mem[r]) \/ UNCHANGED <<store, stored, stray>>
  BY <1>4 DEF Write
<1>5. ASSUME NEW p \in posts, LatePatch(p) PROVE p.run \in Runs /\ Lands(p.run, p.body)
  BY <1>5 DEF LatePatch, BotInvariant, BotTypeOK, Post
<1> QED BY <1>1, <1>2, <1>3, <1>4, <1>5 DEF BotNext, LeaseStep, BodyStep, runVars, issueVars

LEMMA StoredGrows ==
  ASSUME BotInvariant, [BotNext]_botVars
  PROVE  stored \subseteq stored'
BY StoreSteps DEF Lands

LEMMA StoreKept ==
  ASSUME BotInvariant, [BotNext]_botVars
  PROVE  NoLostUpdate'
<1>1. CASE store'.updates = store.updates /\ UNCHANGED <<stored, stray>>
  BY <1>1 DEF BotInvariant, NoLostUpdate
<1>2. ASSUME NEW r \in Runs, NEW b, Lands(r, b), ~stray' PROVE stored' \subseteq store'.updates
  BY <1>2, LandsInTime
<1> QED BY <1>1, <1>2, StoreSteps DEF NoLostUpdate

-----------------------------------------------------------------------------
(* The inductive invariant, conjunct by conjunct *)

LEMMA VouchedTyped ==
  ASSUME BotInvariant, NEW r \in Runs, AskFresh(r)
  PROVE  vouched' \in [Runs -> Nat]
<1>1. vouched \in [Runs -> Nat] /\ now \in Nat
  BY DEF BotInvariant, BotTypeOK, TypeOK
<1>2. CASE phase'[r] # "fresh" \/ phase[r] = "held"
  BY <1>1, <1>2 DEF AskFresh, Vouch
<1>3. CASE phase'[r] = "fresh" /\ phase[r] # "held"
  <2>1. phase[r] = "ren_cas"
    BY <1>3 DEF AskFresh, EnsureFresh, RenewReadRaises, RenewCas, RenewRead, RenewEnds, Go,
                BotInvariant, BotTypeOK, TypeOK
  <2>2. sent[r].lock.exp \in Nat /\ sent[r].lock.exp >= TTL
    BY <2>1 DEF BotInvariant, BotRunInvariant, Vouched, BotTypeOK, TypeOK, Request, Lock
  <2>3. sent[r].lock.exp - TTL \in Nat
    BY <2>2, TimesAssumption
  <2> QED BY <1>1, <1>3, <2>3 DEF AskFresh, Vouch
<1> QED BY <1>2, <1>3

LEMMA WithTyped == ASSUME NEW s \in State, NEW r \in Runs
                   PROVE  /\ With(s, Change(r)) \in State /\ With(s, Marker(r)) \in State
                          /\ With(s, Change(r)).updates = s.updates \union {Change(r)}
                          /\ With(s, Marker(r)).updates = s.updates \union {Marker(r)}
BY DEF With, State, Updates

LEMMA LandsTyped == ASSUME BotTypeOK, NEW r, NEW b \in State, Lands(r, b)
                    PROVE  store' \in State /\ stored' \subseteq Updates /\ stray' \in BOOLEAN
<1>1. b.updates \subseteq Updates
  BY DEF State
<1> QED BY <1>1 DEF Lands, BotTypeOK

LEMMA BotTyped ==
  ASSUME BotInvariant, [BotNext]_botVars
  PROVE  BotTypeOK'
<1>1. TypeOK'
  BY LeaseKept DEF BotInvariant
<1>2. BotTypeOK
  BY DEF BotInvariant
<1> USE DEF Working, Saving, Over
<1>3. ASSUME NEW r \in Runs, Acquire(r) \/ Release(r) \/ Killed(r) PROVE BotTypeOK'
  BY <1>1, <1>2, <1>3 DEF Acquire, Release, Killed, runVars, issueVars, BotTypeOK
<1>4. ASSUME NEW r \in Runs, AskFresh(r) PROVE BotTypeOK'
  BY <1>1, <1>2, <1>4, VouchedTyped DEF AskFresh, issueVars, BotTypeOK
<1>5. ASSUME NEW r \in Runs, Load(r) \/ Reload(r) PROVE BotTypeOK'
  BY <1>1, <1>2, <1>5 DEF Load, Reload, ReadFails, To, BotTypeOK, State, issueVars
<1>6. ASSUME NEW r \in Runs, Handle(r) PROVE BotTypeOK'
  <2>1. mem[r] \in State /\ With(mem[r], Change(r)) \in State
    BY <1>2, WithTyped DEF BotTypeOK
  <2>2. mem' \in [Runs -> State] /\ acted' \subseteq Runs
    BY <1>2, <1>6, <2>1 DEF Handle, BotTypeOK
  <2> QED BY <1>1, <1>2, <1>6, <2>2 DEF Handle, To, BotTypeOK, issueVars
<1>7. ASSUME NEW r \in Runs, Check(r) PROVE BotTypeOK'
  BY <1>1, <1>2, <1>7, BoundsAssumption DEF Check, ReadFails, To, BotTypeOK, issueVars
<1>8. ASSUME NEW r \in Runs, Labels(r) PROVE BotTypeOK'
  <2>1. mem[r] \in State /\ With(mem[r], Marker(r)) \in State
    BY <1>2, WithTyped DEF BotTypeOK
  <2>2. mem' \in [Runs -> State]
    BY <1>2, <1>8, <2>1 DEF Labels, ReadFails, BotTypeOK
  <2> QED BY <1>1, <1>2, <1>8, <2>2 DEF Labels, ReadFails, To, BotTypeOK, issueVars
<1>9. ASSUME NEW r \in Runs, SaveFailed(r) \/ SaveSucceeded(r) \/ SaveRetries(r)
      PROVE  pc' \in [Runs -> Working \union Saving \union Over] /\ saves' \in [Runs -> 0..RetryLimit]
  BY <1>2, <1>9, BoundsAssumption DEF SaveFailed, SaveSucceeded, SaveRetries, To, BotTypeOK
<1>10. ASSUME NEW r \in Runs, SaveRefused(r) PROVE BotTypeOK'
  BY <1>1, <1>2, <1>9, <1>10 DEF SaveRefused, issueVars, BotTypeOK
<1>11. ASSUME NEW r \in Runs, Write(r) PROVE BotTypeOK'
  <2>1. mem[r] \in State /\ [run |-> r, body |-> mem[r]] \in Post
    BY <1>2 DEF BotTypeOK, Post
  <2>2. store' \in State /\ stored' \subseteq Updates /\ stray' \in BOOLEAN
    <3>1. CASE Lands(r, mem[r])
      BY <1>2, <2>1, <3>1, LandsTyped
    <3>2. CASE UNCHANGED <<store, stored, stray>>
      BY <1>2, <3>2 DEF BotTypeOK
    <3> QED BY <1>11, <3>1, <3>2 DEF Write
  <2>3. posts' \subseteq Post
    BY <1>2, <1>11, <2>1 DEF Write, BotTypeOK
  <2>4. /\ pc' \in [Runs -> Working \union Saving \union Over] /\ saves' \in [Runs -> 0..RetryLimit]
        /\ UNCHANGED <<mem, epoch, vouched, acted>>
    BY <1>9, <1>11 DEF Write
  <2> QED BY <1>1, <1>2, <2>2, <2>3, <2>4 DEF BotTypeOK
<1>12. CASE Migrate
  BY <1>1, <1>2, <1>12 DEF Migrate, BotTypeOK, State
<1>13. CASE (Tick \/ \E q \in wire : LateUpdate(q)) /\ UNCHANGED runVars
  BY <1>1, <1>2, <1>13 DEF runVars, issueVars, BotTypeOK
<1>14. CASE UNCHANGED botVars
  BY <1>1, <1>2, <1>14 DEF botVars, runVars, issueVars, BotTypeOK
<1>15. ASSUME NEW p \in posts, LatePatch(p) PROVE BotTypeOK'
  <2>1. p \in Post /\ p.body \in State
    BY <1>2, <1>15 DEF BotTypeOK, Post
  <2>2. store' \in State /\ stored' \subseteq Updates /\ stray' \in BOOLEAN
    BY <1>2, <1>15, <2>1, LandsTyped DEF LatePatch
  <2> QED BY <1>1, <1>2, <1>15, <2>2 DEF LatePatch, BotTypeOK
<1> QED
  BY <1>15, <1>3, <1>4, <1>5, <1>6, <1>7, <1>8, <1>10, <1>11, <1>12, <1>13, <1>14 DEF BotNext

\* What a step of one run leaves alone.
LEMMA OthersStill ==
  ASSUME BotInvariant, NEW r \in Runs, LeaseStep(r) \/ BodyStep(r) \/ Write(r), NEW s \in Runs, s # r
  PROVE  /\ phase'[s] = phase[s] /\ sent'[s] = sent[s] /\ ctxExp'[s] = ctxExp[s]
         /\ pc'[s] = pc[s] /\ mem'[s] = mem[s] /\ vouched'[s] = vouched[s]
         /\ s \in acted' => s \in acted
<1> USE DEF BotInvariant, BotTypeOK
<1>1. CASE LeaseStep(r)
  <2>1. /\ UNCHANGED <<mem, acted>>
        /\ pc' = pc \/ SaveFailed(r)
        /\ vouched' = vouched \/ \E n : vouched' = [vouched EXCEPT ![r] = n]
    BY <1>1 DEF LeaseStep, Acquire, AskFresh, Vouch, Release, Killed, SaveRefused, runVars
  <2>2. pc'[s] = pc[s] /\ vouched'[s] = vouched[s]
    BY <2>1 DEF SaveFailed, To
  <2> QED BY <1>1, <2>1, <2>2, LeaseSteps, Frame
<1>2. CASE BodyStep(r)
  <2>1. UNCHANGED <<phase, sent, ctxExp, vouched>>
    BY <1>2, BodySteps
  <2>2. /\ pc'[s] = pc[s] /\ mem'[s] = mem[s]
        /\ s \in acted' => s \in acted
    BY <1>2 DEF BodyStep, Load, Handle, Check, Reload, Labels, ReadFails, To
  <2> QED BY <2>1, <2>2
<1>3. CASE Write(r)
  BY <1>3 DEF Write, Go, SaveSucceeded, SaveRetries, SaveFailed, To, TypeOK
<1> QED BY <1>1, <1>2, <1>3

LEMMA VouchedKept ==
  ASSUME BotInvariant, [BotNext]_botVars, NEW s \in Runs
  PROVE  Vouched(s)'
<1>1. /\ Vouched(s) /\ now \in Nat /\ phase \in [Runs -> Acquiring \union Holding \union Releasing \union Ended]
      /\ ctxExp \in [Runs -> Nat] /\ sent \in [Runs -> Request] /\ vouched \in [Runs -> Nat]
  BY DEF BotInvariant, BotRunInvariant, BotTypeOK, TypeOK
<1>2. ASSUME NEW r \in Runs, LeaseStep(r) \/ BodyStep(r) \/ Write(r), r # s PROVE Vouched(s)'
  BY <1>1, <1>2, OthersStill DEF Vouched
<1>3. CASE UNCHANGED <<phase, sent, ctxExp, vouched>>
  BY <1>1, <1>3 DEF Vouched
<1>4. CASE BodyStep(s)
  BY <1>3, <1>4, BodySteps DEF BotInvariant
<1>5. CASE phase'[s] \notin {"fresh", "ren_cas"}
  BY <1>5 DEF Vouched
<1>6. CASE Write(s) \/ SaveRefused(s)
  BY <1>1, <1>5, <1>6 DEF Write, SaveRefused, UseAnswer, Go
<1>7. CASE Acquire(s)
  <2>1. phase'[s] \notin {"fresh", "ren_cas"}
    BY <1>1, <1>7 DEF Acquire, StartAcquire, AcquireTimesOut, AcquireReadRaises, AcquireCas,
                      AcquireRead, AcquireConfirm, AcquireAgain, Activate, End, Go
  <2> QED BY <1>5, <2>1
<1>8. CASE Release(s) \/ Killed(s)
  <2>1. phase'[s] \notin {"fresh", "ren_cas"}
    BY <1>1, <1>8 DEF Release, Killed, StartRelease, ReleaseReadRaises, ReleaseCas, ReleaseRead,
                      Again, Crash, End, Go
  <2> QED BY <1>5, <2>1
<1>9. CASE AskFresh(s)
  <2>1. CASE EnsureFresh(s)
    <3>1. \/ phase'[s] = "fresh" /\ ctxExp[s] > now + Window /\ ctxExp' = ctxExp /\ phase[s] = "held"
          \/ phase'[s] = "ren_read"
      BY <1>1, <2>1 DEF EnsureFresh, Go
    <3>2. CASE phase'[s] = "fresh"
      <4>1. vouched'[s] = now
        BY <1>1, <1>9, <3>1, <3>2 DEF AskFresh, Vouch
      <4> QED BY <1>1, <3>1, <3>2, <4>1, TimesAssumption DEF Vouched
    <3> QED BY <1>5, <3>1, <3>2
  <2>2. CASE RenewReadRaises(s)
    <3>1. phase'[s] = "stale"
      BY <1>1, <2>2 DEF RenewReadRaises, RenewEnds, Go
    <3> QED BY <1>5, <3>1
  <2>3. CASE RenewCas(s)
    <3>1. \/ phase'[s] = "fresh" /\ ctxExp'[s] = sent[s].lock.exp /\ phase[s] = "ren_cas"
          \/ phase'[s] \in {"stale", "ren_read"}
      BY <1>1, <2>3 DEF RenewCas, RenewEnds, Again, Go
    <3>2. CASE phase'[s] = "fresh"
      <4>1. vouched'[s] = sent[s].lock.exp - TTL
        BY <1>1, <1>9, <3>1, <3>2 DEF AskFresh, Vouch
      <4>2. sent[s].lock.exp \in Nat
        BY <1>1 DEF Request, Lock
      <4> QED BY <3>1, <3>2, <4>1, <4>2, TimesAssumption DEF Vouched
    <3> QED BY <1>5, <3>1, <3>2
  <2>4. ASSUME NEW i \in Readable, RenewRead(s, i) PROVE Vouched(s)'
    <3>1. \/ phase'[s] = "stale"
          \/ phase'[s] = "ren_cas" /\ sent'[s] = Update(s, i, LockOf(s))
      BY <1>1, <2>4 DEF RenewRead, RenewEnds, Go
    <3>2. Update(s, i, LockOf(s)).lock.exp = now + TTL
      BY DEF Update, LockOf
    <3>3. sent'[s] = Update(s, i, LockOf(s)) => sent'[s].lock.exp >= TTL
      BY <1>1, <3>2, TimesAssumption
    <3> QED BY <3>1, <3>3 DEF Vouched
  <2> QED BY <1>9, <2>1, <2>2, <2>3, <2>4 DEF AskFresh
<1> QED
  BY <1>2, <1>3, <1>4, <1>6, <1>7, <1>8, <1>9
     DEF BotNext, LeaseStep, BodyStep, runVars, botVars, vars, Tick, LateUpdate, LatePatch, Migrate

LEMMA UsedLeaseKept ==
  ASSUME BotInvariant, [BotNext]_botVars, NEW s \in Runs
  PROVE  UsedLease(s)'
<1>1. UsedLease(s) /\ BotTypeOK /\ TypeOK
  BY DEF BotInvariant, BotRunInvariant, BotTypeOK
<1>2. ASSUME NEW r \in Runs, LeaseStep(r) \/ BodyStep(r) \/ Write(r), r # s PROVE UsedLease(s)'
  BY <1>1, <1>2, OthersStill DEF UsedLease
<1>3. CASE UNCHANGED <<phase, pc>>
  BY <1>1, <1>3 DEF UsedLease
<1>4. CASE BodyStep(s)
  BY <1>4, <1>1, BodySteps DEF UsedLease, Holding
<1>5. CASE LeaseStep(s)
  <2>1. pc[s] = "load" => pc'[s] = "load"
    BY <1>5 DEF LeaseStep, Acquire, AskFresh, Release, Killed, SaveRefused, runVars, Saving
  <2>2. phase[s] \in Holding \union Releasing \union Ended
          => phase'[s] \in Holding \union Releasing \union Ended
    BY <1>1, <1>5, LeaseSteps, PhaseMoves
  <2> QED BY <1>1, <2>1, <2>2 DEF UsedLease
<1>6. CASE Write(s)
  BY <1>1, <1>6 DEF Write, Go, UsedLease, Holding, TypeOK
<1> QED
  BY <1>2, <1>3, <1>4, <1>5, <1>6
     DEF BotNext, LeaseStep, BodyStep, runVars, botVars, vars, Tick, LateUpdate, LatePatch, Migrate

\* The copy of a run falls behind only after the ref has left the run.
LEMMA CopyCurrentKept ==
  ASSUME BotInvariant, [BotNext]_botVars, NEW s \in Runs
  PROVE  CopyCurrent(s)'
<1> SUFFICES ASSUME ~stray', phase'[s] \in Holding, pc'[s] \notin {"load"} \union Over, CurrentLock'.holder = s
             PROVE  store'.updates \subseteq mem'[s].updates
  BY DEF CopyCurrent
<1>0. ~stray
  BY StoreSteps DEF Lands, BotInvariant, BotTypeOK
<1>1. CopyCurrent(s) /\ UsedLease(s) /\ BotTypeOK /\ TypeOK /\ LeaseInvariant
  BY DEF BotInvariant, BotRunInvariant, BotTypeOK
<1>2. ASSUME [Next]_vars, phase[s] \in Holding PROVE CurrentLock.holder = s
  BY <1>1, <1>2, NoReturn DEF vars, CurrentLock
<1>3. ASSUME [Next]_vars, UNCHANGED mem, store'.updates = store.updates, phase[s] \in Holding,
             pc[s] \notin {"load"} \union Over
      PROVE  store'.updates \subseteq mem'[s].updates
  BY <1>0, <1>1, <1>2, <1>3 DEF CopyCurrent
<1>4. ASSUME NEW r \in Runs, LeaseStep(r) PROVE store'.updates \subseteq mem'[s].updates
  <2>1. [Next]_vars /\ UNCHANGED <<mem, store>>
    BY <1>4, LeaseSteps
       DEF Next, LeaseStep, Acquire, AskFresh, Release, Killed, SaveRefused, runVars, issueVars
  <2>2. pc[s] \notin {"load"} \union Over
    <3>1. r # s => pc'[s] = pc[s]
      BY <1>4, OthersStill
    <3>2. r = s => pc'[s] = pc[s] \/ pc[s] \in Saving
      BY <1>4 DEF LeaseStep, Acquire, AskFresh, Release, Killed, SaveRefused, runVars
    <3> QED BY <3>1, <3>2 DEF Saving, Over
  <2>3. phase[s] \in Holding
    <3>1. r # s => phase'[s] = phase[s]
      BY <1>4, OthersStill
    <3>2. r = s => phase[s] \in Holding
      BY <1>1, <1>4, <2>2, LeaseSteps, PhaseMoves DEF UsedLease
    <3> QED BY <3>1, <3>2
  <2> QED BY <1>3, <2>1, <2>2, <2>3
<1>5. ASSUME NEW r \in Runs, BodyStep(r), r # s PROVE store'.updates \subseteq mem'[s].updates
  <2>1. store' = store /\ phase'[s] = phase[s] /\ pc'[s] = pc[s] /\ mem'[s] = mem[s]
    BY <1>5, OthersStill DEF BodyStep, Load, Handle, Check, Reload, Labels, ReadFails, issueVars
  <2>2. CurrentLock' = CurrentLock
    BY <1>1, <1>5, BodySteps DEF CurrentLock
  <2> QED BY <1>0, <1>1, <2>1, <2>2 DEF CopyCurrent
<1>6. ASSUME BodyStep(s) PROVE store'.updates \subseteq mem'[s].updates
  <2>1. store' = store /\ phase[s] = "held" /\ CurrentLock' = CurrentLock
    BY <1>1, <1>6, BodySteps
       DEF CurrentLock, BodyStep, Load, Handle, Check, Reload, Labels, ReadFails, issueVars
  <2>2. CASE Load(s) \/ Reload(s)
    BY <1>1, <2>1, <2>2 DEF Load, Reload, ReadFails, To, BotTypeOK, Over
  <2>3. CASE Handle(s) \/ Check(s) \/ Labels(s)
    <3>1. mem[s].updates \subseteq mem'[s].updates
      BY <1>1, <2>3, WithTyped DEF Handle, Check, Labels, ReadFails, BotTypeOK
    <3>2. pc[s] \notin {"load"} \union Over
      BY <2>3 DEF Handle, Check, Labels, Body, Over
    <3> QED BY <1>0, <1>1, <2>1, <3>1, <3>2 DEF CopyCurrent, Holding
  <2> QED BY <1>6, <2>2, <2>3 DEF BodyStep
<1>7. ASSUME NEW r \in Runs, Write(r) PROVE store'.updates \subseteq mem'[s].updates
  <2>1. CurrentLock' = CurrentLock /\ mem' = mem
    BY <1>7 DEF Write, CurrentLock
  <2>2. phase[s] \in Holding /\ pc[s] \notin {"load"} \union Over
    <3>1. r # s => phase'[s] = phase[s] /\ pc'[s] = pc[s]
      BY <1>7, OthersStill
    <3>2. r = s => phase[s] \in Holding /\ pc[s] \in Saving
      BY <1>7 DEF Write, Holding
    <3> QED BY <3>1, <3>2 DEF Saving, Over
  <2>3. CASE store' = store
    BY <1>0, <1>1, <2>1, <2>2, <2>3 DEF CopyCurrent
  <2>4. CASE Lands(r, mem[r])
    BY <1>1, <2>1, <2>4, LandsInTime
  <2> QED BY <1>7, <2>3, <2>4 DEF Write
<1>7a. ASSUME NEW p \in posts, LatePatch(p) PROVE store'.updates \subseteq mem'[s].updates
  <2>1. p.run \in Runs /\ Lands(p.run, p.body) /\ CurrentLock' = CurrentLock /\ mem' = mem
    BY <1>1, <1>7a DEF LatePatch, vars, CurrentLock, BotTypeOK, Post
  <2> QED BY <2>1, LandsInTime
<1>8. CASE Migrate \/ UNCHANGED botVars
  <2>1. store'.updates = store.updates
    BY <1>1, <1>8 DEF Migrate, botVars, runVars, issueVars, BotTypeOK, State
  <2> QED BY <1>3, <1>8, <2>1 DEF Migrate, botVars, runVars, vars
<1>9. CASE (Tick \/ \E q \in wire : LateUpdate(q)) /\ UNCHANGED runVars
  <2>1. UNCHANGED <<phase, pc, mem, store>> /\ Next
    BY <1>9 DEF Tick, LateUpdate, runVars, issueVars, Next
  <2> QED BY <1>3, <2>1
<1> QED BY <1>4, <1>5, <1>6, <1>7, <1>7a, <1>8, <1>9 DEF BotNext, LeaseStep, BodyStep

LEMMA PersistedKept ==
  ASSUME BotInvariant, [BotNext]_botVars, NEW s \in Runs
  PROVE  Persisted(s)'
<1>1. Persisted(s) /\ BotTypeOK /\ stored \subseteq stored'
  BY StoredGrows DEF BotInvariant, BotRunInvariant
<1>2. ASSUME NEW r \in Runs, LeaseStep(r) \/ BodyStep(r) \/ Write(r), r # s PROVE Persisted(s)'
  BY <1>1, <1>2, OthersStill DEF Persisted
<1>3. CASE UNCHANGED <<pc, mem, acted>>
  BY <1>1, <1>3 DEF Persisted
<1>4. CASE LeaseStep(s)
  <2>1. \/ UNCHANGED <<pc, mem, acted>>
        \/ UNCHANGED <<mem, acted>> /\ SaveFailed(s)
    BY <1>4 DEF LeaseStep, Acquire, AskFresh, Release, Killed, SaveRefused, runVars
  <2> QED BY <1>1, <1>3, <2>1 DEF SaveFailed, To, Persisted, BotTypeOK
<1>5. CASE Load(s) \/ Check(s) \/ Reload(s) \/ Labels(s)
  BY <1>1, <1>5 DEF Load, Check, Reload, Labels, Body, ReadFails, To, Persisted, BotTypeOK
<1>6. CASE Handle(s)
  <2>1. With(mem[s], Change(s)).updates = mem[s].updates \union {Change(s)}
    BY <1>1, WithTyped DEF BotTypeOK
  <2> QED BY <1>1, <1>6, <2>1 DEF Handle, Body, To, Persisted, BotTypeOK
<1>7. CASE Write(s)
  <2>1. pc[s] \in Saving /\ UNCHANGED <<mem, acted>>
    BY <1>7 DEF Write
  <2>2. CASE Lands(s, mem[s]) /\ SaveSucceeded(s)
    BY <1>1, <2>1, <2>2 DEF Lands, SaveSucceeded, To, Saving, Persisted, BotTypeOK
  <2>3. CASE SaveRetries(s) \/ SaveFailed(s)
    BY <1>1, <2>1, <2>3 DEF SaveRetries, SaveFailed, To, Saving, Persisted, BotTypeOK
  <2> QED BY <1>7, <2>2, <2>3 DEF Write
<1> QED
  BY <1>2, <1>3, <1>4, <1>5, <1>6, <1>7
     DEF BotNext, LeaseStep, BodyStep, runVars, botVars, LatePatch, Migrate

LEMMA BotNextInvariant ==
  ASSUME BotInvariant, [BotNext]_botVars
  PROVE  BotInvariant'
<1>1. BotTypeOK' /\ LeaseInvariant' /\ NoLostUpdate'
  BY BotTyped, LeaseKept, StoreKept DEF BotInvariant
<1>2. ASSUME NEW s \in Runs PROVE BotRunInvariant(s)'
  BY VouchedKept, UsedLeaseKept, CopyCurrentKept, PersistedKept DEF BotRunInvariant
<1> QED BY <1>1, <1>2 DEF BotInvariant

\* A PATCH sent while the answer that vouches for it is no older than the
\* renewal window finds the lock its run's own.
LEMMA CoveredWrite ==
  ASSUME BotInvariant, NEW r \in Runs, phase[r] = "fresh", now <= vouched[r] + Window
  PROVE  CurrentLock.holder = r /\ CurrentLock.exp > now
<1>1. vouched[r] \in Nat /\ now \in Nat /\ ctxExp[r] \in Nat
  BY DEF BotInvariant, BotTypeOK, TypeOK
<1>2. vouched[r] + Window < ctxExp[r]
  BY DEF BotInvariant, BotRunInvariant, Vouched
<1>3. Trusting(r)
  BY <1>1, <1>2, TimesAssumption DEF Trusting, Holding
<1>4. CurrentLock.holder = r /\ CurrentLock.exp >= ctxExp[r]
  BY <1>3 DEF BotInvariant, LeaseInvariant, RunInvariant, Backed
<1>5. CurrentLock.exp \in Nat
  <2>1. Len(ref) \in 1..Len(ref) /\ TypeOK
    BY <1>3, RefTyped DEF BotInvariant, BotTypeOK, LeaseInvariant, RunInvariant, NoComeback, Trusting
  <2> QED BY <2>1, RefTyped DEF CurrentLock, Lock
<1> QED BY <1>1, <1>3, <1>4, <1>5 DEF Trusting

-----------------------------------------------------------------------------
(* Theorems *)

\* The lease protocol, as execute_run uses it with failing reads and saves of
\* the state issue, keeps its invariant, and load_state's copy is current while
\* the ref names its run, as long as no PATCH was overtaken.
THEOREM BotInvariantHolds == BotSpec => []BotInvariant
<1>1. BotInvariant /\ [BotNext]_botVars => BotInvariant'
  BY BotNextInvariant
<1> QED BY <1>1, BotInitInvariant, PTL DEF BotSpec

\* A run that acted on GitHub and leaves execute_run's try block without an
\* error has got its change into the state issue, however its PATCHes fared.
THEOREM SavedBeforeSuccess == BotSpec => []NoSilentSuccess
<1>1. BotInvariant => NoSilentSuccess
  BY DEF BotInvariant, BotRunInvariant, Persisted, NoSilentSuccess, NoLostUpdate, BotTypeOK
<1> QED BY <1>1, BotInvariantHolds, PTL

\* save_state's unconditional PATCH takes away what another run saved only once
\* some PATCH took effect when the lock, or its own run, had moved on.
THEOREM UpdatesKept == BotSpec => []NoLostUpdate
<1>1. BotInvariant => NoLostUpdate
  BY DEF BotInvariant
<1> QED BY <1>1, BotInvariantHolds, PTL

\* A PATCH sent within the renewal window of the answer that vouches for it is
\* sent under its run's own, unexpired lock.
THEOREM WritesUnderLease == BotSpec => WrittenUnderLease
<1>1. BotInvariant /\ [BotNext]_botVars
        => [\A r \in Runs : /\ pc[r] \in Saving /\ phase[r] = "fresh" /\ phase'[r] = "held"
                            /\ now <= vouched[r] + Window
              => CurrentLock.holder = r /\ CurrentLock.exp > now]_botVars
  BY CoveredWrite
<1> QED BY <1>1, BotInvariantHolds, PTL DEF BotSpec, WrittenUnderLease
=============================================================================
