----------------------------- MODULE LeaseLock -----------------------------
(***************************************************************************)
(* The reviewer bot's lease lock, scripts/reviewer_bot_lib/lease_lock.py.  *)
(*                                                                         *)
(* Workflow runs that change the bot's state serialise themselves with a   *)
(* git ref on GitHub.  Each value of the ref is a commit whose message     *)
(* holds the lock's metadata.  A run reads the ref, creates a commit whose *)
(* parent is the commit it read, and moves the ref to it with force:false: *)
(* GitHub accepts the move only if the ref still points at the parent.     *)
(* A lock expires TTL after it was built, so a run that dies blocks the    *)
(* others only that long; a run that needs longer renews.                  *)
(*                                                                         *)
(* What can go wrong, and is modelled: other runs at every step; reads     *)
(* that lag behind the last write; a ref update that GitHub answers with a *)
(* 5xx, or not at all, and applies later or never; failing reads; a run    *)
(* that is killed; a clock that moves between any two steps.               *)
(*                                                                         *)
(* A run's lock token is a fresh uuid and its owner triple comes from its  *)
(* environment, so both are abstracted to the run itself.  All runs read   *)
(* one clock.                                                              *)
(***************************************************************************)
EXTENDS Naturals, Sequences

CONSTANTS Runs,         \* workflow runs
          NoRun,        \* lock_token of an unlocked lock
          NoLock,       \* stands for a commit message that is no lock metadata
          TTL,          \* LOCK_LEASE_TTL_SECONDS
          Window,       \* LOCK_RENEWAL_WINDOW_SECONDS
          MaxWait,      \* LOCK_MAX_WAIT_SECONDS
          RetryLimit,   \* LOCK_API_RETRY_LIMIT
          Lag,          \* how many ref updates a read may miss
          MaxTime,      \* bound: the last value of the clock
          MaxFaults     \* bound: failed API calls in a behaviour

ASSUME NoRunAssumption == NoRun \notin Runs /\ NoLock \notin Runs /\ NoLock # NoRun
ASSUME TimesAssumption == TTL \in Nat /\ Window \in Nat /\ Window < TTL
ASSUME BoundsAssumption == /\ MaxWait \in Nat /\ RetryLimit \in Nat \ {0} /\ Lag \in Nat
                           /\ MaxTime \in Nat /\ MaxFaults \in Nat

VARIABLES now,       \* the clock
          ref,       \* the values the lock ref has had; the last is its head
          wire,      \* ref updates whose caller got no answer
          faults,    \* failed API calls so far
          phase,     \* where each run is in its use of the lock
          since,     \* wait_started_at of acquire
          sent,      \* the commit a run is about to move the ref to
          tries,     \* attempts used by the current renewal or release
          ctxExp     \* ACTIVE_LEASE_CONTEXT.lock_expires_at

github == <<ref, wire, faults>>
vars == <<now, ref, wire, faults, phase, since, sent, tries, ctxExp>>

-----------------------------------------------------------------------------
(* Lock metadata and requests *)

Lock == [holder : Runs \union {NoRun, NoLock}, exp : Nat]

Unlocked == [holder |-> NoRun, exp |-> 0]         \* clear_lock_metadata
Foreign  == [holder |-> NoLock, exp |-> 0]        \* head of the bootstrap branch
LockOf(r) == [holder |-> r, exp |-> now + TTL]    \* build_lock_metadata

\* Wrong variants of definitions are named Bad...; they serve to show that the
\* properties notice the mistake, and no specification uses them.
BadValidForEver(l) == l.holder \in Runs

\* lock_is_currently_valid
Valid(l) == l.holder \in Runs /\ l.exp > now

Request == [run : Runs, parent : Nat, lock : Lock]
Update(r, i, l) == [run |-> r, parent |-> i, lock |-> l]
NoUpdate(r) == Update(r, 0, Unlocked)

CurrentLock == ref[Len(ref)]

\* A read returns the head or one of the Lag values before it.
Visible == {i \in 1..Len(ref) : i + Lag >= Len(ref)}
Readable == {i \in Visible : ref[i] # Foreign}

Acquiring == {"start", "acq_read", "acq_cas", "acq_confirm"}
Holding   == {"held", "fresh", "stale", "ren_read", "ren_cas"}
Releasing == {"rel_read", "rel_cas"}
Ended     == {"released", "unreleased", "failed", "crashed"}

Init == /\ now = 0
        /\ ref \in {<<>>, <<Unlocked>>}
        /\ wire = {}
        /\ faults = 0
        /\ phase = [r \in Runs |-> "start"]
        /\ since = [r \in Runs |-> 0]
        /\ sent = [r \in Runs |-> NoUpdate(r)]
        /\ tries = [r \in Runs |-> 0]
        /\ ctxExp = [r \in Runs |-> 0]

Go(r, p) == phase' = [phase EXCEPT ![r] = p]

\* The run's use of the lock is over: context and local variables are gone.
End(r, p) == /\ Go(r, p)
             /\ since' = [since EXCEPT ![r] = 0]
             /\ sent' = [sent EXCEPT ![r] = NoUpdate(r)]
             /\ tries' = [tries EXCEPT ![r] = 0]
             /\ ctxExp' = [ctxExp EXCEPT ![r] = 0]

-----------------------------------------------------------------------------
(* GitHub *)

Fault == faults < MaxFaults /\ faults' = faults + 1

\* get_lock_ref_snapshot raises: an API failure, a ref that does not exist and
\* is created at the bootstrap branch (whose head is no lock commit), or a
\* commit message that is no lock metadata.
SnapshotRaises == /\ \/ Fault /\ ref' = ref
                     \/ ref = <<>> /\ ref' = Append(ref, Foreign) /\ faults' = faults
                     \/ \E i \in Visible : ref[i] = Foreign /\ UNCHANGED <<ref, faults>>
                  /\ wire' = wire

BadForcedUpdate(q) == TRUE

\* force:false: only a child of the head may become the head.
FastForward(q) == q.parent = Len(ref)

\* create_lock_commit and cas_update_lock_ref, as the caller sees them.
CasAccepted(q) == FastForward(q) /\ ref' = Append(ref, q.lock) /\ UNCHANGED <<wire, faults>>
CasRefused(q)  == ~FastForward(q) /\ UNCHANGED github
CasLost(q)     == Fault /\ wire' = wire \union {q} /\ ref' = ref

\* An update whose caller was told 5xx, or nothing, takes effect after all.
LateUpdate(q) ==
  /\ q \in wire
  /\ FastForward(q)
  /\ ref' = Append(ref, q.lock)
  /\ wire' = wire \ {q}
  /\ UNCHANGED <<now, faults, phase, since, sent, tries, ctxExp>>

-----------------------------------------------------------------------------
(* acquire_state_issue_lease_lock *)

StartAcquire(r) ==
  /\ phase[r] = "start"
  /\ Go(r, "acq_read")
  /\ since' = [since EXCEPT ![r] = now]
  /\ UNCHANGED <<now, github, sent, tries, ctxExp>>

WaitedTooLong(r) == now > since[r] + MaxWait

AcquireTimesOut(r) ==
  /\ phase[r] = "acq_read"
  /\ WaitedTooLong(r)
  /\ End(r, "failed")
  /\ UNCHANGED <<now, github>>

AcquireReadRaises(r) ==
  /\ \/ phase[r] = "acq_read" /\ ~WaitedTooLong(r)
     \/ phase[r] = "acq_confirm"
  /\ SnapshotRaises
  /\ End(r, "failed")
  /\ now' = now

\* _activate_lease_context
Activate(r, exp) == /\ Go(r, "held")
                    /\ ctxExp' = [ctxExp EXCEPT ![r] = exp]
                    /\ since' = [since EXCEPT ![r] = 0]
                    /\ sent' = [sent EXCEPT ![r] = NoUpdate(r)]
                    /\ UNCHANGED tries

\* One turn of the loop, up to the commit to publish.  A valid lock of another
\* run makes the loop sleep and read again: that changes nothing here.
AcquireRead(r, i) ==
  /\ phase[r] = "acq_read"
  /\ ~WaitedTooLong(r)
  /\ \/ /\ Valid(ref[i]) /\ ref[i].holder = r
        /\ Activate(r, ref[i].exp)
     \/ /\ ~Valid(ref[i])
        /\ Go(r, "acq_cas")
        /\ sent' = [sent EXCEPT ![r] = Update(r, i, LockOf(r))]
        /\ UNCHANGED <<since, tries, ctxExp>>
  /\ UNCHANGED <<now, github>>

\* Back to the top of the loop.
AcquireAgain(r) == /\ Go(r, "acq_read")
                   /\ sent' = [sent EXCEPT ![r] = NoUpdate(r)]
                   /\ UNCHANGED <<since, tries, ctxExp>>

AcquireCas(r) ==
  /\ phase[r] = "acq_cas"
  /\ \/ CasAccepted(sent[r]) /\ Go(r, "acq_confirm") /\ UNCHANGED <<since, sent, tries, ctxExp>>
     \/ CasRefused(sent[r]) /\ AcquireAgain(r)
     \/ CasLost(sent[r]) /\ (AcquireAgain(r) \/ End(r, "failed"))
  /\ now' = now

\* The read after a successful update: the own token activates the lease, an
\* unlocked lock is taken for visibility lag, anything else raises.
AcquireConfirm(r, i) ==
  /\ phase[r] = "acq_confirm"
  /\ \/ ref[i].holder = r /\ Activate(r, sent[r].lock.exp)
     \/ ref[i] = Unlocked /\ AcquireAgain(r)
     \/ ref[i].holder # r /\ ref[i] # Unlocked /\ End(r, "failed")
  /\ UNCHANGED <<now, github>>

-----------------------------------------------------------------------------
(* ensure_state_issue_lease_lock_fresh and renew_state_issue_lease_lock.   *)
(* "fresh" and "stale" are the answers True and False to the caller.       *)

BadFreshUntilExpiry(r) ==
  /\ phase[r] = "held"
  /\ \/ ctxExp[r] > now /\ Go(r, "fresh") /\ UNCHANGED tries
     \/ ctxExp[r] <= now /\ Go(r, "ren_read") /\ tries' = [tries EXCEPT ![r] = 1]
  /\ UNCHANGED <<now, github, since, sent, ctxExp>>

EnsureFresh(r) ==
  /\ phase[r] = "held"
  /\ \/ /\ ctxExp[r] > now + Window
        /\ Go(r, "fresh")
        /\ UNCHANGED tries
     \/ /\ ctxExp[r] <= now + Window
        /\ Go(r, "ren_read")
        /\ tries' = [tries EXCEPT ![r] = 1]
  /\ UNCHANGED <<now, github, since, sent, ctxExp>>

\* The renewal returns.
RenewEnds(r, answer, exp) == /\ Go(r, answer)
                             /\ ctxExp' = [ctxExp EXCEPT ![r] = exp]
                             /\ sent' = [sent EXCEPT ![r] = NoUpdate(r)]
                             /\ tries' = [tries EXCEPT ![r] = 0]
                             /\ UNCHANGED since

RenewReadRaises(r) ==
  /\ phase[r] = "ren_read"
  /\ SnapshotRaises
  /\ RenewEnds(r, "stale", ctxExp[r])
  /\ now' = now

RenewRead(r, i) ==
  /\ phase[r] = "ren_read"
  /\ \/ ref[i].holder # r /\ RenewEnds(r, "stale", ctxExp[r])
     \/ /\ ref[i].holder = r
        /\ Go(r, "ren_cas")
        /\ sent' = [sent EXCEPT ![r] = Update(r, i, LockOf(r))]
        /\ UNCHANGED <<since, tries, ctxExp>>
  /\ UNCHANGED <<now, github>>

\* The next attempt of a renewal or a release.
Again(r, p) == /\ tries[r] < RetryLimit
               /\ Go(r, p)
               /\ tries' = [tries EXCEPT ![r] = @ + 1]
               /\ sent' = [sent EXCEPT ![r] = NoUpdate(r)]
               /\ UNCHANGED <<since, ctxExp>>

NoMoreTries(r) == tries[r] >= RetryLimit

RenewCas(r) ==
  /\ phase[r] = "ren_cas"
  /\ \/ CasAccepted(sent[r]) /\ RenewEnds(r, "fresh", sent[r].lock.exp)
     \/ /\ CasRefused(sent[r])
        /\ Again(r, "ren_read") \/ (NoMoreTries(r) /\ RenewEnds(r, "stale", ctxExp[r]))
     \/ CasLost(sent[r]) /\ (Again(r, "ren_read") \/ RenewEnds(r, "stale", ctxExp[r]))
  /\ now' = now

\* The caller acts on the answer and goes on.
UseAnswer(r) ==
  /\ phase[r] \in {"fresh", "stale"}
  /\ Go(r, "held")
  /\ UNCHANGED <<now, github, since, sent, tries, ctxExp>>

-----------------------------------------------------------------------------
(* release_state_issue_lease_lock.  However it ends, the context is gone. *)

StartRelease(r) ==
  /\ phase[r] = "held"
  /\ Go(r, "rel_read")
  /\ tries' = [tries EXCEPT ![r] = 1]
  /\ UNCHANGED <<now, github, since, sent, ctxExp>>

ReleaseReadRaises(r) ==
  /\ phase[r] = "rel_read"
  /\ SnapshotRaises
  /\ End(r, "unreleased")
  /\ now' = now

BadReleaseAnyToken(r, i) ==
  /\ phase[r] = "rel_read"
  /\ Go(r, "rel_cas")
  /\ sent' = [sent EXCEPT ![r] = Update(r, i, Unlocked)]
  /\ UNCHANGED <<now, github, since, tries, ctxExp>>

ReleaseRead(r, i) ==
  /\ phase[r] = "rel_read"
  /\ \/ /\ ref[i].holder = r
        /\ Go(r, "rel_cas")
        /\ sent' = [sent EXCEPT ![r] = Update(r, i, Unlocked)]
        /\ UNCHANGED <<since, tries, ctxExp>>
     \/ ref[i] = Unlocked /\ (Again(r, "rel_read") \/ (NoMoreTries(r) /\ End(r, "unreleased")))
     \/ ref[i].holder # r /\ ref[i] # Unlocked /\ End(r, "unreleased")
  /\ UNCHANGED <<now, github>>

ReleaseCas(r) ==
  /\ phase[r] = "rel_cas"
  /\ \/ CasAccepted(sent[r]) /\ End(r, "released")
     \/ /\ CasRefused(sent[r])
        /\ Again(r, "rel_read") \/ (NoMoreTries(r) /\ End(r, "unreleased"))
     \/ CasLost(sent[r]) /\ (Again(r, "rel_read") \/ End(r, "unreleased"))
  /\ now' = now

-----------------------------------------------------------------------------
\* The workflow run is cancelled or killed: nothing is released.
Crash(r) ==
  /\ phase[r] \notin Ended \union {"start"}
  /\ End(r, "crashed")
  /\ UNCHANGED <<now, github>>

Tick == /\ now < MaxTime
        /\ now' = now + 1
        /\ UNCHANGED <<github, phase, since, sent, tries, ctxExp>>

Step(r) == \/ StartAcquire(r) \/ AcquireTimesOut(r) \/ AcquireReadRaises(r)
           \/ AcquireCas(r)
           \/ EnsureFresh(r) \/ RenewReadRaises(r) \/ RenewCas(r)
           \/ UseAnswer(r)
           \/ StartRelease(r) \/ ReleaseReadRaises(r) \/ ReleaseCas(r)
           \/ \E i \in Readable : \/ AcquireRead(r, i) \/ AcquireConfirm(r, i)
                                  \/ RenewRead(r, i) \/ ReleaseRead(r, i)

Next == \/ Tick
        \/ \E r \in Runs : Step(r) \/ Crash(r)
        \/ \E q \in wire : LateUpdate(q)

Spec == Init /\ [][Next]_vars

-----------------------------------------------------------------------------
(* Fairness.  A run is one sequential program that goes on while it can; its *)
(* work under the lock comes to an end; reads lag for a finite time; time    *)
(* passes.  GitHub need not apply a lost update, and no run need crash.      *)

AcquireReadsHead(r) == Len(ref) \in Readable /\ AcquireRead(r, Len(ref))

Fairness == /\ WF_vars(Tick)
            /\ \A r \in Runs : /\ WF_vars(Step(r))
                               /\ SF_vars(AcquireReadsHead(r))
                               /\ SF_vars(StartRelease(r))

FairSpec == Spec /\ Fairness

-----------------------------------------------------------------------------
(* Properties *)

TypeOK ==
  /\ now \in Nat
  /\ ref \in Seq(Lock)
  /\ wire \subseteq Request
  /\ faults \in Nat
  /\ phase \in [Runs -> Acquiring \union Holding \union Releasing \union Ended]
  /\ since \in [Runs -> Nat]
  /\ sent \in [Runs -> Request]
  /\ tries \in [Runs -> 0..RetryLimit]
  /\ ctxExp \in [Runs -> Nat]

\* A run that has a lease context (ACTIVE_LEASE_CONTEXT, not yet releasing)
\* whose expiry lies ahead: what assert_lock_held and the freshness check
\* take as leave to write.
Trusting(r) == phase[r] \in Holding /\ ctxExp[r] > now

\* Two runs never both have an unexpired lease context, whatever answers were
\* lost, reads lagged or updates came late.
LeaseExclusive == \A r, s \in Runs : Trusting(r) /\ Trusting(s) => r = s

\* A run's unexpired context is backed by the ref: the head is its own lock
\* and lasts at least as long as the context says.
Backed(r) == Trusting(r) => CurrentLock.holder = r /\ CurrentLock.exp >= ctxExp[r]
LeaseBacked == \A r \in Runs : Backed(r)

\* A valid lock is replaced only by a lock of the same run, or by no lock once
\* its run has begun to release: acquire, and late updates, never steal.
NoTheft == [][ref # <<>> /\ CurrentLock.holder \in Runs /\ CurrentLock.exp > now /\ ref' # ref
                => \/ CurrentLock'.holder = CurrentLock.holder
                   \/ CurrentLock' = Unlocked /\ phase[CurrentLock.holder] \in Releasing \union Ended]_vars

\* A renewal is answered True only if no other run has had the lock since the
\* context was activated, even when the lock had run out meanwhile: the head
\* it extends still names the run.
RenewalUnbroken == [][\A r \in Runs : phase[r] = "ren_cas" /\ phase'[r] = "fresh"
                        => CurrentLock.holder = r /\ CurrentLock'.holder = r]_vars

\* Once release has answered True, no update of that run, late or lost, puts
\* its lock back on the ref: nobody waits for a run that is gone.
ReleasedForGood == \A r \in Runs : phase[r] = "released" /\ ref # <<>> => CurrentLock.holder # r

\* A run that waits long enough gets the lock unless one of its own calls
\* fails: locks left behind by crashes, lost answers and failed releases run
\* out and are taken over.  (The last disjunct is the clock's bound.)
WaiterServed ==
  \A r \in Runs : phase[r] = "acq_read" ~>
    phase[r] \in Holding \union Ended \/ (now = MaxTime /\ ref # <<>> /\ CurrentLock.exp > now)

\* The protocol implements the promise of module Lease.
L == INSTANCE Lease WITH
       lock <- IF ref = <<>> \/ CurrentLock.holder \notin Runs THEN Unlocked ELSE CurrentLock,
       belief <- [r \in Runs |-> IF phase[r] \in Holding THEN ctxExp[r] ELSE 0]
ImplementsLease == L!Spec

-----------------------------------------------------------------------------
(* The inductive invariant behind LeaseBacked, conjunct by conjunct *)

Sending == {"acq_cas", "ren_cas", "rel_cas"}

\* An update that may still reach the ref was built on a commit that named its
\* run or was not valid (and never will be again); it locks for its own run, no
\* shorter than the lock it replaces, or unlocks a lock of its run.  A run that still waits built
\* on commits that were not valid, and only a run that releases unlocks.
Sound(q) ==
  /\ q.parent \in 1..Len(ref)
  /\ ref[q.parent].holder = q.run \/ ~Valid(ref[q.parent])
  /\ \/ q.lock = Unlocked /\ ref[q.parent].holder = q.run
     \/ q.lock.holder = q.run /\ q.lock.exp >= ref[q.parent].exp
  /\ q.lock.exp <= now + TTL
  /\ phase[q.run] \in Acquiring => ~Valid(ref[q.parent])
  /\ phase[q.run] \in Acquiring \union Holding => q.lock.holder = q.run

UpdatesSound(r) == /\ \A q \in wire : q.run = r => Sound(q)
                   /\ phase[r] \in Sending => sent[r].run = r /\ Sound(sent[r])

\* Renewals and releases build on a commit that names their run.
OwnParent(r) == /\ phase[r] \in {"ren_cas", "rel_cas"} => ref[sent[r].parent].holder = r
                /\ phase[r] = "rel_cas" => sent[r].lock = Unlocked

\* While a run still waits, a valid lock in its name can only be the head.
NotBuried(r) == phase[r] \in Acquiring =>
                  \A i \in 1..Len(ref) : ref[i].holder = r /\ i < Len(ref) => ref[i].exp <= now

NoLateUpdate(r) == \A q \in wire : q.run = r => q.parent < Len(ref)

\* Between the successful update and its confirmation.
Confirmable(r) == phase[r] = "acq_confirm" => /\ \E k \in 1..Len(ref) : ref[k] = sent[r].lock
                                              /\ sent[r].lock.holder = r
                                              /\ NoLateUpdate(r)

\* A run with a lease context cannot get the ref back by a late update once the
\* ref has passed to another run.
NoComeback(r) == phase[r] \in Holding =>
                   /\ Len(ref) > 0
                   /\ NoLateUpdate(r) \/ CurrentLock.holder = r

\* Nor can a run that has released.
Gone(r) == phase[r] = "released" => Len(ref) > 0 /\ CurrentLock.holder # r /\ NoLateUpdate(r)

RunInvariant(r) == /\ UpdatesSound(r) /\ OwnParent(r) /\ NotBuried(r)
                   /\ Confirmable(r) /\ NoComeback(r) /\ Gone(r) /\ Backed(r)

\* No lock outlasts TTL from now.
LeasesBounded == \A i \in 1..Len(ref) : ref[i].exp <= now + TTL

LeaseInvariant == LeasesBounded /\ \A r \in Runs : RunInvariant(r)
=============================================================================
