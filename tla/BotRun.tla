------------------------------- MODULE BotRun -------------------------------
(***************************************************************************)
(* A mutating run of the reviewer bot: execute_run of                      *)
(* scripts/reviewer_bot_lib/app.py over load_state and save_state of       *)
(* state_store.py, under the lease lock of module LeaseLock.               *)
(*                                                                         *)
(* The bot's whole state is the body of one GitHub issue.  A run takes the *)
(* lease, reads the issue, lets the event's handler act on GitHub and      *)
(* change the state in memory, and writes the body back.  The PATCH is     *)
(* unconditional: GitHub keeps whichever body comes last.  Only the lease  *)
(* keeps one run from writing over another's update, and the lease is      *)
(* asked before the PATCH, not by it: nothing bounds how much later it     *)
(* takes effect.                                                           *)
(*                                                                         *)
(* The state is abstracted to the set of updates it contains (who made     *)
(* them, and whether it is the handler's change or what the label          *)
(* projection leaves behind: the marker that asks for a repair, or the     *)
(* epoch of a repair that is done) and to freshness_runtime_epoch, which   *)
(* an operator changes by editing the issue.  Reads of the issue return    *)
(* its last body.                                                          *)
(***************************************************************************)
EXTENDS LeaseLock

CONSTANT MaxMigrations    \* bound: epoch changes by the operator

ASSUME StoreAssumption == MaxMigrations \in Nat

VARIABLES store,     \* the state issue: [updates, epoch]
          pc,        \* where each run is in execute_run
          mem,       \* the run's copy of the state
          epoch,     \* loaded_epoch
          saves,     \* attempts of the current save_state
          vouched,   \* when the lease was last checked or its renewal built
          acted,     \* runs whose handler changed things on GitHub
          posts,     \* PATCHes given up by their runs, and still to take effect
          stored,    \* history: the updates that were ever in the state issue
          stray      \* history: a PATCH took effect when the lock, or its run, had moved on

issueVars == <<store, posts, stored, stray>>
runVars == <<issueVars, pc, mem, epoch, saves, vouched, acted>>
botVars == <<vars, runVars>>

Change(r) == <<r, "change">>
Marker(r) == <<r, "marker">>
Updates == {Change(r) : r \in Runs} \union {Marker(r) : r \in Runs}
State == [updates : SUBSET Updates, epoch : Nat]
Empty == [updates |-> {}, epoch |-> 0]

Post == [run : Runs, body : State]

With(s, u) == [s EXCEPT !.updates = @ \union {u}]

Saving == {"save", "receipt", "mark"}     \* inside save_state
Over   == {"ok", "error"}                 \* the try block of execute_run is left
Working == {"load", "handle", "check", "reload", "labels", "recheck"}

BotInit == /\ Init
           /\ store = Empty
           /\ pc = [r \in Runs |-> "load"]
           /\ mem = [r \in Runs |-> Empty]
           /\ epoch = [r \in Runs |-> 0]
           /\ saves = [r \in Runs |-> 0]
           /\ vouched = [r \in Runs |-> 0]
           /\ acted = {}
           /\ posts = {}
           /\ stored = {}
           /\ stray = FALSE

To(r, p) == pc' = [pc EXCEPT ![r] = p]

\* A step of execute_run between two uses of the lock.
Body(r, p) == phase[r] = "held" /\ pc[r] = p /\ UNCHANGED <<now, ref, wire, phase, since, sent, tries, ctxExp>>

\* A request to the state issue that fails for good makes the run fail.
ReadFails(r) == /\ Fault
                /\ To(r, "error")
                /\ UNCHANGED <<issueVars, mem, epoch, saves, vouched, acted>>

BadLoadWhileWaiting(r) ==
  /\ pc[r] = "load" /\ phase[r] \in {"acq_read", "held"}
  /\ To(r, "handle")
  /\ mem' = [mem EXCEPT ![r] = store]
  /\ epoch' = [epoch EXCEPT ![r] = store.epoch]
  /\ UNCHANGED <<vars, issueVars, saves, vouched, acted>>

\* load_state(fail_on_unavailable=True)
Load(r) ==
  /\ Body(r, "load")
  /\ \/ ReadFails(r)
     \/ /\ To(r, "handle")
        /\ mem' = [mem EXCEPT ![r] = store]
        /\ epoch' = [epoch EXCEPT ![r] = store.epoch]
        /\ UNCHANGED <<faults, issueVars, saves, vouched, acted>>

\* The handler: it may find nothing to record, it may act on GitHub and record
\* that in the state, and it may raise with or without having acted.
Handle(r) ==
  /\ Body(r, "handle")
  /\ \/ /\ To(r, "ok") \/ To(r, "labels")
        /\ UNCHANGED <<mem, acted>>
     \/ /\ To(r, "check")
        /\ mem' = [mem EXCEPT ![r] = With(@, Change(r))]
        /\ acted' = acted \union {r}
     \/ /\ To(r, "error")
        /\ UNCHANGED mem
        /\ acted' \in {acted, acted \union {r}}
  /\ UNCHANGED <<faults, issueVars, epoch, saves, vouched>>

EpochKept(r) == store.epoch = epoch[r]

\* _revalidate_epoch before save_state, for the handler's changes and for what
\* the label projection leaves behind.
Check(r) ==
  /\ \E p \in {"check", "recheck"} :
       /\ Body(r, p)
       /\ \/ ReadFails(r)
          \/ /\ IF ~EpochKept(r) THEN To(r, "error")
                  ELSE IF p = "check" THEN To(r, "save") ELSE To(r, "mark")
             /\ saves' = [saves EXCEPT ![r] = 1]
             /\ UNCHANGED <<faults, issueVars, mem, epoch, vouched, acted>>

\* The reload of the saved state when the run touched items.
Reload(r) ==
  /\ Body(r, "reload")
  /\ \/ ReadFails(r)
     \/ /\ To(r, "labels")
        /\ mem' = [mem EXCEPT ![r] = store]
        /\ UNCHANGED <<faults, issueVars, epoch, saves, vouched, acted>>

\* _revalidate_epoch, then the status labels of the touched items.  A failure
\* to set them, or the end of an epoch repair, is recorded in the state.
Labels(r) ==
  /\ Body(r, "labels")
  /\ \/ ReadFails(r)
     \/ /\ ~EpochKept(r)
        /\ To(r, "error")
        /\ UNCHANGED <<faults, issueVars, mem, epoch, saves, vouched, acted>>
     \/ /\ EpochKept(r)
        /\ \/ To(r, "ok") /\ mem' = mem
           \/ To(r, "recheck") /\ mem' = [mem EXCEPT ![r] = With(@, Marker(r))]
        /\ UNCHANGED <<faults, issueVars, epoch, saves, vouched, acted>>

-----------------------------------------------------------------------------
(* save_state *)

\* execute_run after save_state has answered True or False.
SaveSucceeded(r) == /\ IF pc[r] = "save" THEN To(r, "reload") \/ To(r, "ok")
                       ELSE IF pc[r] = "mark" THEN To(r, "ok") ELSE To(r, "error")
                    /\ saves' = [saves EXCEPT ![r] = 0]
BadSaveFailureIgnored(r) == To(r, "ok") /\ saves' = [saves EXCEPT ![r] = 0]
SaveFailed(r) == IF pc[r] = "save"
                   THEN To(r, "receipt") /\ saves' = [saves EXCEPT ![r] = 1]
                   ELSE To(r, "error") /\ saves' = [saves EXCEPT ![r] = 0]
SaveRetries(r) == /\ saves[r] < RetryLimit
                  /\ saves' = [saves EXCEPT ![r] = @ + 1]
                  /\ pc' = pc

\* ensure_state_issue_lease_lock_fresh answered False.
SaveRefused(r) ==
  /\ pc[r] \in Saving
  /\ phase[r] = "stale"
  /\ UseAnswer(r)
  /\ SaveFailed(r)
  /\ UNCHANGED <<issueVars, mem, epoch, vouched, acted>>

\* The run is still in the save that sends s, and the ref still names it.
StillSaving(r, s) == phase[r] \in Holding /\ CurrentLock.holder = r /\ pc[r] \in Saving /\ mem[r] = s

\* The issue gets the body s of run r, whatever it holds by now.
Lands(r, s) == /\ store' = s
               /\ stored' = stored \union s.updates
               /\ stray' = (stray \/ ~StillSaving(r, s))

\* It answered True: the issue is read, with retries, for the text around the
\* state block and the new body is sent, however much later that is.  An error
\* answer does not say whether it was stored, or will be.
Write(r) ==
  /\ pc[r] \in Saving
  /\ phase[r] = "fresh"
  /\ Go(r, "held")
  /\ \/ Lands(r, mem[r]) /\ SaveSucceeded(r) /\ UNCHANGED <<faults, posts>>
     \/ /\ Fault
        /\ \/ Lands(r, mem[r]) /\ posts' = posts
           \/ /\ UNCHANGED <<store, stored, stray>>
              /\ posts' \in {posts, posts \union {[run |-> r, body |-> mem[r]]}}
        /\ SaveRetries(r) \/ SaveFailed(r)
  /\ UNCHANGED <<now, ref, wire, since, sent, tries, ctxExp, mem, epoch, vouched, acted>>

\* A PATCH whose run was told of an error, or of nothing, takes effect after all.
LatePatch(p) ==
  /\ p \in posts
  /\ Lands(p.run, p.body)
  /\ posts' = posts \ {p}
  /\ UNCHANGED <<vars, pc, mem, epoch, saves, vouched, acted>>

-----------------------------------------------------------------------------
(* The lease steps of a run, where execute_run makes them *)

\* Where the answer True of EnsureFresh gets its age from.
Vouch(r) == vouched' = IF phase'[r] # "fresh" THEN vouched
                       ELSE [vouched EXCEPT ![r] = IF phase[r] = "held" THEN now
                                                   ELSE sent[r].lock.exp - TTL]

Acquire(r) ==
  /\ \/ StartAcquire(r) \/ AcquireTimesOut(r) \/ AcquireReadRaises(r) \/ AcquireCas(r)
     \/ \E i \in Readable : AcquireRead(r, i) \/ AcquireConfirm(r, i)
  /\ UNCHANGED runVars

AskFresh(r) ==
  /\ \/ pc[r] \in Saving /\ EnsureFresh(r)
     \/ RenewReadRaises(r) \/ RenewCas(r)
     \/ \E i \in Readable : RenewRead(r, i)
  /\ Vouch(r)
  /\ UNCHANGED <<issueVars, pc, mem, epoch, saves, acted>>

Release(r) ==
  /\ \/ pc[r] \in Over /\ StartRelease(r)
     \/ ReleaseReadRaises(r) \/ ReleaseCas(r)
     \/ \E i \in Readable : ReleaseRead(r, i)
  /\ UNCHANGED runVars

Killed(r) == Crash(r) /\ UNCHANGED runVars

\* An operator edits the state issue by hand; the lease is not asked.
Migrate == /\ store.epoch < MaxMigrations
           /\ store' = [store EXCEPT !.epoch = @ + 1]
           /\ UNCHANGED <<vars, pc, mem, epoch, saves, vouched, acted, posts, stored, stray>>

BotNext == \/ \E r \in Runs : \/ Acquire(r) \/ AskFresh(r) \/ Release(r) \/ Killed(r)
                              \/ Load(r) \/ Handle(r) \/ Check(r) \/ Reload(r) \/ Labels(r)
                              \/ SaveRefused(r) \/ Write(r)
           \/ Tick /\ UNCHANGED runVars
           \/ (\E q \in wire : LateUpdate(q)) /\ UNCHANGED runVars
           \/ \E p \in posts : LatePatch(p)
           \/ Migrate

BotSpec == BotInit /\ [][BotNext]_botVars

-----------------------------------------------------------------------------
(* Properties *)

BotTypeOK == /\ TypeOK
             /\ store \in State
             /\ pc \in [Runs -> Working \union Saving \union Over]
             /\ mem \in [Runs -> State]
             /\ epoch \in [Runs -> Nat]
             /\ saves \in [Runs -> 0..RetryLimit]
             /\ vouched \in [Runs -> Nat]
             /\ acted \subseteq Runs
             /\ posts \subseteq Post
             /\ stored \subseteq Updates
             /\ stray \in BOOLEAN

\* What one run has saved, no other run's unconditional PATCH takes away: an
\* update is lost only after a PATCH took effect that was too late, when the
\* lock had already passed on or its run had given it up (save_state: the time
\* from the check of the lease to the PATCH has no bound).
NoLostUpdate == stray \/ stored \subseteq store.updates

\* A run that changed things on GitHub and leaves its try block without an
\* error has got its change into the state issue, and unless a PATCH was too
\* late it is still there.
NoSilentSuccess == /\ BotTypeOK
                   /\ \A r \in acted : pc[r] = "ok" => /\ Change(r) \in stored
                                                      /\ (stray \/ Change(r) \in store.updates)

\* What ensure_state_issue_lease_lock_fresh is worth: its answer True covers a
\* PATCH for LOCK_RENEWAL_WINDOW_SECONDS, counted from the check or from when
\* the renewal was built.  One sent by then finds the lock on the ref its run's
\* own and unexpired, whatever was lost, late or done by others meanwhile.
WrittenUnderLease ==
  [][\A r \in Runs : /\ pc[r] \in Saving /\ phase[r] = "fresh" /\ phase'[r] = "held"
                     /\ now <= vouched[r] + Window
        => CurrentLock.holder = r /\ CurrentLock.exp > now]_botVars
=============================================================================
