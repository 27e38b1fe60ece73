------------------------------- MODULE Lease -------------------------------
(***************************************************************************)
(* What the reviewer bot's lease lock promises, whatever protocol is used  *)
(* to keep the promise: one lock with an owner and an expiry, which only   *)
(* its owner may extend or free while it is valid, and a belief per        *)
(* workflow run (LeaseContext.lock_expires_at) that never outlives the     *)
(* lock it was learnt from.                                                *)
(***************************************************************************)
EXTENDS Naturals

CONSTANTS Runs,     \* workflow runs, each with a lock token of its own
          NoRun,    \* the owner of an unlocked lock
          TTL       \* lease time, in ticks

VARIABLES now,      \* the clock the runs read
          lock,     \* [holder, exp]
          belief    \* belief[r]: until when r takes the lock to be its own

leaseVars == <<now, lock, belief>>

Expired(l) == l.holder = NoRun \/ l.exp <= now

Init == /\ now = 0
        /\ lock = [holder |-> NoRun, exp |-> 0]
        /\ belief = [r \in Runs |-> 0]

\* A run takes a lock that is free or has run out.
Grant(r) == /\ Expired(lock)
            /\ \E e \in 0..now + TTL : lock' = [holder |-> r, exp |-> e]
            /\ UNCHANGED <<now, belief>>

\* The owner extends its lock, and may learn of it at once.
Extend(r) == /\ lock.holder = r
             /\ \E e \in lock.exp..now + TTL :
                  /\ lock' = [holder |-> r, exp |-> e]
                  /\ \/ UNCHANGED belief
                     \/ belief' = [belief EXCEPT ![r] = e]
             /\ UNCHANGED now

\* The owner gives the lock up; it has stopped relying on it.
Free(r) == /\ lock.holder = r
           /\ belief[r] = 0 
           /\ lock' = [holder |-> NoRun, exp |-> 0]
           /\ UNCHANGED <<now, belief>>

\* A run starts to rely on a lock it sees to be its own, or learns an expiry
\* that is already over.
Learn(r) == /\ belief'[r] \in Nat
            /\ belief'[r] <= now \/ (lock.holder = r /\ belief'[r] <= lock.exp)
            /\ belief' = [belief EXCEPT ![r] = belief'[r]]
            /\ UNCHANGED <<now, lock>>

\* A run stops relying on the lock: it starts to release it, or it dies.
Forget(r) == /\ belief' = [belief EXCEPT ![r] = 0]
             /\ UNCHANGED <<now, lock>>

Tick == now' = now + 1 /\ UNCHANGED <<lock, belief>>

Next == \/ Tick
        \/ \E r \in Runs : Grant(r) \/ Extend(r) \/ Free(r) \/ Learn(r) \/ Forget(r)

Spec == Init /\ [][Next]_leaseVars
=============================================================================
