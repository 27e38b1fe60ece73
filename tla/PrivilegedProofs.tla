--------------------------- MODULE PrivilegedProofs ---------------------------
(***************************************************************************)
(* What Privileged promises, for every FLS, every number of commands, days *)
(* and deployments, and any number of calls that fail.                     *)
(***************************************************************************)
EXTENDS Privileged, FiniteSetTheorems, TLAPS

-----------------------------------------------------------------------------
(* The inductive invariant.                                                *)

\* What a run has in hand in each of its phases.
RunSound ==
    /\ phase # "idle" => key \in Keys
    /\ phase \in {"checkout", "audit", "update", "push"} => tree \in Trees
    /\ phase \in {"update", "push"} => audited \in Documents
    /\ phase = "push" => draft \in Locks
    /\ phase = "save" => outcome \in Records

\* An open pull request is for the branch that is there.
BranchesSound ==
    /\ \A p \in pulls : p.state = "open" =>
          /\ branch[p.day] # None
          /\ branch[p.day].key = p.key
    /\ phase = "pull" /\ branch[day] # None => branch[day].key = key

\* What the run found out goes on holding of what it has in hand.
FindingsHold ==
    /\ phase \in {"audit", "update", "push"} => entitled
    /\ phase \in {"update", "push"} => Affected(audited, tree.lock.doc, tree.cites) = {}

Busy == phase \in {"audit", "update", "push", "pull", "save"}

\* A run works on a pending record, which nobody else changes meanwhile.
RecordsSound ==
    /\ Busy => saved[key] # None /\ saved[key].status = "pending"
    /\ \A k \in Keys : saved[k] # None => k \in recorded

\* The record that is saved, and the one that is about to be, are true.
Told(result, k, d) ==
    result = "opened_pull_request" => \E p \in pulls : p.key = k /\ p.day = d
OutcomesTrue ==
    /\ \A k \in Keys : saved[k] # None => Told(saved[k].result, k, saved[k].pull)
    /\ phase = "save" => Told(outcome.result, key, outcome.pull)

Own(k) == {p \in pulls : p.key = k /\ p.by = "bot"}

\* A command that has its pull request is not pending any more, or the run
\* that opened it is about to say so.
OnceSound ==
    /\ \A k \in Keys : Own(k) # {} => k \in recorded
    /\ \A k \in Keys \ torn :
          /\ \A p, q \in Own(k) : p = q
          /\ Own(k) # {} =>
                \/ saved[k] = None
                \/ saved[k].status = "executed"
                \/ phase = "save" /\ key = k /\ outcome.status = "executed"

Inv == PrivilegedTypeOK /\ RunSound /\ BranchesSound /\ FindingsHold
          /\ RecordsSound /\ OutcomesTrue /\ OnceSound

-----------------------------------------------------------------------------
(* Facts about the definitions.                                            *)

\* A comparison that reaches no cited id leaves every cited paragraph as it
\* was.
LEMMA UnaffectedIsIntact ==
    ASSUME NEW new, NEW old, NEW cites, Affected(new, old, cites) = {}
    PROVE  Intact(old, new, cites)
BY DEF Affected, Differing, Removed, Changed, Intact

LEMMA UpdatedIsLock ==
    ASSUME NEW doc \in Documents, NEW at \in Deployments \cup {None}, NEW lock \in Locks
    PROVE  Updated(doc, at, lock) \in Locks
BY DEF Updated, Locks

LEMMA CitedAreIds ==
    ASSUME NEW doc \in Documents
    PROVE  Known(doc) \subseteq Ids
BY DEF Documents, Known, Ids

-----------------------------------------------------------------------------
LEMMA InitInv == Init => Inv
<1> SUFFICES ASSUME Init PROVE Inv OBVIOUS
<1> USE DEF Init, AtRest
<1>1. FirstLock \in Locks /\ 0 \in Deployments /\ 0 \in Days /\ 0 \in 0..MaxFaults
  BY PrivilegedAssumption DEF FirstLock, Locks, Deployments, Days
<1>2. PrivilegedTypeOK
  BY <1>1, PrivilegedAssumption DEF PrivilegedTypeOK, Trees, Phases
<1>3. RunSound /\ BranchesSound /\ FindingsHold /\ RecordsSound /\ OutcomesTrue
  BY DEF RunSound, BranchesSound, FindingsHold, RecordsSound, OutcomesTrue, Busy
<1>4. OnceSound BY DEF OnceSound, Own
<1> QED BY <1>2, <1>3, <1>4 DEF Inv
-----------------------------------------------------------------------------
(* Every step keeps the types, and what a run has in hand.                 *)

LEMMA WorldTyped ==
    ASSUME Inv,
           \/ Deploy \/ Tomorrow \/ Allow \/ CloseIssue \/ MergeGuideline
           \/ \E d \in Days : MergePull(d)
           \/ OpenByHand
    PROVE  PrivilegedTypeOK' /\ RunSound'
<1> USE DEF Inv, PrivilegedTypeOK, world, records, remote, run
<1>1. CASE Deploy
  <2>1. PICK doc \in Edits(live.doc) : live' = [doc |-> doc, at |-> live.at + 1]
    BY <1>1 DEF Deploy
  <2>2. doc \in Documents /\ live.at + 1 \in Deployments
    BY <1>1, PrivilegedAssumption DEF Edits, Deploy, Deployments
  <2> QED BY <1>1, <2>1, <2>2 DEF Deploy, RunSound
<1>2. CASE Tomorrow
  <2>1. today' \in Days BY <1>2, PrivilegedAssumption DEF Tomorrow, Days
  <2> QED BY <1>2, <2>1 DEF Tomorrow, RunSound
<1>3. CASE Allow BY <1>3 DEF Allow, RunSound
<1>4. CASE CloseIssue BY <1>4 DEF CloseIssue, RunSound
<1>5. CASE MergeGuideline
  <2>1. PICK id \in Known(live.doc) \ main.cites,
             lock \in {main.lock, Updated(live.doc, live.at, main.lock)} :
                main' = [lock |-> lock, cites |-> main.cites \cup {id}]
    BY <1>5 DEF MergeGuideline
  <2>2. main.lock \in Locks /\ main.cites \in SUBSET Ids BY DEF Trees
  <2>3. lock \in Locks BY <2>1, <2>2, UpdatedIsLock
  <2>4. id \in Ids BY CitedAreIds
  <2>5. main' \in Trees BY <2>1, <2>2, <2>3, <2>4 DEF Trees
  <2> QED BY <1>5, <2>5 DEF MergeGuideline, RunSound
<1>6. CASE \E d \in Days : MergePull(d)
  <2>1. PICK d \in Days : MergePull(d) BY <1>6
  <2>2. branch[d] \in Branches
    BY <2>1 DEF MergePull, OpenPull, BranchesSound, Pulls
  <2>3. main' \in Trees BY <2>1, <2>2 DEF MergePull, Trees, Branches
  <2>4. pulls' \in SUBSET Pulls BY <2>1 DEF MergePull, OpenPull, Pulls
  <2>5. branch' \in [Days -> Branches \cup {None}] BY <2>1 DEF MergePull
  <2>6. issue' \in [open : BOOLEAN, allowed : BOOLEAN] BY <2>1 DEF MergePull
  <2> QED BY <2>1, <2>3, <2>4, <2>5, <2>6 DEF MergePull, RunSound
<1>7. CASE OpenByHand
  <2>1. pulls' \in SUBSET Pulls BY <1>7 DEF OpenByHand, Pulls, RunSound
  <2> QED BY <1>7, <2>1 DEF OpenByHand, RunSound
<1> QED BY <1>1, <1>2, <1>3, <1>4, <1>5, <1>6, <1>7

LEMMA BotTyped ==
    ASSUME Inv,
           \/ \E k \in Keys : RecordCommand(k) \/ Dispatch(k)
           \/ ForgetIssue
    PROVE  PrivilegedTypeOK' /\ RunSound'
<1> USE DEF Inv, PrivilegedTypeOK, world, records, remote, run
<1>1. CASE \E k \in Keys : RecordCommand(k)
  <2>1. PICK k \in Keys : RecordCommand(k) BY <1>1
  <2>2. Pending \in Records BY DEF Pending, Records
  <2> QED BY <2>1, <2>2 DEF RecordCommand, RunSound
<1>2. CASE \E k \in Keys : Dispatch(k)
  BY <1>2 DEF Dispatch, RunSound, Phases
<1>3. CASE ForgetIssue BY <1>3 DEF ForgetIssue, RunSound
<1> QED BY <1>1, <1>2, <1>3

\* Where a run settles on a result, and where it ends.
LEMMA SettlesTyped ==
    ASSUME PrivilegedTypeOK, key \in Keys,
           NEW status \in {"pending", "executed", "failed_closed"},
           NEW result \in Results, NEW d \in Days \cup {None},
           Settles(status, result, d)
    PROVE  /\ phase' \in Phases /\ key' \in Keys
           /\ tree' = None /\ audited' = None /\ draft' = None /\ day' \in Days
           /\ entitled' = FALSE /\ outcome' \in Records /\ phase' = "save"
           /\ outcome' = [status |-> status, result |-> result, pull |-> d]
BY PrivilegedAssumption DEF PrivilegedTypeOK, Settles, Forgotten, Phases, Days, Records

LEMMA RunEndsTyped ==
    ASSUME PrivilegedTypeOK, RunEnds
    PROVE  /\ phase' = "idle" /\ phase' \in Phases /\ key' = None
           /\ tree' = None /\ audited' = None /\ draft' = None /\ day' \in Days
           /\ entitled' = FALSE /\ outcome' = None
BY PrivilegedAssumption DEF RunEnds, Forgotten, Phases, Days

LEMMA FaultsTyped ==
    ASSUME PrivilegedTypeOK, Fault \/ NoFault
    PROVE  faults' \in 0..MaxFaults
BY PrivilegedAssumption DEF PrivilegedTypeOK, Fault, NoFault

LEMMA FailsSettles ==
    ASSUME NEW result \in Results, Fails(result)
    PROVE  Settles("failed_closed", result, None)
BY DEF Fails

LEMMA RunTyped ==
    ASSUME Inv, Check \/ Audit \/ Update \/ Push \/ Pull \/ Save
    PROVE  PrivilegedTypeOK' /\ RunSound'
<1> USE DEF Inv, world, records, remote
<1> PrivilegedTypeOK OBVIOUS
<1>1. CASE Check
  <2>1. key \in Keys /\ tree \in Trees BY <1>1 DEF Check, RunSound
  <2>2. faults' \in 0..MaxFaults BY <1>1, FaultsTyped DEF Check
  <2>3. CASE RunEnds
    BY <1>1, <2>2, <2>3, RunEndsTyped DEF Check, RunSound, PrivilegedTypeOK
  <2>4. CASE Fails("authorization")
    <3>1. Settles("failed_closed", "authorization", None) BY <2>4, FailsSettles DEF Results
    <3> QED BY <1>1, <2>1, <2>2, <3>1, SettlesTyped DEF Check, RunSound, PrivilegedTypeOK, Results
  <2>5. CASE phase' = "audit" /\ entitled' = issue.allowed
                /\ UNCHANGED <<key, tree, audited, draft, day, outcome>>
    BY <1>1, <2>1, <2>2, <2>5 DEF Check, RunSound, PrivilegedTypeOK, Phases
  <2> QED BY <1>1, <2>3, <2>4, <2>5 DEF Check
<1>2. CASE Audit
  <2>1. key \in Keys /\ tree \in Trees /\ live.doc \in Documents
    BY <1>2 DEF Audit, RunSound, PrivilegedTypeOK
  <2>2. faults' \in 0..MaxFaults BY <1>2, FaultsTyped DEF Audit
  <2>3. CASE \E result \in Results : Fails(result)
    <3>1. PICK result \in Results : Settles("failed_closed", result, None)
      BY <2>3, FailsSettles
    <3> QED BY <1>2, <2>1, <2>2, <3>1, SettlesTyped DEF Audit, RunSound, PrivilegedTypeOK
  <2>4. CASE phase' = "update" /\ audited' = live.doc
                /\ UNCHANGED <<key, tree, draft, day, entitled, outcome>>
    BY <1>2, <2>1, <2>2, <2>4 DEF Audit, RunSound, PrivilegedTypeOK, Phases
  <2> QED BY <1>2, <2>3, <2>4 DEF Audit, Results
<1>3. CASE Update
  <2>1. /\ key \in Keys /\ tree \in Trees /\ audited \in Documents
        /\ tree.lock \in Locks /\ live.doc \in Documents /\ live.at \in Deployments
    BY <1>3 DEF Update, RunSound, PrivilegedTypeOK, Trees
  <2>2. faults' \in 0..MaxFaults BY <1>3, FaultsTyped DEF Update
  <2>3. CASE Fails("update_failed")
    <3>1. Settles("failed_closed", "update_failed", None) BY <2>3, FailsSettles DEF Results
    <3> QED BY <1>3, <2>1, <2>2, <3>1, SettlesTyped DEF Update, RunSound, PrivilegedTypeOK, Results
  <2>4. CASE Settles("executed", "already_up_to_date", None)
    BY <1>3, <2>1, <2>2, <2>4, SettlesTyped DEF Update, RunSound, PrivilegedTypeOK, Results
  <2>5. CASE /\ phase' = "push" /\ day' = today /\ UNCHANGED <<key, tree, audited, entitled, outcome>>
             /\ \E d \in {live.at, None} : draft' = Updated(live.doc, d, tree.lock)
    <3>1. draft' \in Locks BY <2>1, <2>5, UpdatedIsLock
    <3> QED BY <1>3, <2>1, <2>2, <2>5, <3>1 DEF Update, RunSound, PrivilegedTypeOK, Phases
  <2> QED BY <1>3, <2>3, <2>4, <2>5 DEF Update
<1>4. CASE Push
  <2>1. /\ key \in Keys /\ tree \in Trees /\ draft \in Locks /\ tree.lock \in Locks
        /\ day \in Days
    BY <1>4 DEF Push, RunSound, PrivilegedTypeOK, Trees
  <2>2. faults' \in 0..MaxFaults BY <1>4, FaultsTyped DEF Push
  <2>3. CASE Fails("branch_or_push_failed") /\ UNCHANGED branch
    <3>1. Settles("failed_closed", "branch_or_push_failed", None)
      BY <2>3, FailsSettles DEF Results
    <3> QED BY <1>4, <2>1, <2>2, <2>3, <3>1, SettlesTyped DEF Push, RunSound, PrivilegedTypeOK, Results
  <2>4. CASE /\ branch' = [branch EXCEPT ![day] = [lock |-> draft, base |-> tree.lock, key |-> key]]
             /\ phase' = "pull" /\ Forgotten /\ UNCHANGED <<key, day, outcome>>
    <3>1. branch' \in [Days -> Branches \cup {None}]
      BY <2>1, <2>4 DEF PrivilegedTypeOK, Branches
    <3> QED BY <1>4, <2>1, <2>2, <2>4, <3>1
          DEF Push, RunSound, PrivilegedTypeOK, Phases, Forgotten
  <2> QED BY <1>4, <2>3, <2>4 DEF Push
<1>5. CASE Pull
  <2>1. key \in Keys /\ day \in Days BY <1>5 DEF Pull, RunSound, PrivilegedTypeOK
  <2>2. faults' \in 0..MaxFaults BY <1>5, FaultsTyped DEF Pull
  <2>3. pulls' \in SUBSET Pulls
    BY <1>5, <2>1 DEF Pull, PrivilegedTypeOK, Opened, Pulls
  <2>4. torn' \in SUBSET Keys BY <1>5, <2>1 DEF Pull, PrivilegedTypeOK
  <2>5. CASE RunEnds
    BY <1>5, <2>2, <2>3, <2>4, <2>5, RunEndsTyped DEF Pull, RunSound, PrivilegedTypeOK
  <2>6. CASE Settles("executed", "opened_pull_request", day)
    BY <1>5, <2>1, <2>2, <2>3, <2>4, <2>6, SettlesTyped
       DEF Pull, RunSound, PrivilegedTypeOK, Results
  <2>7. CASE Fails("pull_request_creation_failed")
    <3>1. Settles("failed_closed", "pull_request_creation_failed", None)
      BY <2>7, FailsSettles DEF Results
    <3> QED BY <1>5, <2>1, <2>2, <2>3, <2>4, <3>1, SettlesTyped
           DEF Pull, RunSound, PrivilegedTypeOK, Results
  <2> QED BY <1>5, <2>5, <2>6, <2>7 DEF Pull
<1>6. CASE Save
  <2>1. key \in Keys /\ outcome \in Records BY <1>6 DEF Save, RunSound
  <2>2. faults' \in 0..MaxFaults BY <1>6, FaultsTyped DEF Save
  <2>3. RunEnds BY <1>6 DEF Save
  <2>4. saved' \in [Keys -> Records \cup {None}] /\ torn' \in SUBSET Keys
    BY <1>6, <2>1 DEF Save, PrivilegedTypeOK
  <2> QED BY <1>6, <2>2, <2>3, <2>4, RunEndsTyped DEF Save, RunSound, PrivilegedTypeOK
<1> QED BY <1>1, <1>2, <1>3, <1>4, <1>5, <1>6

LEMMA StepTyped == Inv /\ Next => PrivilegedTypeOK' /\ RunSound'
BY WorldTyped, BotTyped, RunTyped DEF Next

-----------------------------------------------------------------------------
(* Every step keeps the branches in line with the open pull requests.      *)

LEMMA StepBranches == Inv /\ Next => BranchesSound'
<1> SUFFICES ASSUME Inv, Next PROVE BranchesSound' OBVIOUS
<1> USE DEF Inv, world, records, remote, run
<1>1. CASE \E d \in Days : MergePull(d)
  <2>1. PICK d \in Days : MergePull(d) BY <1>1
  <2>2. \A p \in pulls' : p.state = "open" => p \in pulls /\ p.day # d
    BY <2>1 DEF MergePull, OpenPull, PrivilegedTypeOK, Pulls
  <2>3. branch' \in {branch, [branch EXCEPT ![d] = None]} /\ branch \in [Days -> Branches \cup {None}]
    BY <2>1 DEF MergePull, PrivilegedTypeOK
  <2>4. \A e \in Days : e # d => branch'[e] = branch[e] BY <2>3
  <2>5. branch'[d] \in {branch[d], None} BY <2>3
  <2>6. \A p \in pulls : p.day \in Days BY DEF PrivilegedTypeOK, Pulls
  <2> QED BY <2>1, <2>2, <2>4, <2>5, <2>6 DEF MergePull, BranchesSound, PrivilegedTypeOK
<1>2. CASE OpenByHand
  BY <1>2 DEF OpenByHand, BranchesSound
<1>3. CASE Push
  <2>1. CASE UNCHANGED branch /\ Fails("branch_or_push_failed")
    BY <1>3, <2>1 DEF Push, BranchesSound, Fails, Settles
  <2>2. CASE /\ branch[day] = None /\ phase' = "pull" /\ UNCHANGED <<key, day>>
             /\ branch' = [branch EXCEPT ![day] = [lock |-> draft, base |-> tree.lock, key |-> key]]
    <3>1. day \in Days /\ \A p \in pulls : p.day \in Days BY DEF PrivilegedTypeOK, Pulls
    <3>2. branch'[day].key = key /\ \A e \in Days : e # day => branch'[e] = branch[e]
      BY <2>2, <3>1 DEF PrivilegedTypeOK
    <3>3. \A p \in pulls : p.state = "open" => p.day # day BY <2>2 DEF BranchesSound
    <3> QED BY <1>3, <2>2, <3>1, <3>2, <3>3 DEF Push, BranchesSound
  <2> QED BY <1>3, <2>1, <2>2 DEF Push
<1>4. CASE Pull
  <2>1. UNCHANGED branch /\ phase = "pull" /\ phase' \in {"idle", "save"}
    BY <1>4 DEF Pull, RunEnds, Settles, Fails
  <2>2. \A p \in pulls' : p \in pulls \/ (p = Opened /\ branch[day] # None)
    BY <1>4 DEF Pull, Proposable
  <2> QED BY <2>1, <2>2 DEF BranchesSound, Opened
<1>5. CASE Check \/ Audit \/ Update \/ Save
  <2>1. UNCHANGED <<branch, pulls>> /\ phase' # "pull"
    BY <1>5 DEF Check, Audit, Update, Save, RunEnds, Settles, Fails
  <2> QED BY <2>1 DEF BranchesSound
<1>6. CASE \E k \in Keys : Dispatch(k)
  BY <1>6 DEF Dispatch, BranchesSound
<1>7. CASE \/ Deploy \/ Tomorrow \/ Allow \/ CloseIssue \/ MergeGuideline \/ ForgetIssue
           \/ \E k \in Keys : RecordCommand(k)
  <2>1. UNCHANGED <<branch, pulls, phase, key, day>>
    BY <1>7 DEF Deploy, Tomorrow, Allow, CloseIssue, MergeGuideline, ForgetIssue, RecordCommand
  <2> QED BY <2>1 DEF BranchesSound
<1> QED BY <1>1, <1>2, <1>3, <1>4, <1>5, <1>6, <1>7 DEF Next

-----------------------------------------------------------------------------
(* Every step keeps what the run has found out.                            *)

\* The steps between which the run is at rest.
OthersAct ==
    \/ Deploy \/ Tomorrow \/ Allow \/ CloseIssue \/ MergeGuideline
    \/ \E d \in Days : MergePull(d)
    \/ \E k \in Keys : RecordCommand(k)
    \/ OpenByHand \/ ForgetIssue

LEMMA OthersLeaveRun == OthersAct => UNCHANGED run
BY DEF OthersAct, Deploy, Tomorrow, Allow, CloseIssue, MergeGuideline, MergePull,
       RecordCommand, OpenByHand, ForgetIssue

LEMMA StepFindings == Inv /\ Next => FindingsHold'
<1> SUFFICES ASSUME Inv, Next PROVE FindingsHold' OBVIOUS
<1> USE DEF Inv, FindingsHold
<1>1. CASE OthersAct BY <1>1, OthersLeaveRun DEF run
<1>2. CASE \E k \in Keys : Dispatch(k) BY <1>2 DEF Dispatch
<1>3. CASE Check BY <1>3 DEF Check, RunEnds, Fails, Settles, Allowed, PrivilegedTypeOK
<1>4. CASE Audit BY <1>4 DEF Audit, Fails, Settles
<1>5. CASE Update BY <1>5 DEF Update, Fails, Settles
<1>6. CASE Push \/ Pull \/ Save
  BY <1>6 DEF Push, Pull, Save, RunEnds, Fails, Settles
<1> QED BY <1>1, <1>2, <1>3, <1>4, <1>5, <1>6 DEF Next, OthersAct

-----------------------------------------------------------------------------
(* Every step keeps the record of the run's command pending.               *)

LEMMA StepRecords == Inv /\ Next => RecordsSound'
<1> SUFFICES ASSUME Inv, Next PROVE RecordsSound' OBVIOUS
<1> USE DEF Inv, RecordsSound, Busy
<1>1. CASE \E k \in Keys : RecordCommand(k)
  <2>1. PICK k \in Keys : RecordCommand(k) BY <1>1
  <2>2. ~ Busy' BY <2>1 DEF RecordCommand, LeaseFree, run
  <2>3. \A j \in Keys : saved'[j] # None => j \in recorded'
    BY <2>1 DEF RecordCommand, PrivilegedTypeOK
  <2> QED BY <2>2, <2>3
<1>2. CASE ForgetIssue BY <1>2 DEF ForgetIssue, LeaseFree, run
<1>3. CASE Save
  <2>1. key \in Keys /\ key \in recorded BY <1>3 DEF Save, RunSound
  <2>2. phase' = "idle" /\ recorded' = recorded BY <1>3 DEF Save, RunEnds
  <2>3. saved' \in {saved, [saved EXCEPT ![key] = outcome]} BY <1>3 DEF Save
  <2> QED BY <2>1, <2>2, <2>3 DEF PrivilegedTypeOK
<1>4. CASE Check
  BY <1>4 DEF Check, Executable, RunEnds, Fails, Settles, records
<1>5. CASE Audit \/ Update \/ Push \/ Pull
  BY <1>5 DEF Audit, Update, Push, Pull, RunEnds, Fails, Settles, records
<1>6. CASE \E k \in Keys : Dispatch(k) BY <1>6 DEF Dispatch, records
<1>7. CASE \/ Deploy \/ Tomorrow \/ Allow \/ CloseIssue \/ MergeGuideline \/ OpenByHand
           \/ \E d \in Days : MergePull(d)
  <2>1. UNCHANGED <<saved, recorded, run>>
    BY <1>7 DEF Deploy, Tomorrow, Allow, CloseIssue, MergeGuideline, OpenByHand, MergePull, records
  <2> QED BY <2>1 DEF run
<1> QED BY <1>1, <1>2, <1>3, <1>4, <1>5, <1>6, <1>7 DEF Next

-----------------------------------------------------------------------------
(* Every step keeps the records true.                                      *)

\* A pull request may be merged, it does not go away.
LEMMA PullsStay ==
    ASSUME Inv, Next, NEW k, NEW d, \E p \in pulls : p.key = k /\ p.day = d
    PROVE  \E p \in pulls' : p.key = k /\ p.day = d
<1> USE DEF Inv, world, records, remote, run
<1>1. PICK p \in pulls : p.key = k /\ p.day = d OBVIOUS
<1>2. CASE \E e \in Days : MergePull(e)
  <2>1. PICK e \in Days : MergePull(e) BY <1>2
  <2> DEFINE m == IF p \in OpenPull(e) THEN [p EXCEPT !.state = "merged"] ELSE p
  <2>2. m \in pulls' BY <1>1, <2>1 DEF MergePull
  <2>3. m.key = k /\ m.day = d BY <1>1 DEF PrivilegedTypeOK, Pulls
  <2> QED BY <2>2, <2>3
<1>3. CASE ~ \E e \in Days : MergePull(e)
  <2>1. pulls \subseteq pulls'
    BY <1>3 DEF Next, Deploy, Tomorrow, Allow, CloseIssue, MergeGuideline, OpenByHand,
                RecordCommand, Dispatch, ForgetIssue, Check, Audit, Update, Push, Pull, Save
  <2> QED BY <1>1, <2>1
<1> QED BY <1>2, <1>3

LEMMA StepOutcomes == Inv /\ Next => OutcomesTrue'
<1> SUFFICES ASSUME Inv, Next PROVE OutcomesTrue' OBVIOUS
<1> USE DEF Inv, OutcomesTrue
<1> PrivilegedTypeOK OBVIOUS
<1>1. \A k \in Keys : saved[k] # None => Told(saved[k].result, k, saved[k].pull)'
                                         \/ saved'[k] # saved[k]
  <2> SUFFICES ASSUME NEW k \in Keys, saved[k] # None, saved'[k] = saved[k]
               PROVE  Told(saved[k].result, k, saved[k].pull)'
    OBVIOUS
  <2>1. Told(saved[k].result, k, saved[k].pull) OBVIOUS
  <2> QED BY <2>1, PullsStay DEF Told
<1>2. \A k \in Keys : saved'[k] # saved[k] /\ saved'[k] # None => Told(saved[k].result, k, saved[k].pull)'
  <2> SUFFICES ASSUME NEW k \in Keys, saved'[k] # saved[k], saved'[k] # None
               PROVE  Told(saved[k].result, k, saved[k].pull)'
    OBVIOUS
  <2>1. CASE \E j \in Keys : RecordCommand(j)
    <3>1. saved'[k] = Pending BY <2>1 DEF RecordCommand, PrivilegedTypeOK
    <3> QED BY <3>1, PrivilegedAssumption DEF Pending, Told, Results
  <2>2. CASE ForgetIssue BY <2>2 DEF ForgetIssue
  <2>3. CASE Save
    <3>1. k = key /\ saved'[k] = outcome /\ UNCHANGED pulls
      BY <2>3 DEF Save, PrivilegedTypeOK, remote
    <3> QED BY <2>3, <3>1 DEF Save, Told
  <2>4. CASE UNCHANGED saved BY <2>4
  <2> QED BY <2>1, <2>2, <2>3, <2>4 DEF Next, Deploy, Tomorrow, Allow, CloseIssue, MergeGuideline,
        MergePull, OpenByHand, Dispatch, Check, Audit, Update, Push, Pull, records
<1>3. phase' = "save" => Told(outcome.result, key, outcome.pull)'
  <2> SUFFICES ASSUME phase' = "save" PROVE Told(outcome.result, key, outcome.pull)'
    OBVIOUS
  <2>1. CASE OthersAct
    <3>1. phase = "save" /\ UNCHANGED <<outcome, key>> BY <2>1, OthersLeaveRun DEF run
    <3> QED BY <3>1, PullsStay DEF Told
  <2>2. CASE Pull
    <3>1. CASE Settles("executed", "opened_pull_request", day)
      <4>1. key' = key /\ outcome'.pull = day BY <3>1 DEF Settles
      <4>2. CASE OpenPull(day) # {} /\ UNCHANGED pulls
        BY <2>2, <4>1, <4>2 DEF Told, OpenPull, BranchesSound, Pull
      <4>3. CASE Opened \in pulls'
        BY <4>1, <4>3 DEF Told, Opened
      <4> QED BY <2>2, <3>1, <4>2, <4>3 DEF Pull, Settles, Fails, RunEnds
    <3>2. CASE Fails("pull_request_creation_failed")
      BY <3>2 DEF Fails, Settles, Told
    <3> QED BY <2>2, <3>1, <3>2 DEF Pull, RunEnds
  <2>3. CASE \E k \in Keys : Dispatch(k) BY <2>3 DEF Dispatch
  <2>4. CASE Check \/ Audit \/ Update \/ Push \/ Save
    <3>1. outcome'.result # "opened_pull_request"
      BY <2>4 DEF Check, Audit, Update, Push, Save, Fails, Settles, RunEnds
    <3> QED BY <3>1 DEF Told
  <2> QED BY <2>1, <2>2, <2>3, <2>4 DEF Next, OthersAct
<1> QED BY <1>1, <1>2, <1>3

-----------------------------------------------------------------------------
(* Every step keeps a command to one pull request.                         *)

LEMMA StepOnce == Inv /\ Next => OnceSound'
<1> SUFFICES ASSUME Inv, Next PROVE OnceSound' OBVIOUS
<1> USE DEF Inv
<1> DEFINE Kept(k) == /\ Own(k)' # {} => k \in recorded'
                      /\ k \notin torn' =>
                            /\ \A p, q \in Own(k)' : p = q
                            /\ Own(k)' # {} =>
                                  \/ saved'[k] = None
                                  \/ saved'[k].status = "executed"
                                  \/ phase' = "save" /\ key' = k /\ outcome'.status = "executed"
<1> SUFFICES ASSUME NEW k \in Keys PROVE Kept(k) BY DEF OnceSound
<1>0. /\ Own(k) # {} => k \in recorded
      /\ k \notin torn =>
            /\ \A p, q \in Own(k) : p = q
            /\ Own(k) # {} =>
                  \/ saved[k] = None
                  \/ saved[k].status = "executed"
                  \/ phase = "save" /\ key = k /\ outcome.status = "executed"
  BY DEF OnceSound
<1>1. CASE \E d \in Days : MergePull(d)
  <2>1. PICK d \in Days : MergePull(d) BY <1>1
  <2> DEFINE m(p) == IF p \in OpenPull(d) THEN [p EXCEPT !.state = "merged"] ELSE p
  <2>2. \A p \in pulls : m(p).key = p.key /\ m(p).by = p.by BY DEF PrivilegedTypeOK, Pulls
  <2>3. pulls' = {m(p) : p \in pulls} BY <2>1 DEF MergePull
  <2>4. \A r \in Own(k)' : \E p \in Own(k) : r = m(p)
    <3> HIDE DEF m
    <3> QED BY <2>2, <2>3 DEF Own
  <2>5. UNCHANGED <<records, run>> BY <2>1 DEF MergePull
  <2> HIDE DEF m
  <2>6. Own(k)' # {} => Own(k) # {} BY <2>4
  <2>7. (\A p, q \in Own(k) : p = q) => \A r, t \in Own(k)' : r = t BY <2>4
  <2> QED BY <1>0, <2>5, <2>6, <2>7 DEF records, run
<1>2. CASE OpenByHand
  <2>1. Own(k)' = Own(k) BY <1>2 DEF OpenByHand, Own
  <2> QED BY <1>0, <1>2, <2>1 DEF OpenByHand, records, run
<1>3. CASE \E j \in Keys : RecordCommand(j)
  <2>1. PICK j \in Keys : RecordCommand(j) BY <1>3
  <2>2. Own(k)' = Own(k) BY <2>1 DEF RecordCommand, Own, remote
  <2>3. CASE j = k BY <1>0, <2>1, <2>2, <2>3 DEF RecordCommand
  <2>4. CASE j # k
    <3>1. saved'[k] = saved[k] BY <2>1, <2>4 DEF RecordCommand, PrivilegedTypeOK
    <3> QED BY <1>0, <2>1, <2>2, <3>1 DEF RecordCommand, run
  <2> QED BY <2>3, <2>4
<1>4. CASE ForgetIssue
  <2>1. Own(k)' = Own(k) /\ saved'[k] = None BY <1>4 DEF ForgetIssue, Own, remote
  <2> QED BY <1>0, <1>4, <2>1 DEF ForgetIssue
<1>5. CASE (\E j \in Keys : Dispatch(j)) \/ Check \/ Audit \/ Update \/ Push
  <2>1. phase # "save" /\ UNCHANGED records
    BY <1>5 DEF Dispatch, Check, Audit, Update, Push
  <2>2. UNCHANGED pulls BY <1>5 DEF Dispatch, Check, Audit, Update, Push, remote
  <2>3. Own(k)' = Own(k) BY <2>2 DEF Own
  <2> QED BY <1>0, <2>1, <2>3 DEF records
<1>6. CASE Pull
  <2>1. phase = "pull" /\ UNCHANGED <<saved, recorded>> /\ torn \subseteq torn'
    BY <1>6 DEF Pull
  <2>2. CASE k # key
    <3>1. Own(k)' = Own(k) BY <1>6, <2>2 DEF Pull, Own, Opened
    <3> QED BY <1>0, <2>1, <3>1
  <2>3. CASE k = key
    <3>1. saved[k] # None /\ saved[k].status = "pending" BY <2>1, <2>3 DEF RecordsSound, Busy
    <3>2. k \in recorded BY <3>1 DEF RecordsSound
    <3>3. k \notin torn' => Own(k) = {} BY <1>0, <2>1, <3>1
    <3>4. CASE UNCHANGED pulls
      <4>1. Own(k)' = Own(k) BY <3>4 DEF Own
      <4> QED BY <2>1, <3>2, <3>3, <4>1
    <3>5. CASE /\ pulls' = pulls \cup {Opened}
               /\ \/ Settles("executed", "opened_pull_request", day)
                  \/ torn' = torn \cup {key}
      <4>1. Own(k)' \subseteq Own(k) \cup {Opened} BY <3>5 DEF Own
      <4> QED BY <2>1, <2>3, <3>2, <3>3, <3>5, <4>1 DEF Settles
    <3> QED BY <1>6, <3>4, <3>5 DEF Pull
  <2> QED BY <2>2, <2>3
<1>7. CASE Save
  <2>1. /\ phase = "save" /\ key \in Keys /\ UNCHANGED <<recorded, pulls>>
        /\ \/ saved' = [saved EXCEPT ![key] = outcome] /\ torn' = torn
           \/ saved' = saved /\ torn' = torn \cup {key}
    BY <1>7 DEF Save, RunSound, remote
  <2>2. Own(k)' = Own(k) BY <2>1 DEF Own
  <2>3. CASE k # key
    <3>1. saved'[k] = saved[k] BY <2>1, <2>3 DEF PrivilegedTypeOK
    <3> QED BY <1>0, <2>1, <2>2, <2>3, <3>1
  <2>4. CASE k = key
    <3>1. saved[k] # None /\ saved[k].status = "pending"
      BY <2>1, <2>4 DEF RecordsSound, Busy
    <3>2. k \notin torn' => saved'[k] = outcome BY <2>1, <2>4 DEF PrivilegedTypeOK
    <3> QED BY <1>0, <2>1, <2>2, <2>4, <3>1, <3>2
  <2> QED BY <2>3, <2>4
<1>8. CASE Deploy \/ Tomorrow \/ Allow \/ CloseIssue \/ MergeGuideline
  <2>1. UNCHANGED <<records, remote, run>>
    BY <1>8 DEF Deploy, Tomorrow, Allow, CloseIssue, MergeGuideline
  <2>2. Own(k)' = Own(k) BY <2>1 DEF Own, remote
  <2> QED BY <1>0, <2>1, <2>2 DEF records, run
<1> QED BY <1>1, <1>2, <1>3, <1>4, <1>5, <1>6, <1>7, <1>8 DEF Next

-----------------------------------------------------------------------------
LEMMA StepInv == Inv /\ [Next]_vars => Inv'
<1> SUFFICES ASSUME Inv, [Next]_vars PROVE Inv' OBVIOUS
<1>1. CASE Next
  BY <1>1, StepTyped, StepBranches, StepFindings, StepRecords, StepOutcomes, StepOnce DEF Inv
<1>2. CASE UNCHANGED vars
  BY <1>2 DEF Inv, vars, world, records, remote, run, PrivilegedTypeOK, RunSound,
     BranchesSound, FindingsHold, RecordsSound, Busy, OutcomesTrue, Told, OnceSound, Own
<1> QED BY <1>1, <1>2

LEMMA InvHolds == Spec => []Inv
BY InitInv, StepInv, PTL DEF Spec

-----------------------------------------------------------------------------
(* The theorems.                                                           *)

\* Every reachable state is well typed: a record is pending, executed or
\* failed closed, and a run has in hand only what its phase has found.
THEOREM Typed == Spec => []PrivilegedTypeOK
<1>1. Inv => PrivilegedTypeOK BY DEF Inv
<1> QED BY <1>1, InvHolds, PTL

\* The lock that is about to be pushed leaves every cited paragraph as it was,
\* unless the FLS was deployed between the two reads of automation.py:247 and
\* :270.
THEOREM Unaffected == Spec => []UnaffectedUnlessMoved
<1>1. Inv => UnaffectedUnlessMoved
  BY UnaffectedIsIntact DEF Inv, FindingsHold, UnaffectedUnlessMoved
<1> QED BY <1>1, InvHolds, PTL

\* A record that says that a pull request was opened names one that was.
THEOREM RecordsTrue == Spec => []ExecutedIsTrue
<1>1. Inv => ExecutedIsTrue BY DEF Inv, OutcomesTrue, Told, ExecutedIsTrue
<1> QED BY <1>1, InvHolds, PTL

\* A command opens one pull request at most, and none if it is recorded as
\* failed, unless a run could not save what it did or the record was put back.
THEOREM Once == Spec => []SettledOnce
<1>1. Inv => SettledOnce
  <2> SUFFICES ASSUME Inv, NEW k \in Keys \ torn
               PROVE  /\ Cardinality(Own(k)) <= 1
                      /\ saved[k] # None /\ saved[k].status = "failed_closed" => Own(k) = {}
    BY DEF SettledOnce, Own
  <2>1. Cardinality(Own(k)) <= 1
    <3>1. CASE Own(k) = {} BY <3>1, FS_EmptySet
    <3>2. CASE Own(k) # {}
      <4>1. PICK p \in Own(k) : TRUE BY <3>2
      <4>2. Own(k) = {p} BY <4>1 DEF Inv, OnceSound
      <4>3. Cardinality({p}) = 1 BY FS_Singleton
      <4> QED BY <4>2, <4>3
    <3> QED BY <3>1, <3>2
  <2>2. saved[k] # None /\ saved[k].status = "failed_closed" => Own(k) = {}
    BY DEF Inv, OnceSound, RecordsSound, Busy
  <2> QED BY <2>1, <2>2
<1> QED BY <1>1, InvHolds, PTL

\* No branch is pushed by a run that did not itself find the label and the
\* permission.
THEOREM Entitled == Spec => PushesAreEntitled
<1>1. Inv /\ [Next]_vars => [\A d \in Days : branch'[d] \notin {None, branch[d]} => entitled]_vars
  <2> SUFFICES ASSUME Inv, Next, NEW d \in Days, branch'[d] \notin {None, branch[d]}
               PROVE  entitled
    OBVIOUS
  <2>1. ~ \E e \in Days : MergePull(e) BY DEF MergePull, Inv, PrivilegedTypeOK
  <2>2. Push
    BY <2>1 DEF Next, Deploy, Tomorrow, Allow, CloseIssue, MergeGuideline, RecordCommand, Dispatch,
       OpenByHand, ForgetIssue, Check, Audit, Update, Pull, Save, remote
  <2> QED BY <2>2 DEF Inv, FindingsHold, Push
<1> QED BY <1>1, InvHolds, PTL DEF Spec, PushesAreEntitled
=============================================================================
