-------------------------- MODULE ReminderPromise ---------------------------
(***************************************************************************)
(* What the reminders of one item promise, whatever becomes of the posts,  *)
(* reads and saves they are made of: a lapse is warned of at most once,    *)
(* and not before it has lasted for the deadline; a notice is given only   *)
(* to a reviewer who was warned, a whole transition period before; and who *)
(* keeps silent since a warning is not given two notices for it, unless    *)
(* the first is out of the bot's sight.                                    *)
(***************************************************************************)
EXTENDS Naturals

CONSTANTS Lapses,            \* what a reviewer can be late with; records with a reviewer
          Deadline, Period   \* in days

VARIABLES lapse,     \* what there is to be late with now
          late,      \* for how many days, up to Deadline
          due,       \* it is the reviewer's turn
          warned,    \* the lapses warned of
          since,     \* by reviewer: days since the first warning, up to Period
          stage,     \* of a reviewer of whom nothing was heard since: "open", until
                     \* there is a warning, "warned", and "noticed" after the notice
          unseen,    \* a notice is neither where the bot looks nor hinted at in its state
          posted     \* number of reminders

vars == <<lapse, late, due, warned, since, stage, unseen, posted>>

OneMore(n, most) == IF n < most THEN n + 1 ELSE n

Init == /\ lapse \in Lapses /\ late = 0 /\ due = TRUE
        /\ warned = {} /\ since = [p \in {} |-> 0] /\ stage = "open" /\ unseen = FALSE /\ posted = 0

NextDay ==
  /\ late' = OneMore(late, Deadline)
  /\ since' = [p \in DOMAIN since |-> OneMore(since[p], Period)]
  /\ UNCHANGED <<lapse, due, warned, stage, unseen, posted>>

PeopleAct ==
  /\ lapse' \in Lapses /\ late' \in {late, 0} /\ due' \in BOOLEAN
  /\ stage' \in {stage, "open"} /\ unseen' \in BOOLEAN
  /\ UNCHANGED <<warned, since, posted>>

Warn ==
  /\ due /\ late = Deadline /\ lapse \notin warned
  /\ warned' = warned \union {lapse}
  /\ since' = [p \in DOMAIN since \union {lapse.reviewer} |->
                 IF p \in DOMAIN since THEN since[p] ELSE 0]
  /\ stage' = "warned" /\ posted' = posted + 1 /\ unseen' \in BOOLEAN
  /\ UNCHANGED <<lapse, late, due>>

Notice ==
  /\ due /\ late = Deadline /\ (stage = "noticed" => unseen)
  /\ lapse.reviewer \in DOMAIN since /\ since[lapse.reviewer] = Period
  /\ stage' = (IF stage = "warned" THEN "noticed" ELSE stage) /\ posted' = posted + 1
  /\ unseen' \in BOOLEAN
  /\ UNCHANGED <<lapse, late, due, warned, since>>

\* A save of the state, by which the bot comes to see or loses sight.
Save == unseen' \in BOOLEAN /\ UNCHANGED <<lapse, late, due, warned, since, stage, posted>>

Next == NextDay \/ PeopleAct \/ Warn \/ Notice \/ Save
Spec == Init /\ [][Next]_vars
=============================================================================
