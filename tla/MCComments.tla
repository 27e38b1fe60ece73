----------------------------- MODULE MCComments -----------------------------
(* An author and two others, all in the queue, one with triage permission.  *)
EXTENDS Comments

CONSTANTS a, r, t, no

Only(k) == [alone |-> {k}, mention |-> {}, text |-> FALSE, code |-> "none"]
Prose == [alone |-> {}, mention |-> {}, text |-> TRUE, code |-> "none"]
With(b, code) == [b EXCEPT !.code = code]
WithProse(b) == [b EXCEPT !.text = TRUE]

MCPeople == {a, r, t}
MCMembers == MCPeople
MCMaintainers == {t}
MCItems == {"issue", "guideline", "own", "fork"}

\* A code block beside a command, a handoff that is mentioned in prose, and two
\* commands.
MCBodies == {Only(k) : k \in {"pass", "release", "assign", "producers", "done", "signoff", "feedback"}}
  \union {Prose, WithProse(Only("claim")), With(Only("claim"), "prose"), [Prose EXCEPT !.mention = {"feedback"}],
          [Only("claim") EXCEPT !.alone = {"claim", "pass"}]}
MCAutoBodies == {WithProse(Only("claim")), Only("producers")}
=============================================================================
