------------------------------ MODULE SpecLock ------------------------------
(***************************************************************************)
(* The FLS (the Rust specification the guidelines cite), the copy of it    *)
(* that is committed as src/spec.lock, how two of them are compared, which *)
(* guidelines a difference reaches, and when the guidelines build.         *)
(*                                                                         *)
(* A document knows some paragraphs, each with a content (its checksum and *)
(* its number), and some sections, which have no checksum.                 *)
(***************************************************************************)

CONSTANTS
    Paragraphs,     \* the ids a paragraph may have
    Sections,       \* the ids a section may have
    Contents,       \* the contents a paragraph may have
    None            \* no answer, no deployment

Ids == Paragraphs \cup Sections

Documents == [paragraphs : UNION {[known -> Contents] : known \in SUBSET Paragraphs},
              sections   : SUBSET Sections]

Known(doc) == DOMAIN doc.paragraphs \cup doc.sections

-----------------------------------------------------------------------------
(* The comparison, of which only the paragraphs are part.                  *)

Added(live, locked)   == DOMAIN live.paragraphs \ DOMAIN locked.paragraphs
Removed(live, locked) == DOMAIN locked.paragraphs \ DOMAIN live.paragraphs
Changed(live, locked) ==
    {id \in DOMAIN live.paragraphs \cap DOMAIN locked.paragraphs :
        live.paragraphs[id] # locked.paragraphs[id]}

Differing(live, locked) ==
    Added(live, locked) \cup Removed(live, locked) \cup Changed(live, locked)

\* A comparison that forgets what the lock knows and the FLS no longer has.
BadAffected(live, locked, cites) ==
    (Added(live, locked) \cup Changed(live, locked)) \cap cites

\* The cited ids a difference reaches; each stands for the guidelines that
\* cite it.
Affected(live, locked, cites) == Differing(live, locked) \cap cites

-----------------------------------------------------------------------------
(* The lock file: a document, the deployment of the FLS it was taken from, *)
(* and the deployment named in the lock it replaced.                       *)

\* deployment is None when the list of deployments cannot be read.
Updated(live, deployment, lock) ==
    [doc |-> live, at |-> deployment, before |-> lock.at]

-----------------------------------------------------------------------------
(* A build of a tree, which has a lock and guidelines that cite ids. It    *)
(* reads the FLS unless it is offline; answer is None when no usable       *)
(* document came back.                                                     *)

Modes == {"offline", "nonblocking", "enforcing"}

Source(mode, answer, tree) ==
    CASE mode = "offline"                       -> tree.lock.doc
      [] mode = "nonblocking" /\ answer = None  -> tree.lock.doc
      [] OTHER                                  -> answer

\* Only a build that enforces freshness fails over a difference.
Fresh(mode, answer, tree) ==
    mode # "offline" /\ answer # None =>
        /\ DOMAIN tree.lock.doc.paragraphs # {}
        /\ mode = "enforcing" => Differing(answer, tree.lock.doc) = {}

Builds(mode, answer, tree) ==
    LET source == Source(mode, answer, tree) IN
    /\ source # None
    /\ Known(source) # {}
    /\ Fresh(mode, answer, tree)
    /\ tree.cites \subseteq Known(source)
=============================================================================
