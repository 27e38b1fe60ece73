---------------------------- MODULE MCPrivileged ----------------------------
EXTENDS Privileged, TLC
CONSTANTS p, s, a, b, k1, k2
MCFirstDoc == [paragraphs |-> (p :> a), sections |-> {s}]
=============================================================================
