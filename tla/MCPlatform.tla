----------------------------- MODULE MCPlatform -----------------------------
(***************************************************************************)
(* Instances of Platform for TLC.                                          *)
(***************************************************************************)
EXTENDS Platform, TLC

CONSTANTS c1, c2, c3, c4, c5, h1, h2, h3, p1, MaxFaults

OwnName == [p \in Profiles |-> p]

\* One attempt each for h1 and h2, three for h3: authentication, deletion and a retry.
Attempts == [c \in Calls |-> CASE c = c1 -> h1 [] c = c2 -> h2 [] OTHER -> h3]

\* The bound on errors, crashes and lost replies.
Faults ==
    Cardinality({c \in Calls : result[c] \in {"error", "lost"}})
    + Cardinality({h \in Https : tries[h] > 0 \/ status[h] = "unavailable"})
    + Cardinality(expired)
FewFaults == Faults <= MaxFaults

Symmetry == Permutations(Calls \ {c1, c2})
=============================================================================
