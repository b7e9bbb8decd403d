--------------------------- MODULE MCUserService ---------------------------
(***************************************************************************)
(* Instances of UserService for TLC.                                       *)
(***************************************************************************)
EXTENDS UserServiceInv, TLC

CONSTANTS c1, c2, c3, c4, p1, p2, MaxFaults

\* Profiles with user_names of their own.
OwnName == [p \in Profiles |-> p]

\* "a"+"bc@x.y" and "ab"+"c@x.y" are one user_name (main.go:105).
ab_c == [name |-> "ab", email |-> "c@x.y"]
a_bc == [name |-> "a", email |-> "bc@x.y"]
Colliding == {ab_c, a_bc}
ConcatName == [p \in Colliding |-> "abc@x.y"]

\* The bound on the calls that end in an error or a crash.
FewFaults == Cardinality({c \in Calls : result[c] \in {"error", "lost"}}) <= MaxFaults

Symmetry == Permutations(Calls) \cup Permutations(Profiles)
CallSymmetry == Permutations(Calls)
=============================================================================
