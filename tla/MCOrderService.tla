--------------------------- MODULE MCOrderService ---------------------------
(***************************************************************************)
(* Instances of OrderService for TLC: an admin and a guest.                *)
(***************************************************************************)
EXTENDS OrderService, TLC

CONSTANTS c1, c2, c3, c4, root, gina, MaxFaults

Family == [u \in Users |-> IF u = root THEN "admin" ELSE "guest"]

\* The bound on the calls that come to nothing: errors, crashes, invalid orders.
Failed(c) == result[c] \in {"error", "lost"} \/ (result[c] = "refused" /\ req[c] \in AddReqs)
FewFaults == Cardinality({c \in Calls : Failed(c)}) <= MaxFaults
=============================================================================
