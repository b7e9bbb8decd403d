----------------------------- MODULE MCGateway -----------------------------
(***************************************************************************)
(* Instances of Gateway for TLC.                                           *)
(***************************************************************************)
EXTENDS Gateway, TLC

CONSTANTS r1, r2, root, gina

Family == [u \in Users |-> IF u = root THEN "admin" ELSE "guest"]

Plain == [route |-> "page", query |-> FALSE, auth |-> "bearer", bearer |-> gina, cookie |-> TRUE,
          sk |-> gina, target |-> "me", body |-> "ok"]

\* One request per path through the middlewares and handlers.
Varied ==
    {Plain,
     [Plain EXCEPT !.route = "regUser", !.auth = "none"],
     [Plain EXCEPT !.route = "regUser", !.body = "garbled"],
     [Plain EXCEPT !.route = "regUser", !.query = TRUE],
     [Plain EXCEPT !.route = "logUser"],
     [Plain EXCEPT !.route = "logUser", !.body = "invalid"],
     [Plain EXCEPT !.route = "delUser"],
     [Plain EXCEPT !.route = "delUser", !.target = gina, !.bearer = root, !.sk = root],
     [Plain EXCEPT !.route = "delUser", !.target = root],
     [Plain EXCEPT !.route = "delUser", !.bearer = root],
     [Plain EXCEPT !.route = "delUser", !.cookie = FALSE, !.sk = Nobody],
     [Plain EXCEPT !.route = "delUser", !.auth = "malformed"],
     [Plain EXCEPT !.route = "extUserId", !.target = gina],
     [Plain EXCEPT !.route = "extUserId", !.target = root],
     [Plain EXCEPT !.route = "addOrder"],
     [Plain EXCEPT !.route = "addOrder", !.body = "garbled"],
     [Plain EXCEPT !.route = "orderInfo"],
     [Plain EXCEPT !.route = "delOrder"]}

Symmetry == Permutations(Requests)
=============================================================================
