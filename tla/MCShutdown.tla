----------------------------- MODULE MCShutdown -----------------------------
(***************************************************************************)
(* Instance of Shutdown for TLC: the three programs of the repository.     *)
(***************************************************************************)
EXTENDS Shutdown

Repository == {GatewayMain, UserServiceMain, OrderServiceMain}
=============================================================================
