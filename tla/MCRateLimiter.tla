---------------------------- MODULE MCRateLimiter ----------------------------
(***************************************************************************)
(* An instance of RateLimiter for TLC: three requests of one address, each *)
(* with an INCR that the client may send twice.                            *)
(***************************************************************************)
EXTENDS RateLimiter

CONSTANTS r1, r2, r3, k1

OneAddress == [r \in Requests |-> k1]
=============================================================================
