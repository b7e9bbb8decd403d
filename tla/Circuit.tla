------------------------------- MODULE Circuit -------------------------------
(***************************************************************************)
(* What a circuit breaker promises to the backend behind it: closed it     *)
(* bears Limit consecutive failures, open it lets nobody pass, half-open   *)
(* it lets Probes calls pass, and closes when all of them have succeeded.  *)
(* It changes when the time comes, and no call that began before the last  *)
(* change has any say.                                                     *)
(***************************************************************************)
EXTENDS Naturals, FiniteSets

CONSTANTS
    Calls,      \* who calls the backend
    Probes,     \* calls a half-open breaker lets pass
    Limit       \* consecutive failures a closed breaker bears

VARIABLES
    mode,       \* "closed", "open" or "halfOpen"
    counting,   \* the running calls that began since the last change
    passed,     \* the probes that succeeded
    strikes     \* the failures since the last success

circuit == <<mode, counting, passed, strikes>>

Reset(m) == mode' = m /\ counting' = {} /\ passed' = 0 /\ strikes' = 0

Init == mode = "closed" /\ counting = {} /\ passed = 0 /\ strikes = 0

\* A probe is running or has succeeded; a failure would have ended the trial.
Pass(c) ==
    /\ c \notin counting
    /\ \/ mode = "closed"
       \/ mode = "halfOpen" /\ Cardinality(counting) + passed < Probes
    /\ counting' = counting \cup {c}
    /\ UNCHANGED <<mode, passed, strikes>>

Good(c) ==
    /\ c \in counting
    /\ \/ /\ mode = "closed"
          /\ strikes' = 0 /\ counting' = counting \ {c}
          /\ UNCHANGED <<mode, passed>>
       \/ /\ mode = "halfOpen" /\ passed + 1 < Probes
          /\ passed' = passed + 1 /\ counting' = counting \ {c}
          /\ UNCHANGED <<mode, strikes>>
       \/ mode = "halfOpen" /\ passed + 1 = Probes /\ Reset("closed")

Bad(c) ==
    /\ c \in counting
    /\ \/ /\ mode = "closed" /\ strikes < Limit
          /\ strikes' = strikes + 1 /\ counting' = counting \ {c}
          /\ UNCHANGED <<mode, passed>>
       \/ mode = "closed" /\ strikes = Limit /\ Reset("open")
       \/ mode = "halfOpen" /\ Reset("open")

\* The interval of a closed, or the timeout of an open breaker is over.
Time ==
    \/ mode = "closed" /\ Reset("closed")
    \/ mode = "open" /\ Reset("halfOpen")

Next == (\E c \in Calls : Pass(c) \/ Good(c) \/ Bad(c)) \/ Time

Spec == Init /\ [][Next]_circuit
=============================================================================
