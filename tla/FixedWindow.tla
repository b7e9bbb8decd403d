----------------------------- MODULE FixedWindow -----------------------------
(***************************************************************************)
(* What a rate limiter promises: the requests of a key are counted in      *)
(* windows, a request is decided once and for good, it passes if and only  *)
(* if its window has room when it is counted, and it is let through        *)
(* unchecked only where the limiter's store fails.  What it does not       *)
(* promise is to count a request once: it may be counted at every try.     *)
(***************************************************************************)
EXTENDS Naturals

CONSTANTS
    Requests, Keys,
    KeyOf,      \* request -> key
    Room,       \* what a window has room for
    Tries       \* how often a request is tried at most

VARIABLES
    window,     \* key -> how many requests its present window has counted
    decision,   \* request -> "none" until it is decided
    tried,      \* request -> how often it was tried
    open        \* the tries given up that may still be counted, the n-th of r as <<r, n>>

limiter == <<window, decision, tried, open>>

Init ==
    /\ window = [k \in Keys |-> 0]
    /\ decision = [r \in Requests |-> "none"]
    /\ tried = [r \in Requests |-> 0]
    /\ open = {}

HasRoom(k) == window[k] < Room

Try(r) ==
    /\ decision[r] = "none" /\ tried[r] < Tries
    /\ tried' = [tried EXCEPT ![r] = @ + 1]

Decide(r, d) == decision' = [decision EXCEPT ![r] = d]

Count(r) == window' = [window EXCEPT ![KeyOf[r]] = @ + 1]

GiveUp(r) == open' = open \cup {<<r, tried'[r]>>}

\* The requests that are turned away count as well.
Check(r) ==
    /\ Try(r)
    /\ \/ HasRoom(KeyOf[r]) /\ Decide(r, "passed")
       \/ ~HasRoom(KeyOf[r]) /\ Decide(r, "limited")
    /\ Count(r)
    /\ UNCHANGED open

\* A try will be repeated.
Repeat(r) ==
    /\ Try(r) /\ tried'[r] < Tries
    /\ GiveUp(r)
    /\ UNCHANGED <<window, decision>>

\* The store fails.
Bypass(r) ==
    /\ Try(r)
    /\ Decide(r, "uncounted")
    /\ (tried'[r] = Tries /\ GiveUp(r)) \/ UNCHANGED open
    /\ UNCHANGED window

\* A try counts although it was given up.
CountLate(e) ==
    /\ e \in open
    /\ open' = open \ {e}
    /\ Count(e[1])
    /\ UNCHANGED <<decision, tried>>

\* New windows begin.
Begin(fresh) ==
    /\ window' = [k \in Keys |-> IF k \in fresh THEN 0 ELSE window[k]]
    /\ UNCHANGED <<decision, tried, open>>

Next ==
    \/ \E r \in Requests : Check(r) \/ Repeat(r) \/ Bypass(r)
    \/ \E e \in open : CountLate(e)
    \/ \E fresh \in SUBSET Keys : Begin(fresh)

Spec == Init /\ [][Next]_limiter
=============================================================================
