------------------------------- MODULE Breaker -------------------------------
(***************************************************************************)
(* How api-gateway calls a backend: service.Execute                        *)
(* (src/api-gateway/internal/service/service.go) runs up to MaxRetries     *)
(* attempts of an RPC inside a circuit breaker of sony/gobreaker, set up   *)
(* in src/api-gateway/internal/cbreaker/cb.go.  One breaker serves every   *)
(* request to its backend, so its counters are shared by the callers.      *)
(*                                                                         *)
(* gobreaker numbers the generations of its counters and compares the      *)
(* number a call was admitted with only to the current one; the model      *)
(* keeps the set of calls of the current generation instead.  The counters *)
(* are kept where the breaker reads them: the requests and successes of a  *)
(* half-open generation, the consecutive failures of a closed one.         *)
(***************************************************************************)
EXTENDS Naturals, FiniteSets

CONSTANTS
    Callers,        \* the goroutines of the gateway; each calls again and again
    MaxRetries,     \* attempts of one call (maxRetries = 3)
    MaxRequests,    \* probes of a half-open breaker (5)
    FailureLimit,   \* consecutive failures a closed breaker bears (5)
    Replies         \* what a backend that is up may answer

Retryable == {"unavailable", "cancelled"}
AllReplies == {"ok", "rejected"} \cup Retryable

ASSUME CallersAssumption == IsFiniteSet(Callers)
ASSUME LimitsAssumption ==
    /\ MaxRetries \in Nat \ {0} /\ MaxRequests \in Nat \ {0}
    /\ FailureLimit \in Nat
ASSUME RepliesAssumption == Replies \subseteq AllReplies

VARIABLES
    cb,         \* the breaker
    pc,         \* where a call stands
    tries,      \* attempts that failed so far in a call
    result,     \* how the RPC of a call ended, or the last call if it is idle
    up          \* the backend answers

vars == <<cb, pc, tries, result, up>>

States == {"closed", "open", "halfOpen"}
Results == {"none", "ok", "error", "refused"}

TypeOK ==
    /\ cb \in [state : States, fresh : SUBSET Callers, requests : Nat,
               successes : Nat, failures : Nat, expired : BOOLEAN]
    /\ pc \in [Callers -> {"idle", "attempt", "sleep", "settle"}]
    /\ tries \in [Callers -> 0 .. MaxRetries - 1]
    /\ result \in [Callers -> Results]
    /\ up \in BOOLEAN

-----------------------------------------------------------------------------
(* gobreaker: pure steps of the breaker b                                   *)

\* toNewGeneration: counters at zero, none of the running calls counts any more.
NewGeneration(s) ==
    [state |-> s, fresh |-> {}, requests |-> 0, successes |-> 0, failures |-> 0,
     expired |-> FALSE]

\* currentState: the clock is looked at only when a call begins or ends.
Current(b) ==
    CASE ~b.expired -> b
      [] b.expired /\ b.state = "closed" -> NewGeneration("closed")
      [] b.expired /\ b.state # "closed" -> NewGeneration("halfOpen")

\* Mutant: a half-open breaker admits everybody.
AdmitsAll(b) == b.state # "open"

Admits(b) == b.state = "closed" \/ (b.state = "halfOpen" /\ b.requests < MaxRequests)

OnRequest(b, c) ==
    [b EXCEPT !.fresh = @ \cup {c},
              !.requests = IF b.state = "halfOpen" THEN @ + 1 ELSE @]

\* Mutant: one success more than there are probes.
OnSuccessOffByOne(b) ==
    IF b.state = "halfOpen"
    THEN IF b.successes + 1 > MaxRequests THEN NewGeneration("closed")
         ELSE [b EXCEPT !.successes = @ + 1]
    ELSE [b EXCEPT !.failures = 0]

OnSuccess(b) ==
    IF b.state = "halfOpen"
    THEN IF b.successes + 1 >= MaxRequests THEN NewGeneration("closed")
         ELSE [b EXCEPT !.successes = @ + 1]
    ELSE [b EXCEPT !.failures = 0]

\* Mutant: opening does not begin a generation.
OnFailureOldGeneration(b) ==
    IF b.state = "closed" /\ b.failures < FailureLimit
    THEN [b EXCEPT !.failures = @ + 1]
    ELSE [NewGeneration("open") EXCEPT !.fresh = b.fresh]

OnFailure(b) ==
    IF b.state = "closed" /\ b.failures < FailureLimit
    THEN [b EXCEPT !.failures = @ + 1]
    ELSE NewGeneration("open")

\* Mutant: the generation of the call is not compared.
AfterAnyRequest(b, c, ok) ==
    LET mine == [b EXCEPT !.fresh = @ \ {c}]
    IN  IF ok THEN OnSuccess(mine) ELSE OnFailure(mine)

\* afterRequest: the result of a call of an earlier generation is dropped.
AfterRequest(b, c, ok) ==
    LET mine == [b EXCEPT !.fresh = @ \ {c}]
    IN  IF c \notin b.fresh THEN b
        ELSE IF ok THEN OnSuccess(mine) ELSE OnFailure(mine)

-----------------------------------------------------------------------------
(* Execute and its retries                                                  *)

Init ==
    /\ cb = NewGeneration("closed")
    /\ pc = [c \in Callers |-> "idle"]
    /\ tries = [c \in Callers |-> 0]
    /\ result = [c \in Callers |-> "none"]
    /\ up = TRUE

\* beforeRequest: ErrOpenState, ErrTooManyRequests, or the first attempt.
Admit(c) ==
    /\ pc[c] = "idle"
    /\ LET b == Current(cb)
       IN  \/ /\ Admits(b)
              /\ cb' = OnRequest(b, c)
              /\ pc' = [pc EXCEPT ![c] = "attempt"]
              /\ result' = [result EXCEPT ![c] = "none"]
           \/ /\ ~Admits(b)
              /\ cb' = b
              /\ result' = [result EXCEPT ![c] = "refused"]
              /\ UNCHANGED pc
    /\ UNCHANGED <<tries, up>>

\* The RPC returns: success, an error that shouldRetry accepts, or another.
Answer(c) ==
    /\ pc[c] = "attempt"
    /\ \E reply \in IF up THEN Replies ELSE {"unavailable"} :
          IF reply \in Retryable
          THEN pc' = [pc EXCEPT ![c] = "sleep"] /\ UNCHANGED result
          ELSE /\ pc' = [pc EXCEPT ![c] = "settle"]
               /\ result' = [result EXCEPT ![c] = IF reply = "ok" THEN "ok" ELSE "error"]
    /\ UNCHANGED <<cb, tries, up>>

\* Mutant: the attempts are not counted.
WakeForever(c) ==
    /\ pc[c] = "sleep"
    /\ pc' = [pc EXCEPT ![c] = "attempt"]
    /\ UNCHANGED <<cb, tries, result, up>>

\* The pause after an attempt is over; after the last one rpc gives up.
Wake(c) ==
    /\ pc[c] = "sleep"
    /\ \/ /\ tries[c] + 1 < MaxRetries
          /\ tries' = [tries EXCEPT ![c] = @ + 1]
          /\ pc' = [pc EXCEPT ![c] = "attempt"]
          /\ UNCHANGED result
       \/ /\ tries[c] + 1 = MaxRetries
          /\ pc' = [pc EXCEPT ![c] = "settle"]
          /\ result' = [result EXCEPT ![c] = "error"]
          /\ UNCHANGED tries
    /\ UNCHANGED <<cb, up>>

\* Every error of the RPC is a failure to the breaker: cb.go sets no IsSuccessful.
Settle(c) ==
    /\ pc[c] = "settle"
    /\ cb' = AfterRequest(Current(cb), c, result[c] = "ok")
    /\ pc' = [pc EXCEPT ![c] = "idle"]
    /\ tries' = [tries EXCEPT ![c] = 0]
    /\ UNCHANGED <<result, up>>

\* The interval of a closed, or the timeout of an open breaker passes; a
\* half-open one has no expiry.
Tick ==
    /\ cb.state # "halfOpen" /\ ~cb.expired
    /\ cb' = [cb EXCEPT !.expired = TRUE]
    /\ UNCHANGED <<pc, tries, result, up>>

Fail ==
    /\ up
    /\ up' = FALSE
    /\ UNCHANGED <<cb, pc, tries, result>>

Repair ==
    /\ ~up
    /\ up' = TRUE
    /\ UNCHANGED <<cb, pc, tries, result>>

\* What a call does without its backend.
Resume(c) == Wake(c) \/ Settle(c)

Proceed(c) == Answer(c) \/ Resume(c)

Next == (\E c \in Callers : Admit(c) \/ Proceed(c)) \/ Tick \/ Fail \/ Repair

Spec == Init /\ [][Next]_vars

\* Running goroutines run and time passes.  An attempt need not return: DelUser and
\* ExtJWTData are called without a deadline (users/handler.go:202, 248).
FairSpec == Spec /\ WF_vars(Tick) /\ \A c \in Callers : WF_vars(Resume(c))

-----------------------------------------------------------------------------
(* Safety                                                                   *)

\* The counters of a half-open breaker say how many of its probes are still
\* running, however many calls of earlier generations return meanwhile; with
\* that no more than MaxRequests probes ever reach a backend that may be down
\* (cb.go:12).
ProbesAccounted ==
    cb.state = "halfOpen" =>
        /\ cb.requests = Cardinality(cb.fresh) + cb.successes
        /\ cb.requests <= MaxRequests

\* Nobody who called before the breaker opened counts once it is open.
OpenForgets == cb.state = "open" => cb.fresh = {}

\* The breaker closes with the last of its probes: as long as one admitted probe
\* has not returned, it stays half-open whatever the others answered.
EveryProbeDecides ==
    [][cb.state = "halfOpen" /\ cb'.state = "closed"
         => \E c \in Callers : cb.fresh = {c} /\ result[c] = "ok"]_vars

\* The inductive invariant: the counters a state does not read are zero, a
\* closed breaker is below its limit, a half-open one waits for some success, and
\* only running calls count.
IInv ==
    /\ TypeOK
    /\ \A c \in cb.fresh : pc[c] # "idle"
    /\ cb.state = "closed" =>
          cb.requests = 0 /\ cb.successes = 0 /\ cb.failures <= FailureLimit
    /\ cb.state = "open" => cb.requests = 0 /\ cb.successes = 0 /\ cb.failures = 0
    /\ cb.state = "halfOpen" =>
          ~cb.expired /\ cb.failures = 0 /\ cb.successes < MaxRequests
    /\ ProbesAccounted
    /\ OpenForgets

\* What a call still has to do, at most: two steps for every attempt, and one for
\* its result.
Effort(c) ==
    CASE pc[c] = "idle"    -> 0
      [] pc[c] = "settle"  -> 1
      [] pc[c] = "sleep"   -> 2 * (MaxRetries - tries[c])
      [] pc[c] = "attempt" -> 2 * (MaxRetries - tries[c]) + 1

\* Whatever the backend answers, each step of a call brings it nearer to its end, and
\* nothing but the next Execute of the same goroutine sets it back; so a call makes at
\* most MaxRetries attempts, and its end waits only for them to return (service.go:77).
CallsWearOut ==
    [][\A c \in Callers :
          /\ Proceed(c) => Effort(c)' < Effort(c)
          /\ Effort(c)' > Effort(c) => pc[c] = "idle"]_vars

-----------------------------------------------------------------------------
(* Refinement                                                               *)

\* The breaker looks at the clock only when a call begins or ends, and knows its
\* probes by two counters; the circuit changes when the time comes and knows them
\* by name.
Circuit == INSTANCE Circuit WITH
    Calls <- Callers, Probes <- MaxRequests, Limit <- FailureLimit,
    mode <- Current(cb).state, counting <- Current(cb).fresh,
    passed <- Current(cb).successes, strikes <- Current(cb).failures

\* Shared by all callers, some of whom return generations late, and reading its clock
\* lazily, the breaker of cb.go is a circuit: it opens after FailureLimit + 1 failures
\* in a row or one failed probe, closes after MaxRequests successful probes, lets no
\* more of them pass, and listens to no call admitted before its last change.
ImplementsCircuit == Circuit!Spec

-----------------------------------------------------------------------------
(* Liveness                                                                 *)

\* If from some time on every RPC that returns succeeds, requests keep coming and not
\* all of them hang, the breaker closes for good, whatever returns late from before.
\* Only a probe whose RPC never returns keeps it half-open (users/handler.go:202).
Healthy == [][\A c \in Callers : Answer(c) => result'[c] = "ok"]_vars
Busy == (\A c \in Callers : WF_vars(Admit(c))) /\ []<>(\E c \in Callers : pc[c] = "idle")
Hangs(c) == cb.state = "halfOpen" /\ c \in cb.fresh /\ pc[c] = "attempt"
Recovers ==
    Busy /\ <>Healthy =>
        <>[](cb.state = "closed") \/ \E c \in Callers : <>[]Hangs(c)
=============================================================================
