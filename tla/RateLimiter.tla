----------------------------- MODULE RateLimiter -----------------------------
(***************************************************************************)
(* The rate limiter of api-gateway (src/api-gateway/internal/mdwr/rl.go):  *)
(* one Redis counter per client address, incremented by every request and  *)
(* given a life of a minute by the request that finds it at one.  INCR and *)
(* EXPIRE are two commands, and requests, failures and restarts come       *)
(* between them.  The client is go-redis with its defaults (rl.go:24-28):  *)
(* it sends a command again when the reply is lost or late, and INCR       *)
(* counts again, perhaps after its request is decided.                     *)
(***************************************************************************)
EXTENDS Naturals, FiniteSets

CONSTANTS
    Requests,       \* the HTTP requests the gateway ever receives
    Keys,           \* the keys "rl:<address>"
    KeyOf,          \* request -> the key its RemoteAddr is cut down to
    MaxRate,        \* requests admitted in the life of a key (50)
    MaxSends        \* how often the client sends a command (4: three retries)

ASSUME RequestsAssumption == IsFiniteSet(Requests)
ASSUME KeyAssumption == KeyOf \in [Requests -> Keys]
ASSUME RateAssumption == MaxRate \in Nat \ {0}
ASSUME SendsAssumption == MaxSends \in Nat \ {0}

VARIABLES
    count,      \* Redis: key -> the counter, 0 if there is no such key
    ttl,        \* Redis: the keys with an expiry
    pc,         \* where the middleware of a request stands
    sends,      \* how often its INCR was sent
    unanswered, \* the INCRs nobody waits for and Redis may still apply, the n-th of r as <<r, n>>
    verdict,    \* what it decided; "uncounted" if it let pass without Redis
    counted,    \* history: the INCRs the present key has counted
    orphans     \* history: keys whose EXPIRE failed or will not be sent

vars == <<count, ttl, pc, sends, unanswered, verdict, counted, orphans>>

Verdicts == {"admitted", "limited", "uncounted", "killed", "dropped"}

TypeOK ==
    /\ count \in [Keys -> Nat]
    /\ ttl \subseteq Keys
    /\ pc \in [Requests -> {"idle", "incr", "expire", "done"}]
    /\ sends \in [Requests -> 0 .. MaxSends]
    /\ unanswered \subseteq Requests \X (1 .. MaxSends)
    /\ verdict \in [Requests -> Verdicts \cup {"none"}]
    /\ counted \in [Keys -> SUBSET (Requests \X (1 .. MaxSends))]
    /\ orphans \subseteq Keys

Init ==
    /\ count = [k \in Keys |-> 0]
    /\ ttl = {}
    /\ pc = [r \in Requests |-> "idle"]
    /\ sends = [r \in Requests |-> 0]
    /\ unanswered = {}
    /\ verdict = [r \in Requests |-> "none"]
    /\ counted = [k \in Keys |-> {}]
    /\ orphans = {}

-----------------------------------------------------------------------------
Decide(r, v) ==
    /\ pc' = [pc EXCEPT ![r] = "done"]
    /\ verdict' = [verdict EXCEPT ![r] = v]

\* The middleware is at its INCR, which is sent for the first time or again.
Sends(r) ==
    /\ pc[r] \in {"idle", "incr"} /\ sends[r] < MaxSends
    /\ sends' = [sends EXCEPT ![r] = @ + 1]

\* Redis applies an INCR: it makes the key with one, without an expiry, if there is none.
Increment(e) ==
    /\ count' = [count EXCEPT ![KeyOf[e[1]]] = @ + 1]
    /\ counted' = [counted EXCEPT ![KeyOf[e[1]]] = @ \cup {e}]

\* Mutant: the limit itself is over the limit of none.
AdmitsOneMore(n) == n <= MaxRate + 1

Admits(n) == n <= MaxRate

\* Mutant: nobody gives the key an expiry.
IncrNeverExpires(r) ==
    /\ Sends(r)
    /\ Increment(<<r, sends'[r]>>)
    /\ Decide(r, IF Admits(count'[KeyOf[r]]) THEN "admitted" ELSE "limited")
    /\ UNCHANGED <<ttl, unanswered, orphans>>

\* INCR and what is decided from its reply.
Incr(r) ==
    /\ Sends(r)
    /\ Increment(<<r, sends'[r]>>)
    /\ \/ /\ count'[KeyOf[r]] = 1
          /\ pc' = [pc EXCEPT ![r] = "expire"]
          /\ UNCHANGED verdict
       \/ /\ count'[KeyOf[r]] > 1
          /\ Decide(r, IF Admits(count'[KeyOf[r]]) THEN "admitted" ELSE "limited")
    /\ UNCHANGED <<ttl, unanswered, orphans>>

\* The connection fails or the reply is late, and go-redis will send INCR again.
IncrIsRetried(r) ==
    /\ Sends(r) /\ sends'[r] < MaxSends
    /\ pc' = [pc EXCEPT ![r] = "incr"]
    /\ unanswered' = unanswered \cup {<<r, sends'[r]>>}
    /\ UNCHANGED <<count, ttl, verdict, counted, orphans>>

\* Incr returns an error and the request passes: an error that go-redis does not
\* retry and nothing applied, or the failure of the last retry.
IncrFails(r) ==
    /\ Sends(r)
    /\ Decide(r, "uncounted")
    /\ \/ sends'[r] = MaxSends /\ unanswered' = unanswered \cup {<<r, sends'[r]>>}
       \/ UNCHANGED unanswered
    /\ UNCHANGED <<count, ttl, counted, orphans>>

\* Redis applies an INCR whose reply is lost: nobody will know that it made the key.
IncrUnseen(e) ==
    /\ e \in unanswered
    /\ unanswered' = unanswered \ {e}
    /\ Increment(e)
    /\ orphans' = IF count'[KeyOf[e[1]]] = 1 THEN orphans \cup {KeyOf[e[1]]} ELSE orphans
    /\ UNCHANGED <<ttl, pc, sends, verdict>>

\* Mutant: EXPIRE is sent for another name than INCR.
ExpireWrongKey(r) ==
    /\ pc[r] = "expire"
    /\ Decide(r, "admitted")
    /\ ttl' = ttl \cup {r}
    /\ UNCHANGED <<count, sends, unanswered, counted, orphans>>

\* EXPIRE is applied, its reply is lost, and go-redis will send it again.
ExpireIsRetried(r) ==
    /\ pc[r] = "expire" /\ count[KeyOf[r]] > 0
    /\ ttl' = ttl \cup {KeyOf[r]}
    /\ UNCHANGED <<count, pc, sends, unanswered, verdict, counted, orphans>>

\* EXPIRE, whose error nobody looks at; it does nothing if the key is gone.
Expire(r) ==
    /\ pc[r] = "expire"
    /\ Decide(r, "admitted")
    /\ \/ /\ ttl' = IF count[KeyOf[r]] > 0 THEN ttl \cup {KeyOf[r]} ELSE ttl
          /\ UNCHANGED orphans
       \/ /\ orphans' = IF count[KeyOf[r]] > 0 THEN orphans \cup {KeyOf[r]} ELSE orphans
          /\ UNCHANGED ttl
    /\ UNCHANGED <<count, sends, unanswered, counted>>

\* The key is gone with what it counted.
Forget(gone) ==
    /\ count' = [k \in Keys |-> IF k \in gone THEN 0 ELSE count[k]]
    /\ counted' = [k \in Keys |-> IF k \in gone THEN {} ELSE counted[k]]
    /\ ttl' = ttl \ gone
    /\ orphans' = orphans \ gone
    /\ UNCHANGED <<pc, sends, unanswered, verdict>>

\* The minute of a key is over.
Elapse(k) == k \in ttl /\ Forget({k})

\* Redis restarts without its data: docker-compose.yml gives it no volume.
RedisRestart == (\E k \in Keys : count[k] > 0) /\ Forget(Keys)

\* The gateway stops between INCR and EXPIRE, or between an INCR and its retry.
GatewayRestart ==
    /\ \E r \in Requests : pc[r] \in {"incr", "expire"}
    /\ pc' = [r \in Requests |-> IF pc[r] \in {"incr", "expire"} THEN "done" ELSE pc[r]]
    /\ verdict' = [r \in Requests |-> CASE pc[r] = "incr"   -> "dropped"
                                        [] pc[r] = "expire" -> "killed"
                                        [] OTHER            -> verdict[r]]
    /\ orphans' = orphans \cup
          {k \in Keys : count[k] > 0 /\ \E r \in Requests : pc[r] = "expire" /\ KeyOf[r] = k}
    /\ UNCHANGED <<count, ttl, sends, unanswered, counted>>

Next ==
    \/ \E r \in Requests :
          Incr(r) \/ IncrIsRetried(r) \/ IncrFails(r) \/ ExpireIsRetried(r) \/ Expire(r)
    \/ \E e \in unanswered : IncrUnseen(e)
    \/ \E k \in Keys : Elapse(k)
    \/ RedisRestart \/ GatewayRestart

Spec == Init /\ [][Next]_vars

\* A running request runs, a minute passes.
FairSpec ==
    /\ Spec
    /\ \A r \in Requests : WF_vars(Expire(r))
    /\ \A k \in Keys : WF_vars(Elapse(k))

-----------------------------------------------------------------------------
(* The middleware implements a limiter of fixed windows.                    *)

\* Whom INCR found within the limit passes, with or without its EXPIRE; a request
\* the gateway drops before INCR is answered is never decided.
Decisions ==
    [r \in Requests |-> IF pc[r] \in {"idle", "incr"} \/ verdict[r] = "dropped" THEN "none"
                        ELSE IF verdict[r] \in {"limited", "uncounted"} THEN verdict[r]
                        ELSE "passed"]

Window == INSTANCE FixedWindow WITH
    Room <- MaxRate, Tries <- MaxSends,
    window <- count, decision <- Decisions, tried <- sends, open <- unanswered

\* Nobody is let pass beyond the limit, and whoever is turned away was so by INCRs of
\* the present key, of which a request sends MaxSends at most: although the counter is
\* read, given its expiry, forgotten and compared (rl.go:49-63) in steps between which
\* other requests, retries, errors and restarts come.
ImplementsWindow == Window!Spec

-----------------------------------------------------------------------------
(* Properties                                                               *)

\* The INCRs whose reply let a request pass, or will when EXPIRE is sent.
Passed(k) ==
    {e \in counted[k] : e[2] = sends[e[1]] /\ (verdict[e[1]] = "admitted" \/ pc[e[1]] = "expire")}

\* The counter counts every INCR Redis has seen once, retries of the client included,
\* and of the requests behind them no more than MaxRate pass, however their commands
\* interleave (rl.go:49-63); requests pass beyond that only when INCR fails.
RateHolds ==
    \A k \in Keys :
        /\ count[k] = Cardinality(counted[k])
        /\ Cardinality(Passed(k)) <= MaxRate

\* A key without an expiry is about to get one, unless a fault came between INCR
\* and EXPIRE (rl.go:55-57).
ExpiryIsComing ==
    \A k \in Keys : count[k] > 0 /\ k \notin ttl =>
        k \in orphans \/ \E r \in Requests : KeyOf[r] = k /\ pc[r] = "expire"

\* An INCR is counted once at most, when it was sent and not before, and the one that
\* nobody waits for any more is not the one that was answered (rl.go:49).
CountedOnce ==
    /\ \A k \in Keys : \A e \in counted[k] : KeyOf[e[1]] = k /\ e[2] <= sends[e[1]]
    /\ \A e \in unanswered :
          /\ e \notin counted[KeyOf[e[1]]] /\ e[2] <= sends[e[1]]
          /\ e[2] = sends[e[1]] => pc[e[1]] = "incr" \/ verdict[e[1]] \in {"uncounted", "dropped"}

\* The inductive invariant: what passed was counted, and a request that is to send
\* EXPIRE, or INCR again, has no verdict yet.
IInv ==
    /\ TypeOK
    /\ \A r \in Requests : verdict[r] = "none" <=> pc[r] # "done"
    /\ \A r \in Requests : pc[r] = "incr" => sends[r] < MaxSends
    /\ CountedOnce
    /\ RateHolds
    /\ ExpiryIsComing

\* Whoever is limited is not limited for good, unless such a fault left the key
\* without an expiry.
LimitEnds ==
    \A k \in Keys : count[k] > MaxRate ~> count[k] = 0 \/ k \in orphans
=============================================================================
