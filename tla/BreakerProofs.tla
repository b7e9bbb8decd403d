---------------------------- MODULE BreakerProofs ----------------------------
(***************************************************************************)
(* Theorems about Breaker for every finite set of callers and all limits.  *)
(***************************************************************************)
EXTENDS Breaker, FiniteSetTheorems, TLAPS

\* What can be said of a breaker alone, whatever the calls do.
Breakers == [state : States, fresh : SUBSET Callers, requests : Nat,
             successes : Nat, failures : Nat, expired : BOOLEAN]

Sound(b) ==
    /\ b \in Breakers
    /\ b.state = "closed" => b.requests = 0 /\ b.successes = 0 /\ b.failures <= FailureLimit
    /\ b.state = "open" =>
          b.requests = 0 /\ b.successes = 0 /\ b.failures = 0 /\ b.fresh = {}
    /\ b.state = "halfOpen" =>
          /\ ~b.expired /\ b.failures = 0 /\ b.successes < MaxRequests
          /\ b.requests = Cardinality(b.fresh) + b.successes
          /\ b.requests <= MaxRequests

\* The inductive invariant says that the breaker is sound and only running calls
\* count.
LEMMA InvariantParts ==
    IInv <=> TypeOK /\ Sound(cb) /\ \A c \in cb.fresh : pc[c] # "idle"
  BY DEF IInv, TypeOK, Sound, Breakers, ProbesAccounted, OpenForgets

\* Sets of calls are finite; a call counts once.
LEMMA CountCalls ==
    ASSUME NEW S \in SUBSET Callers, NEW c \in Callers
    PROVE  /\ Cardinality(S) \in Nat
           /\ c \notin S => Cardinality(S \cup {c}) = Cardinality(S) + 1
           /\ c \in S => Cardinality(S \ {c}) = Cardinality(S) - 1
           /\ c \in S /\ Cardinality(S) = 1 => S = {c}
<1>1. IsFiniteSet(S)
  BY CallersAssumption, FS_Subset
<1>2. Cardinality(S) \in Nat /\ IsFiniteSet(S \ {c})
  BY <1>1, FS_CardinalityType, FS_Subset
<1>3. c \notin S => Cardinality(S \cup {c}) = Cardinality(S) + 1
  BY <1>1, FS_AddElement
<1>4. c \in S => Cardinality(S \ {c}) = Cardinality(S) - 1
  BY <1>1, FS_RemoveElement
<1>5. ASSUME c \in S, Cardinality(S) = 1 PROVE S = {c}
  <2>1. Cardinality(S \ {c}) = 0
    BY <1>2, <1>4, <1>5
  <2>2. S \ {c} = {}
    BY <1>2, <2>1, FS_EmptySet
  <2>3. QED
    BY <1>5, <2>2
<1>6. QED
  BY <1>2, <1>3, <1>4, <1>5

\* A new generation is sound.
LEMMA NewGenerationSound ==
    ASSUME NEW s \in States
    PROVE  Sound(NewGeneration(s)) /\ NewGeneration(s).fresh = {}
<1>1. Cardinality({}) = 0
  BY FS_EmptySet
<1>2. QED
  BY <1>1, LimitsAssumption DEF Sound, Breakers, NewGeneration, States

\* Looking at the clock keeps the breaker sound and counts no call anew.
LEMMA CurrentSound ==
    ASSUME NEW b, Sound(b)
    PROVE  /\ Sound(Current(b)) /\ Current(b).fresh \subseteq b.fresh
           /\ b.state = "halfOpen" => Current(b) = b
           /\ b.state # "halfOpen" => (Current(b).state = "halfOpen" => Current(b).fresh = {})
<1>1. b.expired \in BOOLEAN /\ b.state \in States
  BY DEF Sound, Breakers
<1>2. CASE ~b.expired
  BY <1>2 DEF Current, Sound
<1>3. CASE b.expired /\ b.state = "closed"
  BY <1>3, NewGenerationSound DEF Current, States, NewGeneration
<1>4. CASE b.expired /\ b.state # "closed"
  BY <1>4, NewGenerationSound DEF Current, States, NewGeneration, Sound
<1>5. QED
  BY <1>1, <1>2, <1>3, <1>4

\* A call that is admitted counts.
LEMMA OnRequestSound ==
    ASSUME NEW b, Sound(b), Admits(b), NEW c \in Callers, c \notin b.fresh
    PROVE  Sound(OnRequest(b, c)) /\ OnRequest(b, c).fresh = b.fresh \cup {c}
<1>1. /\ b \in Breakers /\ b.fresh \in SUBSET Callers
      /\ Cardinality(b.fresh \cup {c}) = Cardinality(b.fresh) + 1 /\ Cardinality(b.fresh) \in Nat
  BY CountCalls DEF Sound, Breakers
<1>2. CASE b.state = "closed"
  BY <1>1, <1>2 DEF Sound, Breakers, OnRequest
<1>3. CASE b.state = "halfOpen" /\ b.requests < MaxRequests
  <2> DEFINE joined == [b EXCEPT !.fresh = @ \cup {c}]
  <2>1. /\ joined \in Breakers /\ joined.state = "halfOpen"
        /\ joined.fresh = b.fresh \cup {c} /\ joined.requests = b.requests
        /\ joined.successes = b.successes /\ joined.failures = b.failures
        /\ joined.expired = b.expired
    BY <1>1, <1>3 DEF Breakers
  <2>2. OnRequest(b, c) = [joined EXCEPT !.requests = @ + 1]
    BY <1>3 DEF OnRequest
  <2>3. b.requests \in Nat /\ b.successes \in Nat
    BY <1>1 DEF Breakers
  <2> HIDE DEF joined
  <2>4. /\ OnRequest(b, c) \in Breakers /\ OnRequest(b, c).state = "halfOpen"
        /\ OnRequest(b, c).fresh = joined.fresh
        /\ OnRequest(b, c).requests = b.requests + 1
        /\ OnRequest(b, c).successes = joined.successes
        /\ OnRequest(b, c).failures = joined.failures /\ OnRequest(b, c).expired = joined.expired
    BY <2>1, <2>2 DEF Breakers
  <2>5. QED
    BY <1>1, <1>3, <2>1, <2>3, <2>4, LimitsAssumption DEF Sound
<1>4. QED
  BY <1>2, <1>3 DEF Admits

\* A call that ends keeps the breaker sound, and closes a half-open one only if
\* it is the last probe and succeeds.
LEMMA AfterRequestSound ==
    ASSUME NEW b, Sound(b), NEW c \in Callers, NEW ok \in BOOLEAN
    PROVE  LET after == AfterRequest(b, c, ok)
           IN  /\ Sound(after) /\ after.fresh \subseteq b.fresh \ {c}
               /\ b.state = "halfOpen" /\ after.state = "closed" => b.fresh = {c} /\ ok
<1> DEFINE mine == [b EXCEPT !.fresh = @ \ {c}]
<1>1. b \in Breakers /\ b.fresh \in SUBSET Callers /\ Cardinality(b.fresh) \in Nat
  BY CountCalls DEF Sound, Breakers
<1>a. /\ mine \in Breakers /\ mine.state = b.state /\ mine.fresh = b.fresh \ {c}
      /\ mine.requests = b.requests /\ mine.successes = b.successes
      /\ mine.failures = b.failures /\ mine.expired = b.expired
  BY <1>1 DEF Breakers
<1>b. c \in b.fresh => AfterRequest(b, c, ok) = IF ok THEN OnSuccess(mine) ELSE OnFailure(mine)
  BY DEF AfterRequest
<1> HIDE DEF mine
<1>2. CASE c \notin b.fresh
  BY <1>1, <1>2 DEF AfterRequest
<1>3. CASE c \in b.fresh /\ b.state = "closed"
  <2>1. Sound(mine) /\ mine.fresh = b.fresh \ {c} /\ mine.state = "closed"
    BY <1>1, <1>a, <1>3 DEF Sound
  <2>2. CASE ok
    <3>1. AfterRequest(b, c, ok) = [mine EXCEPT !.failures = 0]
      BY <1>b, <1>3, <2>1, <2>2 DEF OnSuccess
    <3>2. QED
      BY <1>1, <1>a, <2>1, <3>1, LimitsAssumption DEF Sound, Breakers
  <2>3. CASE ~ok /\ b.failures < FailureLimit
    <3>1. AfterRequest(b, c, ok) = [mine EXCEPT !.failures = b.failures + 1]
      BY <1>a, <1>b, <1>3, <2>1, <2>3 DEF OnFailure
    <3>2. b.failures \in Nat
      BY <1>1 DEF Breakers
    <3>3. QED
      BY <1>a, <2>1, <2>3, <3>1, <3>2, LimitsAssumption DEF Sound, Breakers
  <2>4. CASE ~ok /\ ~(b.failures < FailureLimit)
    <3>1. AfterRequest(b, c, ok) = NewGeneration("open")
      BY <1>a, <1>b, <1>3, <2>4 DEF OnFailure
    <3>2. QED
      BY <1>3, <3>1, NewGenerationSound DEF NewGeneration, States
  <2>5. QED
    BY <2>2, <2>3, <2>4
<1>4. CASE c \in b.fresh /\ b.state = "halfOpen"
  <2>1. /\ mine.state = "halfOpen" /\ mine.successes = b.successes
        /\ mine.fresh = b.fresh \ {c}
        /\ Cardinality(mine.fresh) = Cardinality(b.fresh) - 1
        /\ Cardinality(b.fresh) = 1 => b.fresh = {c}
    BY <1>1, <1>a, <1>4, CountCalls
  <2>2. b.requests = Cardinality(b.fresh) + b.successes /\ b.requests <= MaxRequests
    BY <1>4 DEF Sound
  <2>3. CASE ok /\ b.successes + 1 >= MaxRequests
    <3>1. AfterRequest(b, c, ok) = NewGeneration("closed")
      BY <1>b, <1>4, <2>1, <2>3 DEF OnSuccess
    <3>2. Cardinality(b.fresh) = 1
      <4>1. Cardinality(mine.fresh) \in Nat
        BY <1>1, <2>1, CountCalls
      <4>2. QED
        BY <1>1, <2>1, <2>2, <2>3, <4>1, LimitsAssumption DEF Breakers
    <3>3. QED
      BY <2>1, <2>3, <3>1, <3>2, NewGenerationSound DEF States
  <2>4. CASE ok /\ ~(b.successes + 1 >= MaxRequests)
    <3>1. AfterRequest(b, c, ok) = [mine EXCEPT !.successes = b.successes + 1]
      BY <1>b, <1>4, <2>1, <2>4 DEF OnSuccess
    <3> DEFINE after == [mine EXCEPT !.successes = b.successes + 1]
    <3>2. b.successes \in Nat /\ b.requests \in Nat
      BY <1>1 DEF Breakers
    <3>3. /\ after \in Breakers /\ after.state = "halfOpen"
          /\ after.fresh = mine.fresh /\ after.requests = b.requests
          /\ after.successes = b.successes + 1 /\ after.failures = b.failures
          /\ after.expired = b.expired
      BY <1>a, <1>4, <2>1, <3>2 DEF Breakers
    <3> HIDE DEF after
    <3>4. Sound(after)
      BY <1>1, <1>a, <1>4, <2>1, <2>2, <2>4, <3>2, <3>3, LimitsAssumption DEF Sound
    <3>5. AfterRequest(b, c, ok) = after
      BY <3>1 DEF after
    <3>6. QED
      BY <2>1, <3>3, <3>4, <3>5
  <2>5. CASE ~ok
    <3>1. AfterRequest(b, c, ok) = NewGeneration("open")
      BY <1>b, <1>4, <2>1, <2>5 DEF OnFailure
    <3>2. QED
      BY <2>5, <3>1, NewGenerationSound DEF NewGeneration, States
  <2>6. QED
    BY <2>3, <2>4, <2>5
<1>5. CASE c \in b.fresh /\ b.state = "open"
  BY <1>5 DEF Sound
<1>6. QED
  BY <1>1, <1>2, <1>3, <1>4, <1>5 DEF Breakers, States

-----------------------------------------------------------------------------
(* The steps of the gateway                                                 *)

\* TypeOK says of the breaker what Sound says, and of the rest the following.
Rest ==
    /\ pc \in [Callers -> {"idle", "attempt", "sleep", "settle"}]
    /\ tries \in [Callers -> 0 .. MaxRetries - 1]
    /\ result \in [Callers -> Results]
    /\ up \in BOOLEAN

LEMMA StepPreserves ==
    ASSUME Sound(cb)', Rest', (\A c \in cb.fresh : pc[c] # "idle")'
    PROVE  IInv'
<1>1. TypeOK'
  BY DEF TypeOK, Sound, Breakers, Rest
<1>2. QED
  BY <1>1 DEF IInv, Sound, ProbesAccounted, OpenForgets

LEMMA InitIInv == Init => IInv
<1> SUFFICES ASSUME Init PROVE IInv
  OBVIOUS
<1>1. Sound(cb) /\ cb.fresh = {}
  BY NewGenerationSound DEF Init, States
<1>2. Rest
  <2>1. 0 \in 0 .. MaxRetries - 1
    BY LimitsAssumption
  <2>2. QED
    BY <2>1 DEF Init, Rest, Results
<1>3. TypeOK
  BY <1>1, <1>2 DEF TypeOK, Sound, Breakers, Rest
<1>4. QED
  BY <1>1, <1>3, InvariantParts

LEMMA AdmitStep ==
    ASSUME IInv, NEW c \in Callers, Admit(c)
    PROVE  IInv' /\ (cb.state = "halfOpen" => cb'.state = "halfOpen")
<1> DEFINE b == Current(cb)
<1>1. Sound(cb) /\ c \notin cb.fresh /\ \A d \in cb.fresh : pc[d] # "idle"
  BY InvariantParts DEF Admit
<1>2. /\ Sound(b) /\ b.fresh \subseteq cb.fresh
      /\ cb.state = "halfOpen" => b.state = "halfOpen"
  BY <1>1, CurrentSound
<1>3. Rest'
  BY DEF IInv, TypeOK, Rest, Admit, Results
<1>4. CASE Admits(b) /\ cb' = OnRequest(b, c) /\ pc' = [pc EXCEPT ![c] = "attempt"]
  <2>1. Sound(cb') /\ cb'.fresh = b.fresh \cup {c}
    BY <1>1, <1>2, <1>4, OnRequestSound
  <2>2. \A d \in cb'.fresh : pc'[d] # "idle"
    BY <1>1, <1>2, <1>4, <2>1 DEF IInv, TypeOK
  <2>3. cb'.state = b.state
    BY <1>2, <1>4 DEF OnRequest, Sound, Breakers
  <2>4. QED
    BY <1>2, <1>3, <2>1, <2>2, <2>3, StepPreserves DEF Sound
<1>5. CASE cb' = b /\ UNCHANGED pc
  <2>1. Sound(cb') /\ \A d \in cb'.fresh : pc'[d] # "idle"
    BY <1>1, <1>2, <1>5
  <2>2. QED
    BY <1>2, <1>3, <1>5, <2>1, StepPreserves DEF Sound
<1>6. QED
  BY <1>4, <1>5 DEF Admit

LEMMA AttemptStep ==
    ASSUME IInv, NEW c \in Callers, Answer(c) \/ Wake(c)
    PROVE  IInv' /\ cb' = cb
<1>1. Sound(cb) /\ \A d \in cb.fresh : pc[d] # "idle"
  BY InvariantParts
<1>2. cb' = cb /\ \A d \in Callers : pc[d] # "idle" => pc'[d] # "idle"
  BY DEF IInv, TypeOK, Answer, Wake
<1>3. Rest'
  BY LimitsAssumption DEF IInv, TypeOK, Rest, Answer, Wake, Results
<1>4. Sound(cb') /\ \A d \in cb'.fresh : pc'[d] # "idle"
  BY <1>1, <1>2 DEF Sound, Breakers
<1>5. QED
  BY <1>2, <1>3, <1>4, StepPreserves DEF Sound

LEMMA SettleStep ==
    ASSUME IInv, NEW c \in Callers, Settle(c)
    PROVE  /\ IInv'
           /\ cb.state = "halfOpen" /\ cb'.state = "closed"
                => cb.fresh = {c} /\ result[c] = "ok"
<1> DEFINE b == Current(cb)
<1> DEFINE ok == result[c] = "ok"
<1>1. Sound(cb) /\ \A d \in cb.fresh : pc[d] # "idle"
  BY InvariantParts
<1>2. Sound(b) /\ b.fresh \subseteq cb.fresh /\ (cb.state = "halfOpen" => b = cb)
  BY <1>1, CurrentSound
<1>3. ok \in BOOLEAN /\ cb' = AfterRequest(b, c, ok) /\ pc' = [pc EXCEPT ![c] = "idle"]
  BY DEF Settle
<1> HIDE DEF ok, b
<1>4. /\ Sound(cb') /\ cb'.fresh \subseteq b.fresh \ {c}
      /\ b.state = "halfOpen" /\ cb'.state = "closed" => b.fresh = {c} /\ ok
  BY <1>2, <1>3, AfterRequestSound
<1>5. Rest'
  BY LimitsAssumption DEF IInv, TypeOK, Rest, Settle
<1>6. \A d \in cb'.fresh : pc'[d] # "idle"
  <2>1. SUFFICES ASSUME NEW d \in cb'.fresh PROVE pc'[d] # "idle"
    OBVIOUS
  <2>2. d # c /\ d \in cb.fresh /\ d \in Callers
    BY <1>1, <1>2, <1>4 DEF Sound, Breakers
  <2>3. QED
    BY <1>1, <1>3, <2>2 DEF IInv, TypeOK
<1>7. IInv'
  BY <1>4, <1>5, <1>6, StepPreserves DEF Sound
<1>8. QED
  BY <1>2, <1>4, <1>7 DEF ok

LEMMA ClockStep ==
    ASSUME IInv, Tick
    PROVE  IInv' /\ cb.state # "halfOpen"
<1>1. Sound(cb) /\ \A d \in cb.fresh : pc[d] # "idle"
  BY InvariantParts
<1>2. Sound(cb') /\ cb'.fresh = cb.fresh
  BY <1>1 DEF Tick, Sound, Breakers
<1>3. Rest'
  BY DEF IInv, TypeOK, Rest, Tick
<1>4. QED
  BY <1>1, <1>2, <1>3, StepPreserves DEF Tick, Sound

LEMMA BackendStep ==
    ASSUME IInv, Fail \/ Repair \/ UNCHANGED vars
    PROVE  IInv' /\ cb' = cb
<1>1. UNCHANGED <<cb, pc, tries, result>> /\ up' \in BOOLEAN
  BY DEF Fail, Repair, vars, IInv, TypeOK
<1>2. QED
  BY <1>1 DEF IInv, TypeOK, ProbesAccounted, OpenForgets

\* Every step keeps the invariant, and closes a half-open breaker only with the
\* last probe.
LEMMA NextStep ==
    ASSUME IInv, [Next]_vars
    PROVE  /\ IInv'
           /\ cb.state = "halfOpen" /\ cb'.state = "closed"
                => \E c \in Callers : cb.fresh = {c} /\ result[c] = "ok"
<1>1. ASSUME NEW c \in Callers, Admit(c) PROVE IInv' /\ (cb.state = "halfOpen" => cb'.state = "halfOpen")
  BY <1>1, AdmitStep
<1>2. ASSUME NEW c \in Callers, Answer(c) \/ Wake(c) PROVE IInv' /\ cb' = cb
  BY <1>2, AttemptStep
<1>3. ASSUME NEW c \in Callers, Settle(c)
      PROVE  /\ IInv'
             /\ cb.state = "halfOpen" /\ cb'.state = "closed" => cb.fresh = {c} /\ result[c] = "ok"
  BY <1>3, SettleStep
<1>4. Tick => IInv' /\ cb.state # "halfOpen"
  BY ClockStep
<1>5. Fail \/ Repair \/ UNCHANGED vars => IInv' /\ cb' = cb
  BY BackendStep
<1>6. QED
  BY <1>1, <1>2, <1>3, <1>4, <1>5 DEF Next, Proceed, Resume

-----------------------------------------------------------------------------
(* The breaker is a circuit                                                 *)

\* After a look at the clock there is nothing new to see.
LEMMA LooksOnce ==
    /\ \A b \in Breakers : ~Current(b).expired
    /\ \A b : ~b.expired => Current(b) = b
  BY DEF Current, NewGeneration, Breakers, States

LEMMA AdmitIsPass ==
    ASSUME IInv, NEW c \in Callers, Admit(c)
    PROVE  Circuit!Pass(c) \/ UNCHANGED Circuit!circuit
<1> DEFINE b == Current(cb)
<1>1. Sound(cb) /\ Sound(b) /\ ~b.expired /\ c \notin b.fresh
  BY InvariantParts, CurrentSound, LooksOnce DEF Admit, Sound
<1>2. b \in Breakers /\ b.successes \in Nat /\ b.requests \in Nat
  BY <1>1 DEF Sound, Breakers
<1>3. CASE Admits(b) /\ cb' = OnRequest(b, c)
  <2>1. /\ cb'.state = b.state /\ cb'.fresh = b.fresh \cup {c} /\ cb'.successes = b.successes
        /\ cb'.failures = b.failures /\ ~cb'.expired
    BY <1>1, <1>2, <1>3 DEF OnRequest, Breakers
  <2>2. Current(cb)' = cb'
    BY <2>1, LooksOnce
  <2> HIDE DEF b
  <2>3. b.state = "closed" \/ (b.state = "halfOpen" /\ Cardinality(b.fresh) + b.successes < MaxRequests)
    BY <1>1, <1>3 DEF Admits, Sound
  <2>4. /\ Current(cb)'.state = b.state /\ Current(cb)'.fresh = b.fresh \cup {c}
        /\ Current(cb)'.successes = b.successes /\ Current(cb)'.failures = b.failures
    BY <2>1, <2>2
  <2>5. Circuit!Cardinality(b.fresh) = Cardinality(b.fresh)
    BY DEF Circuit!Cardinality, Cardinality
  <2>6. QED
    BY <1>1, <2>3, <2>4, <2>5 DEF Circuit!Pass, b
<1>4. CASE cb' = b
  <2>1. Current(cb)' = b
    BY <1>1, <1>4, LooksOnce
  <2>2. QED
    BY <2>1 DEF Circuit!circuit
<1>5. QED
  BY <1>3, <1>4 DEF Admit

\* What a verdict that counts does to the breaker, field by field.
Fields(after, state, fresh, successes, failures) ==
    /\ after.state = state /\ after.fresh = fresh
    /\ after.successes = successes /\ after.failures = failures /\ ~after.expired

LEMMA Verdict ==
    ASSUME NEW b, Sound(b), ~b.expired, NEW c \in b.fresh, NEW ok \in BOOLEAN
    PROVE  LET after == AfterRequest(b, c, ok) IN
           \/ /\ b.state = "closed" /\ ok
              /\ Fields(after, "closed", b.fresh \ {c}, b.successes, 0)
           \/ /\ b.state = "closed" /\ ~ok /\ b.failures < FailureLimit
              /\ Fields(after, "closed", b.fresh \ {c}, b.successes, b.failures + 1)
           \/ /\ b.state = "closed" /\ ~ok /\ b.failures = FailureLimit
              /\ Fields(after, "open", {}, 0, 0)
           \/ /\ b.state = "halfOpen" /\ ok /\ b.successes + 1 < MaxRequests
              /\ Fields(after, "halfOpen", b.fresh \ {c}, b.successes + 1, b.failures)
           \/ /\ b.state = "halfOpen" /\ ok /\ b.successes + 1 = MaxRequests
              /\ Fields(after, "closed", {}, 0, 0)
           \/ /\ b.state = "halfOpen" /\ ~ok
              /\ Fields(after, "open", {}, 0, 0)
<1> DEFINE mine == [b EXCEPT !.fresh = @ \ {c}]
           after == AfterRequest(b, c, ok)
<1>1. b \in Breakers /\ b.failures \in Nat /\ b.successes \in Nat
  BY DEF Sound, Breakers
<1>2. mine \in Breakers /\ Fields(mine, b.state, b.fresh \ {c}, b.successes, b.failures)
  BY <1>1 DEF Breakers, Fields
<1>3. after = IF ok THEN OnSuccess(mine) ELSE OnFailure(mine)
  BY DEF AfterRequest
<1>4. /\ Fields(NewGeneration("open"), "open", {}, 0, 0)
      /\ Fields(NewGeneration("closed"), "closed", {}, 0, 0)
  BY DEF Fields, NewGeneration
<1>5. b.state \in {"closed", "halfOpen"}
  BY <1>1 DEF Sound, Breakers, States
<1> HIDE DEF mine, after
<1>6. CASE b.state = "closed"
  <2>1. b.failures <= FailureLimit /\ FailureLimit \in Nat
    BY <1>6, LimitsAssumption DEF Sound
  <2>2. CASE ok
    <3>1. after = [mine EXCEPT !.failures = 0]
      BY <1>2, <1>3, <1>6, <2>2 DEF OnSuccess, Fields
    <3>2. QED
      BY <1>2, <1>6, <2>2, <3>1 DEF Fields, Breakers, after
  <2>3. CASE ~ok /\ b.failures < FailureLimit
    <3>1. after = [mine EXCEPT !.failures = b.failures + 1]
      BY <1>2, <1>3, <1>6, <2>3 DEF OnFailure, Fields
    <3>2. QED
      BY <1>1, <1>2, <1>6, <2>3, <3>1 DEF Fields, Breakers, after
  <2>4. CASE ~ok /\ b.failures = FailureLimit
    <3>1. after = NewGeneration("open")
      BY <1>2, <1>3, <1>6, <2>1, <2>4 DEF OnFailure, Fields
    <3>2. QED
      BY <1>4, <1>6, <2>4, <3>1 DEF after
  <2>5. QED
    BY <1>1, <2>1, <2>2, <2>3, <2>4
<1>7. CASE b.state = "halfOpen"
  <2>1. b.successes < MaxRequests /\ MaxRequests \in Nat
    BY <1>7, LimitsAssumption DEF Sound
  <2>2. CASE ok /\ b.successes + 1 < MaxRequests
    <3>1. after = [mine EXCEPT !.successes = b.successes + 1]
      BY <1>1, <1>2, <1>3, <1>7, <2>1, <2>2 DEF OnSuccess, Fields
    <3>2. QED
      BY <1>1, <1>2, <1>7, <2>2, <3>1 DEF Fields, Breakers, after
  <2>3. CASE ok /\ b.successes + 1 = MaxRequests
    <3>1. after = NewGeneration("closed")
      BY <1>1, <1>2, <1>3, <1>7, <2>1, <2>3 DEF OnSuccess, Fields
    <3>2. QED
      BY <1>4, <1>7, <2>3, <3>1 DEF after
  <2>4. CASE ~ok
    <3>1. after = NewGeneration("open")
      BY <1>2, <1>3, <1>7, <2>4 DEF OnFailure, Fields
    <3>2. QED
      BY <1>4, <1>7, <2>4, <3>1 DEF after
  <2>5. QED
    BY <1>1, <2>1, <2>2, <2>3, <2>4
<1>8. QED
  BY <1>5, <1>6, <1>7

LEMMA SettleIsVerdict ==
    ASSUME IInv, NEW c \in Callers, Settle(c)
    PROVE  Circuit!Good(c) \/ Circuit!Bad(c) \/ UNCHANGED Circuit!circuit
<1> DEFINE b == Current(cb)
           ok == result[c] = "ok"
<1>1. Sound(b) /\ ~b.expired /\ cb' = AfterRequest(b, c, ok) /\ ok \in BOOLEAN
  BY InvariantParts, CurrentSound, LooksOnce DEF Settle, Sound
<1>2. CASE c \notin b.fresh
  <2>1. Current(cb)' = b
    BY <1>1, <1>2, LooksOnce DEF AfterRequest
  <2>2. QED
    BY <2>1 DEF Circuit!circuit
<1>3. CASE c \in b.fresh
  <2> HIDE DEF b, ok
  <2>1. \A state, fresh, n, m : Fields(cb', state, fresh, n, m) =>
            /\ Current(cb)'.state = state /\ Current(cb)'.fresh = fresh
            /\ Current(cb)'.successes = n /\ Current(cb)'.failures = m
    BY LooksOnce DEF Fields
  <2>2. \/ /\ b.state = "closed" /\ ok
           /\ Fields(cb', "closed", b.fresh \ {c}, b.successes, 0)
        \/ /\ b.state = "closed" /\ ~ok /\ b.failures < FailureLimit
           /\ Fields(cb', "closed", b.fresh \ {c}, b.successes, b.failures + 1)
        \/ /\ b.state = "closed" /\ ~ok /\ b.failures = FailureLimit
           /\ Fields(cb', "open", {}, 0, 0)
        \/ /\ b.state = "halfOpen" /\ ok /\ b.successes + 1 < MaxRequests
           /\ Fields(cb', "halfOpen", b.fresh \ {c}, b.successes + 1, b.failures)
        \/ /\ b.state = "halfOpen" /\ ok /\ b.successes + 1 = MaxRequests
           /\ Fields(cb', "closed", {}, 0, 0)
        \/ /\ b.state = "halfOpen" /\ ~ok
           /\ Fields(cb', "open", {}, 0, 0)
    BY <1>1, <1>3, Verdict
  <2>3. QED
    BY <1>3, <2>1, <2>2 DEF Circuit!Good, Circuit!Bad, Circuit!Reset, b
<1>4. QED
  BY <1>2, <1>3

LEMMA TickIsTime ==
    ASSUME IInv, Tick
    PROVE  Circuit!Time
<1>1. cb \in Breakers /\ cb.state \in {"closed", "open"} /\ Current(cb) = cb
  BY InvariantParts, LooksOnce DEF Tick, Sound, Breakers, States
<1>2. cb'.expired /\ cb'.state = cb.state
  BY <1>1 DEF Tick, Breakers
<1>3. Current(cb)' = NewGeneration(IF cb.state = "closed" THEN "closed" ELSE "halfOpen")
  BY <1>1, <1>2 DEF Current
<1>4. QED
  BY <1>1, <1>3 DEF Circuit!Time, Circuit!Reset, NewGeneration

-----------------------------------------------------------------------------
(* Calls wear out                                                           *)

LEMMA EffortStep ==
    ASSUME IInv, [Next]_vars, NEW c \in Callers
    PROVE  /\ Proceed(c) => Effort(c)' < Effort(c)
           /\ Effort(c)' > Effort(c) => pc[c] = "idle"
<1>1. /\ TypeOK /\ MaxRetries \in Nat /\ tries[c] \in 0 .. MaxRetries - 1
      /\ tries[c] \in Int /\ Effort(c) \in Int
  BY LimitsAssumption DEF IInv, TypeOK, Effort
<1>2. Answer(c) => Effort(c)' < Effort(c)
  <2>1. Answer(c) => /\ pc[c] = "attempt" /\ pc'[c] \in {"sleep", "settle"}
                     /\ tries'[c] = tries[c]
    BY <1>1 DEF Answer, TypeOK
  <2>2. QED
    BY <1>1, <2>1 DEF Effort
<1>3. Wake(c) => Effort(c)' < Effort(c)
  <2>1. Wake(c) => /\ pc[c] = "sleep"
                   /\ \/ pc'[c] = "attempt" /\ tries'[c] = tries[c] + 1
                      \/ pc'[c] = "settle"
    BY <1>1 DEF Wake, TypeOK
  <2>2. QED
    BY <1>1, <2>1 DEF Effort
<1>4. Settle(c) => Effort(c)' < Effort(c)
  <2>1. Settle(c) => pc[c] = "settle" /\ pc'[c] = "idle"
    BY <1>1 DEF Settle, TypeOK
  <2>2. QED
    BY <2>1 DEF Effort
<1>5. ASSUME ~Proceed(c), pc[c] # "idle" PROVE Effort(c)' = Effort(c)
  <2>1. pc'[c] = pc[c] /\ tries'[c] = tries[c]
    <3>1. ASSUME NEW d \in Callers, Admit(d) \/ Proceed(d) PROVE pc'[c] = pc[c] /\ tries'[c] = tries[c]
      BY <1>1, <1>5, <3>1 DEF Admit, Proceed, Resume, Answer, Wake, Settle, TypeOK
    <3>2. QED
      BY <3>1 DEF Next, Tick, Fail, Repair, vars
  <2>2. QED
    BY <2>1 DEF Effort
<1>6. Proceed(c) => Effort(c)' < Effort(c)
  BY <1>2, <1>3, <1>4 DEF Proceed, Resume
<1>7. Effort(c)' \in Int
  <2>1. TypeOK'
    BY NextStep DEF IInv
  <2>2. QED
    BY <1>1, <2>1 DEF TypeOK, Effort
<1>8. QED
  BY <1>1, <1>5, <1>6, <1>7

-----------------------------------------------------------------------------
(* The theorems                                                             *)

\* The inductive invariant holds in every reachable state.
THEOREM Invariance == Spec => []IInv
<1>1. Init => IInv
  BY InitIInv
<1>2. IInv /\ [Next]_vars => IInv'
  BY NextStep
<1>3. QED
  BY <1>1, <1>2, PTL DEF Spec

\* The state keeps its types; in particular no call makes more than MaxRetries
\* attempts (service.go:77).
THEOREM BreakerTypes == Spec => []TypeOK
<1>1. IInv => TypeOK
  BY DEF IInv
<1>2. QED
  BY <1>1, Invariance, PTL

\* The counters of a half-open breaker account for its running probes, of which
\* there are at most MaxRequests (cb.go:12).
THEOREM ProbesAreAccounted == Spec => []ProbesAccounted
<1>1. IInv => ProbesAccounted
  BY DEF IInv
<1>2. QED
  BY <1>1, Invariance, PTL

\* An open breaker has forgotten the calls that were running when it opened.
THEOREM OpenHasForgotten == Spec => []OpenForgets
<1>1. IInv => OpenForgets
  BY DEF IInv
<1>2. QED
  BY <1>1, Invariance, PTL

\* A half-open breaker closes with the success of its last probe, so a probe that
\* does not return keeps it half-open.
THEOREM ClosesWithLastProbe == Spec => EveryProbeDecides
<1>1. IInv /\ [Next]_vars =>
        [cb.state = "halfOpen" /\ cb'.state = "closed"
           => \E c \in Callers : cb.fresh = {c} /\ result[c] = "ok"]_vars
  BY NextStep
<1>2. QED
  BY <1>1, Invariance, PTL DEF Spec, EveryProbeDecides

\* The shared, lazily timed breaker is a circuit: late verdicts have no say, and as
\* many probes as it asks for decide.
THEOREM Refinement == Spec => ImplementsCircuit
<1>1. Init => Circuit!Init
  <2> SUFFICES ASSUME Init PROVE Circuit!Init
    OBVIOUS
  <2>1. Current(cb) = NewGeneration("closed")
    BY DEF Init, Current, NewGeneration
  <2>2. QED
    BY <2>1 DEF Circuit!Init, NewGeneration
<1>2. ASSUME IInv, [Next]_vars PROVE [Circuit!Next]_(Circuit!circuit)
  <2>1. ASSUME NEW c \in Callers, Admit(c) \/ Settle(c)
        PROVE  [Circuit!Next]_(Circuit!circuit)
    BY <1>2, <2>1, AdmitIsPass, SettleIsVerdict DEF Circuit!Next
  <2>2. CASE Tick
    BY <1>2, <2>2, TickIsTime DEF Circuit!Next
  <2>3. CASE UNCHANGED cb
    BY <2>3 DEF Circuit!circuit
  <2>4. QED
    BY <1>2, <2>1, <2>2, <2>3 DEF Next, Proceed, Resume, Answer, Wake, Fail, Repair, vars
<1>3. QED
  BY <1>1, <1>2, Invariance, PTL DEF Spec, ImplementsCircuit, Circuit!Spec

\* A call wears out: what it has left to do only gets less until it has ended.
THEOREM CallsAreBounded == Spec => CallsWearOut
<1> DEFINE Less ==
    \A c \in Callers :
        /\ Proceed(c) => Effort(c)' < Effort(c)
        /\ Effort(c)' > Effort(c) => pc[c] = "idle"
<1>1. IInv /\ [Next]_vars => [Less]_vars
  BY EffortStep
<1>2. QED
  BY <1>1, Invariance, PTL DEF Spec, CallsWearOut
=============================================================================
