-------------------------- MODULE RateLimiterProofs --------------------------
(***************************************************************************)
(* Theorems about RateLimiter for every finite set of requests, all keys,  *)
(* every limit and every number of retries.                                *)
(***************************************************************************)
EXTENDS RateLimiter, FiniteSetTheorems, TLAPS

\* What INCRs there can be.
Increments == Requests \X (1 .. MaxSends)

\* They are finitely many; one more counts one more.
LEMMA CountIncrements ==
    ASSUME NEW S \in SUBSET Increments
    PROVE  /\ Cardinality(S) \in Nat
           /\ \A e \in Increments : e \notin S => Cardinality(S \cup {e}) = Cardinality(S) + 1
           /\ \A U \in SUBSET S : Cardinality(U) \in Nat /\ Cardinality(U) <= Cardinality(S)
<1>1. IsFiniteSet(S)
  <2>1. IsFiniteSet(1 .. MaxSends)
    BY SendsAssumption, FS_Interval
  <2>2. IsFiniteSet(Increments)
    BY <2>1, RequestsAssumption, FS_Product DEF Increments
  <2>3. QED
    BY <2>2, FS_Subset
<1>2. Cardinality(S) \in Nat
  BY <1>1, FS_CardinalityType
<1>3. \A e \in Increments : e \notin S => Cardinality(S \cup {e}) = Cardinality(S) + 1
  BY <1>1, FS_AddElement
<1>4. ASSUME NEW U \in SUBSET S
      PROVE  Cardinality(U) \in Nat /\ Cardinality(U) <= Cardinality(S)
  BY <1>1, FS_Subset, FS_CardinalityType
<1>5. QED
  BY <1>2, <1>3, <1>4

\* What passed was counted.
LEMMA PassedIsCounted ==
    ASSUME TypeOK, NEW k \in Keys
    PROVE  /\ counted[k] \in SUBSET Increments /\ Passed(k) \in SUBSET counted[k]
           /\ Cardinality(Passed(k)) \in Nat
           /\ Cardinality(Passed(k)) <= Cardinality(counted[k])
<1>1. counted[k] \in SUBSET Increments /\ Passed(k) \in SUBSET counted[k]
  BY DEF TypeOK, Passed, Increments
<1>2. QED
  BY <1>1, CountIncrements

\* No counter, nothing counted.
LEMMA InitIInv == Init => IInv
<1> SUFFICES ASSUME Init PROVE IInv
  OBVIOUS
<1>1. \A k \in Keys : counted[k] = {} /\ Passed(k) = {} /\ count[k] = 0
  BY DEF Init, Passed
<1>2. RateHolds
  BY <1>1, FS_EmptySet, RateAssumption DEF RateHolds
<1>3. TypeOK
  BY SendsAssumption DEF Init, TypeOK
<1>4. CountedOnce
  BY <1>1 DEF Init, CountedOnce
<1>5. QED
  BY <1>2, <1>3, <1>4 DEF Init, IInv, ExpiryIsComing

-----------------------------------------------------------------------------
\* An INCR counts for the key of its request, for no other, and only once.
LEMMA IncrementCounts ==
    ASSUME TypeOK, NEW e \in Increments, Increment(e)
    PROVE  /\ KeyOf[e[1]] \in Keys /\ count[KeyOf[e[1]]] \in Nat
           /\ count'[KeyOf[e[1]]] = count[KeyOf[e[1]]] + 1
           /\ counted'[KeyOf[e[1]]] = counted[KeyOf[e[1]]] \cup {e}
           /\ \A k \in Keys \ {KeyOf[e[1]]} : count'[k] = count[k] /\ counted'[k] = counted[k]
           /\ count' = [count EXCEPT ![KeyOf[e[1]]] = @ + 1]
           /\ count' \in [Keys -> Nat]
           /\ counted' \in [Keys -> SUBSET Increments]
<1>1. e[1] \in Requests /\ KeyOf[e[1]] \in Keys
  BY KeyAssumption DEF Increments
<1>2. QED
  BY <1>1 DEF TypeOK, Increment, Increments

\* A step that leaves counters and counted INCRs alone, and lets nobody pass who
\* did not pass before, keeps the rate.
LEMMA SamePassedKeepsRate ==
    ASSUME TypeOK, RateHolds, UNCHANGED <<count, counted>>,
           \A k \in Keys : Passed(k)' \subseteq Passed(k)
    PROVE  RateHolds'
<1> SUFFICES ASSUME NEW k \in Keys
             PROVE  count'[k] = Cardinality(counted'[k]) /\ Cardinality(Passed(k)') <= MaxRate
  BY DEF RateHolds
<1>1. Passed(k) \in SUBSET Increments /\ Passed(k)' \in SUBSET Passed(k)
  BY PassedIsCounted
<1>2. /\ Cardinality(Passed(k)') <= Cardinality(Passed(k)) /\ Cardinality(Passed(k)') \in Nat
      /\ Cardinality(Passed(k)) \in Nat
  BY <1>1, CountIncrements
<1>3. QED
  BY <1>2, RateAssumption DEF RateHolds

\* What passes is what passed before, or was counted within the limit.
PassesWithin(k) ==
    \/ Passed(k)' \subseteq Passed(k)
    \/ count'[k] <= MaxRate /\ Passed(k)' \subseteq counted'[k]

\* Then counting one INCR more keeps the rate.
LEMMA IncrementKeepsRate ==
    ASSUME TypeOK, RateHolds, NEW e \in Increments, e \notin counted[KeyOf[e[1]]], Increment(e),
           NEW k \in Keys, PassesWithin(k)
    PROVE  count'[k] = Cardinality(counted'[k]) /\ Cardinality(Passed(k)') <= MaxRate
<1>1. counted[k] \in SUBSET Increments /\ count[k] = Cardinality(counted[k]) /\ count[k] \in Nat
  BY PassedIsCounted DEF RateHolds, TypeOK
<1>2. count'[k] = Cardinality(counted'[k])
  <2>1. CASE k = KeyOf[e[1]]
    <3>1. counted'[k] = counted[k] \cup {e} /\ e \notin counted[k] /\ count'[k] = count[k] + 1
      BY <2>1, IncrementCounts
    <3>2. Cardinality(counted[k] \cup {e}) = Cardinality(counted[k]) + 1
      BY <1>1, <3>1, CountIncrements
    <3>3. QED
      BY <1>1, <3>1, <3>2
  <2>2. CASE k # KeyOf[e[1]]
    BY <1>1, <2>2, IncrementCounts
  <2>3. QED
    BY <2>1, <2>2
<1>3. Cardinality(Passed(k)') <= MaxRate
  <2>1. CASE Passed(k)' \subseteq Passed(k)
    <3>1. Passed(k) \in SUBSET Increments /\ Passed(k)' \in SUBSET Passed(k)
      BY <2>1, PassedIsCounted
    <3>2. /\ Cardinality(Passed(k)') <= Cardinality(Passed(k)) /\ Cardinality(Passed(k)') \in Nat
          /\ Cardinality(Passed(k)) \in Nat
      BY <3>1, CountIncrements
    <3>3. QED
      BY <3>2, RateAssumption DEF RateHolds
  <2>2. CASE count'[k] <= MaxRate /\ Passed(k)' \subseteq counted'[k]
    <3>1. counted'[k] \in SUBSET Increments /\ Passed(k)' \in SUBSET counted'[k]
      BY <2>2, IncrementCounts
    <3>2. /\ Cardinality(counted'[k]) \in Nat /\ Cardinality(Passed(k)') \in Nat
          /\ Cardinality(Passed(k)') <= Cardinality(counted'[k])
      BY <3>1, CountIncrements
    <3>3. QED
      BY <1>2, <2>2, <3>2, RateAssumption
  <2>3. QED
    BY <2>1, <2>2 DEF PassesWithin
<1>4. QED
  BY <1>2, <1>3

-----------------------------------------------------------------------------
(* One lemma per action.                                                    *)

\* An INCR that is sent is a new one.
LEMMA SendsOne ==
    ASSUME IInv, NEW r \in Requests, Sends(r)
    PROVE  /\ sends[r] \in Nat /\ sends'[r] = sends[r] + 1
           /\ sends' \in [Requests -> 0 .. MaxSends]
           /\ \A d \in Requests \ {r} : sends'[d] = sends[d]
           /\ <<r, sends'[r]>> \in Increments
           /\ KeyOf[r] \in Keys /\ <<r, sends'[r]>> \notin counted[KeyOf[r]]
           /\ <<r, sends'[r]>> \notin unanswered
           /\ pc[r] \in {"idle", "incr"} /\ verdict[r] = "none"
<1>1. /\ sends[r] \in Nat /\ sends'[r] = sends[r] + 1
      /\ sends' \in [Requests -> 0 .. MaxSends]
      /\ \A d \in Requests \ {r} : sends'[d] = sends[d]
  BY SendsAssumption DEF IInv, TypeOK, Sends
<1>2. <<r, sends'[r]>> \in Increments
  BY <1>1 DEF Increments
<1>3. KeyOf[r] \in Keys
  BY KeyAssumption
<1>4. <<r, sends'[r]>> \notin counted[KeyOf[r]] /\ <<r, sends'[r]>> \notin unanswered
  BY <1>1, <1>3 DEF IInv, CountedOnce
<1>5. pc[r] \in {"idle", "incr"} /\ verdict[r] = "none"
  BY DEF IInv, Sends
<1>6. QED
  BY <1>1, <1>2, <1>3, <1>4, <1>5

\* What was counted for a request that sends another INCR has not let it pass.
LEMMA SendsPassesNobody ==
    ASSUME IInv, NEW r \in Requests, Sends(r),
           \A d \in Requests \ {r} : pc'[d] = pc[d] /\ verdict'[d] = verdict[d]
    PROVE  \A k \in Keys : \A e \in counted[k] :
              e[2] = sends'[e[1]] /\ (verdict'[e[1]] = "admitted" \/ pc'[e[1]] = "expire")
                 => e \in Passed(k)
<1> SUFFICES ASSUME NEW k \in Keys, NEW e \in counted[k], e[2] = sends'[e[1]],
                    verdict'[e[1]] = "admitted" \/ pc'[e[1]] = "expire"
             PROVE  e \in Passed(k)
  OBVIOUS
<1>1. e \in Increments /\ e[1] \in Requests /\ e[2] \in Nat /\ e[2] <= sends[e[1]]
  BY DEF IInv, TypeOK, CountedOnce, Increments
<1>2. e[1] # r
  <2>1. sends[r] \in Nat /\ sends'[r] = sends[r] + 1
    BY SendsOne
  <2>2. QED
    BY <1>1, <2>1
<1>3. QED
  BY <1>1, <1>2, SendsOne DEF Passed

LEMMA IncrStep ==
    ASSUME IInv, NEW r \in Requests, Incr(r)
    PROVE  IInv'
<1> DEFINE k == KeyOf[r]
           e == <<r, sends'[r]>>
<1> USE DEF IInv
<1>1. Sends(r) /\ Increment(e) /\ UNCHANGED <<ttl, unanswered, orphans>>
  BY DEF Incr
<1>2. /\ e \in Increments /\ e[1] = r /\ e[2] = sends'[r] /\ k \in Keys /\ e \notin counted[k]
      /\ sends[r] \in Nat /\ sends'[r] = sends[r] + 1 /\ verdict[r] = "none"
      /\ pc[r] \in {"idle", "incr"}
      /\ \A d \in Requests \ {r} : sends'[d] = sends[d]
  BY <1>1, SendsOne
<1>3. /\ count[k] \in Nat /\ count'[k] = count[k] + 1 /\ counted'[k] = counted[k] \cup {e}
      /\ \A j \in Keys \ {k} : count'[j] = count[j] /\ counted'[j] = counted[j]
      /\ count' \in [Keys -> Nat] /\ counted' \in [Keys -> SUBSET Increments]
  BY <1>1, <1>2, IncrementCounts
<1>4. \A d \in Requests \ {r} : pc'[d] = pc[d] /\ verdict'[d] = verdict[d]
  BY DEF Incr, Decide, TypeOK
<1>5. \/ count'[k] = 1 /\ pc'[r] = "expire" /\ verdict'[r] = "none"
      \/ /\ count'[k] > 1 /\ pc'[r] = "done"
         /\ verdict'[r] = IF count'[k] <= MaxRate THEN "admitted" ELSE "limited"
  BY <1>2, <1>3 DEF Incr, Decide, Admits, TypeOK
<1>6. TypeOK'
  <2>1. pc' \in [Requests -> {"idle", "incr", "expire", "done"}]
    BY DEF Incr, Decide, TypeOK
  <2>2. verdict' \in [Requests -> Verdicts \cup {"none"}]
    BY DEF Incr, Decide, TypeOK, Verdicts
  <2>3. QED
    BY <1>1, <1>3, <2>1, <2>2, SendsOne DEF TypeOK, Increments
<1>7. RateHolds'
  <2>1. \A j \in Keys \ {k} : Passed(j)' \subseteq Passed(j)
    BY <1>1, <1>3, <1>4, SendsPassesNobody DEF Passed
  <2>2. Passed(k)' \subseteq counted'[k]
    BY DEF Passed
  <2>3. ~(count'[k] <= MaxRate) => verdict'[r] # "admitted" /\ pc'[r] # "expire"
    BY <1>3, <1>5, RateAssumption
  <2>4. ~(count'[k] <= MaxRate) => Passed(k)' \subseteq Passed(k)
    BY <1>1, <1>2, <1>3, <1>4, <2>3, SendsPassesNobody DEF Passed
  <2>5. \A j \in Keys : PassesWithin(j)
    BY <1>2, <2>1, <2>2, <2>4 DEF PassesWithin
  <2>6. e \in Increments /\ Increment(e) /\ e \notin counted[KeyOf[e[1]]]
    BY <1>1, <1>2
  <2>7. TypeOK /\ RateHolds
    OBVIOUS
  <2>8. ASSUME NEW j \in Keys
        PROVE  count'[j] = Cardinality(counted'[j]) /\ Cardinality(Passed(j)') <= MaxRate
    BY <2>5, <2>6, <2>7, IncrementKeepsRate
  <2>9. QED
    BY <2>8 DEF RateHolds
<1>8. \A d \in Requests : (verdict[d] = "none" <=> pc[d] # "done")' /\ (pc[d] = "incr" => sends[d] < MaxSends)'
  BY <1>2, <1>4, <1>5
<1>9. CountedOnce'
  <2>1. ASSUME NEW j \in Keys, NEW c \in counted'[j]
        PROVE  KeyOf[c[1]] = j /\ c[2] <= sends'[c[1]]
    <3>1. CASE c \in counted[j]
      <4>1. c[1] \in Requests /\ c[2] \in Nat /\ KeyOf[c[1]] = j /\ c[2] <= sends[c[1]]
        BY <3>1 DEF TypeOK, CountedOnce
      <4>2. QED
        BY <1>2, <4>1
    <3>2. CASE j = k /\ c = e
      BY <1>2, <3>2
    <3>3. QED
      BY <1>3, <2>1, <3>1, <3>2
  <2>2. ASSUME NEW c \in unanswered
        PROVE  /\ c \notin counted'[KeyOf[c[1]]] /\ c[2] <= sends'[c[1]]
               /\ c[2] = sends'[c[1]] => pc'[c[1]] = "incr" \/ verdict'[c[1]] \in {"uncounted", "dropped"}
    <3>1. c[1] \in Requests /\ c[2] \in Nat /\ KeyOf[c[1]] \in Keys
      BY KeyAssumption DEF TypeOK
    <3>2. /\ c \notin counted[KeyOf[c[1]]] /\ c[2] <= sends[c[1]]
          /\ c[2] = sends[c[1]] => pc[c[1]] = "incr" \/ verdict[c[1]] \in {"uncounted", "dropped"}
      BY <2>2 DEF CountedOnce
    <3>3. c # e
      BY <1>1, <2>2, SendsOne
    <3>4. QED
      BY <1>2, <1>3, <1>4, <3>1, <3>2, <3>3
  <2>3. QED
    BY <1>1, <2>1, <2>2 DEF CountedOnce
<1>10. ExpiryIsComing'
  <2>1. ASSUME NEW j \in Keys, count'[j] > 0, j \notin ttl
        PROVE  j \in orphans \/ \E d \in Requests : KeyOf[d] = j /\ pc'[d] = "expire"
    <3>1. CASE j = k /\ count'[k] = 1
      BY <1>3, <1>5, <3>1
    <3>2. CASE count[j] > 0
      BY <1>2, <1>4, <2>1, <3>2 DEF ExpiryIsComing
    <3>3. QED
      BY <1>2, <1>3, <2>1, <3>1, <3>2
  <2>2. QED
    BY <1>1, <2>1 DEF ExpiryIsComing
<1>11. QED
  BY <1>6, <1>7, <1>8, <1>9, <1>10

LEMMA GivesUpStep ==
    ASSUME IInv, NEW r \in Requests, IncrIsRetried(r) \/ IncrFails(r)
    PROVE  IInv'
<1> DEFINE e == <<r, sends'[r]>>
<1> USE DEF IInv
<1>1. Sends(r) /\ UNCHANGED <<count, ttl, counted, orphans>>
  BY DEF IncrIsRetried, IncrFails
<1>2. /\ e \in Increments /\ e[1] = r /\ e[2] = sends'[r] /\ KeyOf[r] \in Keys /\ e \notin counted[KeyOf[r]]
      /\ sends[r] \in Nat /\ sends'[r] = sends[r] + 1 /\ sends' \in [Requests -> 0 .. MaxSends]
      /\ verdict[r] = "none" /\ pc[r] \in {"idle", "incr"}
      /\ \A d \in Requests \ {r} : sends'[d] = sends[d]
  BY <1>1, SendsOne
<1>3. unanswered' = unanswered \/ unanswered' = unanswered \cup {e}
  BY DEF IncrIsRetried, IncrFails
<1>4. \A d \in Requests \ {r} : pc'[d] = pc[d] /\ verdict'[d] = verdict[d]
  BY DEF IncrIsRetried, IncrFails, Decide, TypeOK
<1>5. \/ pc'[r] = "incr" /\ verdict'[r] = "none" /\ sends'[r] < MaxSends
      \/ pc'[r] = "done" /\ verdict'[r] = "uncounted"
  BY <1>2 DEF IncrIsRetried, IncrFails, Decide, TypeOK
<1>6. TypeOK'
  <2>1. pc' \in [Requests -> {"idle", "incr", "expire", "done"}]
    BY DEF IncrIsRetried, IncrFails, Decide, TypeOK
  <2>2. verdict' \in [Requests -> Verdicts \cup {"none"}]
    BY DEF IncrIsRetried, IncrFails, Decide, TypeOK, Verdicts
  <2>3. unanswered' \subseteq Requests \X (1 .. MaxSends)
    BY <1>2, <1>3 DEF TypeOK, Increments
  <2>4. QED
    BY <1>1, <1>2, <2>1, <2>2, <2>3 DEF TypeOK
<1>7. RateHolds'
  <2>1. \A k \in Keys : Passed(k)' \subseteq Passed(k)
    BY <1>1, <1>4, SendsPassesNobody DEF Passed
  <2>2. QED
    BY <1>1, <2>1, SamePassedKeepsRate
<1>8. \A d \in Requests : (verdict[d] = "none" <=> pc[d] # "done")' /\ (pc[d] = "incr" => sends[d] < MaxSends)'
  BY <1>2, <1>4, <1>5
<1>9. CountedOnce'
  <2>1. ASSUME NEW j \in Keys, NEW c \in counted[j]
        PROVE  KeyOf[c[1]] = j /\ c[2] <= sends'[c[1]]
    <3>1. c[1] \in Requests /\ c[2] \in Nat /\ KeyOf[c[1]] = j /\ c[2] <= sends[c[1]]
      BY <2>1 DEF TypeOK, CountedOnce
    <3>2. QED
      BY <1>2, <3>1
  <2>2. ASSUME NEW c \in unanswered'
        PROVE  /\ c \notin counted[KeyOf[c[1]]] /\ c[2] <= sends'[c[1]]
               /\ c[2] = sends'[c[1]] => pc'[c[1]] = "incr" \/ verdict'[c[1]] \in {"uncounted", "dropped"}
    <3>1. CASE c = e
      BY <1>2, <1>5, <3>1
    <3>2. CASE c \in unanswered
      <4>1. /\ c[1] \in Requests /\ c[2] \in Nat /\ c \notin counted[KeyOf[c[1]]] /\ c[2] <= sends[c[1]]
            /\ c[2] = sends[c[1]] => pc[c[1]] = "incr" \/ verdict[c[1]] \in {"uncounted", "dropped"}
        BY <3>2 DEF TypeOK, CountedOnce
      <4>2. QED
        BY <1>2, <1>4, <4>1
    <3>3. QED
      BY <1>3, <2>2, <3>1, <3>2
  <2>3. QED
    BY <1>1, <2>1, <2>2 DEF CountedOnce
<1>10. ExpiryIsComing'
  BY <1>1, <1>2, <1>4 DEF ExpiryIsComing
<1>11. QED
  BY <1>6, <1>7, <1>8, <1>9, <1>10

LEMMA IncrUnseenStep ==
    ASSUME IInv, NEW e \in unanswered, IncrUnseen(e)
    PROVE  IInv'
<1> DEFINE k == KeyOf[e[1]]
<1> USE DEF IInv
<1>1. /\ Increment(e) /\ unanswered' = unanswered \ {e} /\ UNCHANGED <<ttl, pc, sends, verdict>>
      /\ orphans' = IF count'[k] = 1 THEN orphans \cup {k} ELSE orphans
  BY DEF IncrUnseen
<1>2. /\ e \in Increments /\ e[1] \in Requests /\ e \notin counted[k] /\ e[2] <= sends[e[1]]
      /\ e[2] = sends[e[1]] => pc[e[1]] = "incr" \/ verdict[e[1]] \in {"uncounted", "dropped"}
  BY DEF TypeOK, CountedOnce, Increments
<1>3. /\ k \in Keys /\ count[k] \in Nat /\ count'[k] = count[k] + 1 /\ counted'[k] = counted[k] \cup {e}
      /\ \A j \in Keys \ {k} : count'[j] = count[j] /\ counted'[j] = counted[j]
      /\ count' \in [Keys -> Nat] /\ counted' \in [Keys -> SUBSET Increments]
  BY <1>1, <1>2, IncrementCounts
<1>4. TypeOK'
  BY <1>1, <1>3 DEF TypeOK, Increments
<1>5. RateHolds'
  <2>1. ~(e[2] = sends[e[1]] /\ (verdict[e[1]] = "admitted" \/ pc[e[1]] = "expire"))
    BY <1>2
  <2>2. \A j \in Keys : Passed(j)' \subseteq Passed(j)
    BY <1>1, <1>3, <2>1 DEF Passed
  <2>3. TypeOK /\ RateHolds
    OBVIOUS
  <2>4. ASSUME NEW j \in Keys
        PROVE  count'[j] = Cardinality(counted'[j]) /\ Cardinality(Passed(j)') <= MaxRate
    <3>1. PassesWithin(j)
      BY <2>2 DEF PassesWithin
    <3>2. QED
      BY <1>1, <1>2, <2>3, <3>1, IncrementKeepsRate
  <2>5. QED
    BY <2>4 DEF RateHolds
<1>6. CountedOnce'
  <2>1. \A j \in Keys : \A c \in counted'[j] : KeyOf[c[1]] = j /\ c[2] <= sends[c[1]]
    BY <1>2, <1>3 DEF CountedOnce
  <2>2. ASSUME NEW c \in unanswered \ {e}
        PROVE  c \notin counted'[KeyOf[c[1]]]
    <3>1. KeyOf[c[1]] \in Keys
      BY KeyAssumption DEF TypeOK
    <3>2. QED
      BY <1>3, <3>1 DEF CountedOnce
  <2>3. QED
    BY <1>1, <2>1, <2>2 DEF CountedOnce
<1>7. ExpiryIsComing'
  <2>1. ASSUME NEW j \in Keys, count'[j] > 0, j \notin ttl
        PROVE  j \in orphans' \/ \E d \in Requests : KeyOf[d] = j /\ pc[d] = "expire"
    <3>1. CASE j = k /\ count[k] = 0
      BY <1>1, <1>3, <3>1
    <3>2. CASE count[j] > 0
      BY <1>1, <2>1, <3>2 DEF ExpiryIsComing
    <3>3. QED
      BY <1>3, <2>1, <3>1, <3>2
  <2>2. QED
    BY <1>1, <2>1 DEF ExpiryIsComing
<1>8. QED
  BY <1>1, <1>4, <1>5, <1>6, <1>7

LEMMA ExpireStep ==
    ASSUME IInv, NEW r \in Requests, Expire(r)
    PROVE  IInv'
<1> USE DEF IInv
<1>1. /\ pc[r] = "expire" /\ pc'[r] = "done" /\ verdict'[r] = "admitted"
      /\ \A d \in Requests \ {r} : pc'[d] = pc[d] /\ verdict'[d] = verdict[d]
      /\ UNCHANGED <<count, sends, unanswered, counted>>
  BY DEF Expire, Decide, TypeOK
<1>2. TypeOK'
  <2>1. KeyOf[r] \in Keys
    BY KeyAssumption
  <2>2. ttl' \subseteq Keys /\ orphans' \subseteq Keys
    BY <2>1 DEF Expire, TypeOK
  <2>3. /\ pc' \in [Requests -> {"idle", "incr", "expire", "done"}]
        /\ verdict' \in [Requests -> Verdicts \cup {"none"}]
    BY DEF Expire, Decide, TypeOK, Verdicts
  <2>4. QED
    BY <1>1, <2>2, <2>3 DEF TypeOK
<1>3. RateHolds'
  <2>1. \A k \in Keys : \A e \in counted[k] : e[1] \in Requests
    BY DEF TypeOK
  <2>2. \A k \in Keys : Passed(k)' \subseteq Passed(k)
    BY <1>1, <2>1 DEF Passed
  <2>3. QED
    BY <1>1, <2>2, SamePassedKeepsRate
<1>4. CountedOnce'
  <2>1. \A e \in unanswered : e[1] \in Requests
    BY DEF TypeOK
  <2>2. verdict[r] = "none"
    BY <1>1
  <2>3. QED
    BY <1>1, <2>1, <2>2 DEF CountedOnce
<1>5. ExpiryIsComing'
  <2>1. count[KeyOf[r]] > 0 => KeyOf[r] \in ttl' \cup orphans'
    BY DEF Expire
  <2>2. ttl \subseteq ttl' /\ orphans \subseteq orphans'
    BY DEF Expire
  <2>3. QED
    BY <1>1, <2>1, <2>2 DEF ExpiryIsComing
<1>6. QED
  BY <1>1, <1>2, <1>3, <1>4, <1>5 DEF TypeOK

LEMMA ExpireIsRetriedStep ==
    ASSUME IInv, NEW r \in Requests, ExpireIsRetried(r)
    PROVE  IInv'
<1> USE DEF IInv
<1>1. KeyOf[r] \in Keys
  BY KeyAssumption
<1>2. /\ UNCHANGED <<count, pc, sends, unanswered, verdict, counted, orphans>>
      /\ ttl \subseteq ttl' /\ ttl' \subseteq Keys
  BY <1>1 DEF ExpireIsRetried, TypeOK
<1>3. TypeOK' /\ CountedOnce' /\ ExpiryIsComing'
  BY <1>2 DEF TypeOK, CountedOnce, ExpiryIsComing
<1>4. RateHolds'
  BY <1>2 DEF RateHolds, Passed
<1>5. QED
  BY <1>2, <1>3, <1>4

\* A key that is gone begins again at nothing.
LEMMA ForgetStep ==
    ASSUME IInv, NEW gone \in SUBSET Keys, Forget(gone)
    PROVE  IInv'
<1> USE DEF IInv
<1>1. TypeOK'
  BY DEF Forget, TypeOK
<1>2. \A k \in gone : count'[k] = 0 /\ counted'[k] = {} /\ Passed(k)' = {}
  BY DEF Forget, Passed
<1>3. \A k \in Keys \ gone : count'[k] = count[k] /\ counted'[k] = counted[k] /\ Passed(k)' = Passed(k)
  BY DEF Forget, Passed
<1>4. RateHolds'
  <2>1. \A k \in gone : count'[k] = Cardinality(counted'[k]) /\ Cardinality(Passed(k)') <= MaxRate
    <3>1. SUFFICES ASSUME NEW k \in gone
                   PROVE  count'[k] = Cardinality(counted'[k]) /\ Cardinality(Passed(k)') <= MaxRate
      OBVIOUS
    <3>2. count'[k] = 0 /\ Cardinality(counted'[k]) = 0 /\ Cardinality(Passed(k)') = 0
      BY <1>2, FS_EmptySet, Zenon
    <3>3. QED
      BY <3>2, RateAssumption
  <2>2. \A k \in Keys \ gone :
           count'[k] = Cardinality(counted'[k]) /\ Cardinality(Passed(k)') <= MaxRate
    BY <1>3 DEF RateHolds
  <2>3. QED
    BY <2>1, <2>2 DEF RateHolds
<1>5. CountedOnce'
  <2>1. \A k \in Keys : counted'[k] \subseteq counted[k]
    BY <1>2, <1>3
  <2>2. \A e \in unanswered : KeyOf[e[1]] \in Keys
    BY KeyAssumption DEF TypeOK
  <2>3. QED
    BY <2>1, <2>2 DEF CountedOnce, Forget
<1>6. ExpiryIsComing'
  BY <1>2, <1>3 DEF ExpiryIsComing, Forget
<1>7. QED
  BY <1>1, <1>4, <1>5, <1>6 DEF Forget

LEMMA GatewayRestartStep ==
    ASSUME IInv, GatewayRestart
    PROVE  IInv'
<1> USE DEF IInv
<1>1. TypeOK'
  BY DEF GatewayRestart, TypeOK, Verdicts
<1>2. UNCHANGED <<count, sends, unanswered, counted, ttl>> /\ orphans \subseteq orphans'
  BY DEF GatewayRestart
<1>3. \A r \in Requests :
         \/ pc[r] = "expire" /\ pc'[r] = "done" /\ verdict'[r] = "killed"
         \/ pc[r] = "incr" /\ pc'[r] = "done" /\ verdict'[r] = "dropped"
         \/ pc[r] \in {"idle", "done"} /\ pc'[r] = pc[r] /\ verdict'[r] = verdict[r]
  BY DEF GatewayRestart, TypeOK
<1>4. RateHolds'
  <2>1. \A k \in Keys : \A e \in counted[k] : e[1] \in Requests
    BY DEF TypeOK
  <2>2. \A k \in Keys : Passed(k)' \subseteq Passed(k)
    BY <1>2, <1>3, <2>1 DEF Passed
  <2>3. QED
    BY <1>2, <2>2, SamePassedKeepsRate
<1>5. CountedOnce'
  <2>1. \A e \in unanswered : e[1] \in Requests
    BY DEF TypeOK
  <2>2. \A e \in unanswered : e[2] = sends[e[1]] =>
           pc'[e[1]] = "incr" \/ verdict'[e[1]] \in {"uncounted", "dropped"}
    BY <1>3, <2>1 DEF CountedOnce
  <2>3. QED
    BY <1>2, <2>2 DEF CountedOnce
<1>6. ExpiryIsComing'
  BY <1>2, KeyAssumption DEF ExpiryIsComing, GatewayRestart
<1>7. QED
  BY <1>1, <1>2, <1>3, <1>4, <1>5, <1>6

-----------------------------------------------------------------------------
\* The inductive invariant holds in every reachable state.
THEOREM Invariance == Spec => []IInv
<1>1. Init => IInv
  BY InitIInv
<1>2. ASSUME IInv, [Next]_vars PROVE IInv'
  <2>1. ASSUME NEW r \in Requests, Incr(r) \/ IncrIsRetried(r) \/ IncrFails(r) PROVE IInv'
    BY <1>2, <2>1, IncrStep, GivesUpStep
  <2>2. ASSUME NEW r \in Requests, ExpireIsRetried(r) \/ Expire(r) PROVE IInv'
    BY <1>2, <2>2, ExpireIsRetriedStep, ExpireStep
  <2>3. ASSUME NEW e \in unanswered, IncrUnseen(e) PROVE IInv'
    BY <1>2, <2>3, IncrUnseenStep
  <2>4. ASSUME NEW k \in Keys, Elapse(k) PROVE IInv'
    BY <1>2, <2>4, ForgetStep DEF Elapse
  <2>5. RedisRestart \/ GatewayRestart => IInv'
    BY <1>2, ForgetStep, GatewayRestartStep DEF RedisRestart
  <2>6. UNCHANGED vars => IInv'
    BY <1>2 DEF vars, IInv, TypeOK, RateHolds, Passed, ExpiryIsComing, CountedOnce
  <2>7. QED
    BY <1>2, <2>1, <2>2, <2>3, <2>4, <2>5, <2>6 DEF Next
<1>3. QED
  BY <1>1, <1>2, PTL DEF Spec

\* The state keeps its types.
THEOREM LimiterTypes == Spec => []TypeOK
<1>1. IInv => TypeOK
  BY DEF IInv
<1>2. QED
  BY <1>1, Invariance, PTL

\* The counter of a key is the number of INCRs that reached it, re-sent ones included,
\* and the replies of no more than MaxRate of them let a request pass (rl.go:49-63).
THEOREM RateIsKept == Spec => []RateHolds
<1>1. IInv => RateHolds
  BY DEF IInv
<1>2. QED
  BY <1>1, Invariance, PTL

\* A key lacks an expiry only while one is on its way or after a fault (rl.go:55).
THEOREM ExpiryComes == Spec => []ExpiryIsComing
<1>1. IInv => ExpiryIsComing
  BY DEF IInv
<1>2. QED
  BY <1>1, Invariance, PTL

-----------------------------------------------------------------------------
(* The middleware implements a limiter of fixed windows.                    *)

\* A step that keeps the decisions of the other requests.
LEMMA DecisionsOfOthers ==
    ASSUME NEW r \in Requests,
           \A d \in Requests \ {r} : pc'[d] = pc[d] /\ verdict'[d] = verdict[d]
    PROVE  Decisions' = [Decisions EXCEPT ![r] = Decisions'[r]]
  BY DEF Decisions

\* INCR decides, and what it decides is whether the window has room.
LEMMA IncrIsCheck ==
    ASSUME IInv, NEW r \in Requests, Incr(r)
    PROVE  Window!Check(r)
<1> DEFINE k == KeyOf[r]
           e == <<r, sends'[r]>>
<1> USE DEF IInv
<1>1. Sends(r) /\ Increment(e) /\ UNCHANGED unanswered
  BY DEF Incr
<1>2. e \in Increments /\ e[1] = r /\ pc[r] \in {"idle", "incr"} /\ verdict[r] = "none"
  BY <1>1, SendsOne
<1>3. k \in Keys /\ count[k] \in Nat /\ count' = [count EXCEPT ![k] = @ + 1] /\ count'[k] = count[k] + 1
  BY <1>1, <1>2, IncrementCounts
<1>4. \A d \in Requests \ {r} : pc'[d] = pc[d] /\ verdict'[d] = verdict[d]
  BY DEF Incr, Decide, TypeOK
<1>5. \/ count'[k] = 1 /\ pc'[r] = "expire" /\ verdict'[r] = "none"
      \/ /\ count'[k] > 1 /\ pc'[r] = "done"
         /\ verdict'[r] = IF count'[k] <= MaxRate THEN "admitted" ELSE "limited"
  BY <1>2, <1>3 DEF Incr, Decide, Admits, TypeOK
<1>6. Decisions[r] = "none"
  BY <1>2 DEF Decisions
<1>7. Window!Try(r) /\ Window!Count(r)
  BY <1>1, <1>3, <1>6 DEF Sends, Window!Try, Window!Count
<1>8. CASE count[k] < MaxRate
  <2>1. Decisions'[r] = "passed"
    BY <1>3, <1>5, <1>8, RateAssumption DEF Decisions
  <2>2. Window!HasRoom(k)
    BY <1>3, <1>8 DEF Window!HasRoom
  <2>3. Decisions' = [Decisions EXCEPT ![r] = "passed"]
    BY <1>4, <2>1, DecisionsOfOthers
  <2>4. QED
    BY <1>1, <1>7, <2>2, <2>3 DEF Window!Check, Window!Decide
<1>9. CASE ~(count[k] < MaxRate)
  <2>1. Decisions'[r] = "limited"
    BY <1>3, <1>5, <1>9, RateAssumption DEF Decisions
  <2>2. ~Window!HasRoom(k)
    BY <1>3, <1>9 DEF Window!HasRoom
  <2>3. Decisions' = [Decisions EXCEPT ![r] = "limited"]
    BY <1>4, <2>1, DecisionsOfOthers
  <2>4. QED
    BY <1>1, <1>7, <2>2, <2>3 DEF Window!Check, Window!Decide
<1>10. QED
  BY <1>8, <1>9

\* An INCR given up is a try to be repeated, and undecided.
LEMMA IncrIsRetriedIsRepeat ==
    ASSUME IInv, NEW r \in Requests, IncrIsRetried(r)
    PROVE  Window!Repeat(r)
<1>1. Sends(r) /\ pc[r] \in {"idle", "incr"} /\ verdict[r] = "none"
  BY SendsOne DEF IncrIsRetried
<1>2. pc'[r] = "incr" /\ \A d \in Requests \ {r} : pc'[d] = pc[d]
  BY DEF IInv, TypeOK, IncrIsRetried
<1>3. Decisions[r] = "none" /\ Decisions' = Decisions
  BY <1>1, <1>2 DEF Decisions, IncrIsRetried
<1>4. QED
  BY <1>1, <1>3 DEF IncrIsRetried, Sends, Window!Repeat, Window!Try, Window!GiveUp

LEMMA IncrFailsIsBypass ==
    ASSUME IInv, NEW r \in Requests, IncrFails(r)
    PROVE  Window!Bypass(r)
<1>1. Sends(r) /\ pc[r] \in {"idle", "incr"}
  BY SendsOne DEF IncrFails
<1>2. /\ pc'[r] = "done" /\ verdict'[r] = "uncounted"
      /\ \A d \in Requests \ {r} : pc'[d] = pc[d] /\ verdict'[d] = verdict[d]
  BY DEF IInv, IncrFails, Decide, TypeOK
<1>3. Decisions[r] = "none" /\ Decisions'[r] = "uncounted"
  BY <1>1, <1>2 DEF Decisions
<1>4. Decisions' = [Decisions EXCEPT ![r] = "uncounted"]
  BY <1>2, <1>3, DecisionsOfOthers
<1>5. QED
  BY <1>1, <1>3, <1>4
     DEF IncrFails, Sends, Window!Bypass, Window!Try, Window!Decide, Window!GiveUp

LEMMA IncrUnseenIsCountLate ==
    ASSUME IInv, NEW e \in unanswered, IncrUnseen(e)
    PROVE  Window!CountLate(e)
<1>1. Decisions' = Decisions
  BY DEF IncrUnseen, Decisions
<1>2. QED
  BY <1>1 DEF IncrUnseen, Increment, Window!CountLate, Window!Count

\* EXPIRE and the end of the gateway come after the decision, or prevent it.
LEMMA DecidedBefore ==
    ASSUME IInv, GatewayRestart \/ \E r \in Requests : ExpireIsRetried(r) \/ Expire(r)
    PROVE  UNCHANGED Window!limiter
<1>1. UNCHANGED <<count, sends, unanswered>>
  BY DEF GatewayRestart, ExpireIsRetried, Expire
<1>2. \A d \in Requests :
         \/ pc'[d] = pc[d] /\ verdict'[d] = verdict[d]
         \/ /\ pc[d] = "expire" /\ verdict[d] = "none"
            /\ pc'[d] = "done" /\ verdict'[d] \in {"admitted", "killed"}
         \/ pc[d] = "incr" /\ pc'[d] = "done" /\ verdict'[d] = "dropped"
  BY DEF IInv, TypeOK, GatewayRestart, ExpireIsRetried, Expire, Decide
<1>3. Decisions' = Decisions
  BY <1>2 DEF Decisions
<1>4. QED
  BY <1>1, <1>3 DEF Window!limiter

\* The decisions are those of fixed windows of INCRs: a request passes if and only if
\* there was room at the INCR it was answered for, and its earlier ones may count too.
THEOREM Refinement == Spec => ImplementsWindow
<1>1. Init => Window!Init
  BY DEF Init, Window!Init, Decisions
<1>2. ASSUME IInv, [Next]_vars PROVE [Window!Next]_(Window!limiter)
  <2>1. ASSUME NEW r \in Requests, Incr(r) \/ IncrIsRetried(r) \/ IncrFails(r) PROVE Window!Next
    BY <1>2, <2>1, IncrIsCheck, IncrIsRetriedIsRepeat, IncrFailsIsBypass DEF Window!Next
  <2>2. ASSUME NEW e \in unanswered, IncrUnseen(e) PROVE Window!Next
    BY <1>2, <2>2, IncrUnseenIsCountLate DEF Window!Next
  <2>3. ASSUME NEW gone \in SUBSET Keys, Forget(gone) PROVE Window!Next
    <3>1. Window!Begin(gone)
      BY <2>3 DEF Forget, Window!Begin, Decisions
    <3>2. QED
      BY <3>1 DEF Window!Next
  <2>4. CASE UNCHANGED vars
    BY <2>4 DEF vars, Window!limiter, Decisions
  <2>5. QED
    BY <1>2, <2>1, <2>2, <2>3, <2>4, DecidedBefore DEF Next, Elapse, RedisRestart
<1>3. QED
  BY <1>1, <1>2, Invariance, PTL DEF Spec, ImplementsWindow, Window!Spec
=============================================================================
