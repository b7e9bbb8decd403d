--------------------------- MODULE ShutdownProofs ---------------------------
(***************************************************************************)
(* Theorems about Shutdown for every set of programs: any stops in any     *)
(* number of stages, of which the last may run side by side.               *)
(***************************************************************************)
EXTENDS Shutdown, TLAPS

\* What a program says about its stops.
LEMMA ProgramFacts ==
    ASSUME TypeOK
    PROVE  /\ Own \subseteq Stops
           /\ program.last \in Nat \ {0} /\ stage \in Nat /\ stage <= program.last
           /\ \A s \in Own : program.stage[s] \in Nat /\ 1 <= program.stage[s]
                             /\ program.stage[s] <= program.last
           /\ \A n \in program.fanned : n = program.last
  BY ProgramsAssumption DEF TypeOK, Own, Stops

LEMMA InitEstablishes == Init => IInv
<1> SUFFICES ASSUME Init PROVE IInv
  OBVIOUS
<1>1. TypeOK
  <2>1. program.last \in Nat \ {0} /\ stage = 0
    BY ProgramsAssumption DEF Init
  <2>2. stage \in 0 .. program.last
    BY <2>1
  <2>3. QED
    BY <2>2 DEF Init, TypeOK
<1>2. Halves /\ Stages
  BY <1>1, ProgramFacts DEF Init, Halves, Stages, Left, Outcomes, Returned
<1>3. QED
  BY <1>1, <1>2 DEF IInv

\* The stages main reaches: a stage that begins finds its stops untouched.
LEMMA BeginStep ==
    ASSUME IInv, NEW n \in Nat, n = stage + 1, n <= program.last, Begin(n),
           main' = "stopping", UNCHANGED <<program, late, done, grouped>>,
           report' \in {"none", "nil", "late"}, report' = "nil" => grouped,
           \A s \in StopsAt(stage) : call[s] \in Returned \/ late
    PROVE  IInv'
<1> USE DEF IInv
<1>0. USE ProgramFacts
<1>1. \A s \in Own :
         IF program.stage[s] = n
         THEN /\ call[s] = "none" /\ stopper[s] = "none"
              /\ \/ call'[s] = "spawned" /\ n \in program.fanned /\ stopper'[s] = "none"
                 \/ call'[s] = "waiting" /\ stopper'[s] = "running"
         ELSE call'[s] = call[s] /\ stopper'[s] = stopper[s]
  BY DEF Begin, StopsAt, Halves, TypeOK
<1>2. TypeOK'
  BY DEF TypeOK, Begin, StopsAt, Own
<1>3. \A s \in Own : call[s] = "none" <=> stage < program.stage[s]
  BY DEF Halves
<1>4. Halves'
  <2>1. ASSUME NEW s \in Own PROVE
          /\ (call[s] \in {"none", "spawned"} <=> stopper[s] = "none")'
          /\ (call[s] = "none" <=> stage < program.stage[s])'
          /\ (call[s] = "spawned" => program.stage[s] \in program.fanned)'
          /\ (stopper[s] # "gone" => done[s] = "empty")'
          /\ (call[s] \in Outcomes => stopper[s] = "gone")'
          /\ (call[s] = "late" => late)'
          /\ (call[s] = "waiting" /\ stopper[s] = "gone" => done[s] # "empty")'
    <3>1. stage' = n /\ program.stage[s] \in Nat /\ stage \in Nat
      BY DEF Begin
    <3>2. CASE program.stage[s] = n
      BY <1>1, <3>1, <3>2 DEF Halves, Outcomes
    <3>3. CASE program.stage[s] # n
      BY <1>1, <3>1, <3>3 DEF Halves
    <3>4. QED
      BY <3>2, <3>3
  <2>2. QED
    BY <2>1 DEF Halves, Own
<1>5. \A s \in Own : program.stage[s] < n => call[s] \in Returned \/ late
  BY DEF Stages, Left, StopsAt
<1>6. grouped => \A s \in Own : program.stage[s] \in program.fanned => program.stage[s] # n
  BY <1>1 DEF Stages, Returned, Outcomes
<1>7. Stages'
  BY <1>1, <1>5, <1>6 DEF Stages, Left, Begin, Own, Returned, Outcomes
<1>8. QED
  BY <1>2, <1>4, <1>7

\* main leaves a stage whose stops have ended or are late.
LEMMA GoOnStep ==
    ASSUME IInv, main = "stopping", GoOn,
           report' \in {"none", "nil", "late"}, report' = "nil" => grouped,
           \A s \in StopsAt(stage) : call[s] \in Returned \/ late
    PROVE  IInv'
<1> USE DEF IInv
<1>1. CASE stage < program.last
  BY <1>1, ProgramFacts, BeginStep DEF GoOn
<1>2. CASE ~(stage < program.last)
  <2>1. /\ UNCHANGED <<program, stage, call, stopper, late, done, grouped>>
        /\ main' = "exited" /\ stage = program.last /\ stage > 0
    BY <1>2, ProgramFacts DEF GoOn, Stages
  <2>2. TypeOK' /\ Halves'
    BY <2>1 DEF TypeOK, Halves, Own
  <2>3. Stages'
    BY <2>1, ProgramFacts DEF Stages, Left, Own, StopsAt
  <2>4. QED
    BY <2>2, <2>3
<1>3. QED
  BY <1>1, <1>2

LEMMA MainKeeps ==
    ASSUME IInv, Signal \/ ServeFails \/ StageEnds \/ ServicesEnd \/ Deadline \/ GroupDone
    PROVE  IInv'
<1> USE DEF IInv
<1>1. CASE Signal
  <2>1. stage = 0 /\ StopsAt(stage) = {} /\ report' = report
    BY <1>1, ProgramFacts DEF Signal, Stages, StopsAt
  <2>2. QED
    BY <1>1, <2>1, ProgramFacts, BeginStep DEF Signal, TypeOK, Stages
<1>2. CASE ServeFails
  BY <1>2, ProgramFacts DEF ServeFails, TypeOK, Halves, Stages, Left, Own
<1>3. CASE StageEnds
  BY <1>3, GoOnStep DEF StageEnds, TypeOK, Stages
<1>4. CASE ServicesEnd
  <2>1. report' \in {"nil", "late"} /\ (report' = "nil" => grouped)
    BY <1>4 DEF ServicesEnd
  <2>2. \A s \in StopsAt(stage) : call[s] \in Returned \/ late
    BY <1>4 DEF ServicesEnd, StopsAt, Stages
  <2>3. QED
    BY <1>4, <2>1, <2>2, GoOnStep DEF ServicesEnd
<1>5. CASE Deadline
  BY <1>5 DEF Deadline, TypeOK, Halves, Stages, Left, Own
<1>6. CASE GroupDone
  <2>1. \A s \in Own : program.stage[s] \in program.fanned => call[s] \in Returned
    BY <1>6, ProgramFacts DEF GroupDone, ClientsClosed, StopsAt
  <2>2. QED
    BY <1>6, <2>1 DEF GroupDone, TypeOK, Halves, Stages, Left, Own
<1>7. QED
  BY <1>1, <1>2, <1>3, <1>4, <1>5, <1>6

LEMMA GoroutinesKeep ==
    ASSUME IInv, NEW s \in Stops,
           CloseClient(s) \/ StopReturns(s) \/ Send(s) \/ Return(s)
    PROVE  IInv'
<1> USE DEF IInv
<1>1. UNCHANGED <<program, main, stage, late, grouped, report>>
  BY DEF CloseClient, StopReturns, Send, Return
<1>2. \A t \in Stops \ {s} : call'[t] = call[t] /\ stopper'[t] = stopper[t] /\ done'[t] = done[t]
  BY DEF CloseClient, StopReturns, Send, Return, TypeOK
<1>3. \/ /\ call[s] = "spawned" /\ call'[s] = "waiting"
         /\ stopper'[s] = "running" /\ done'[s] = done[s]
      \/ /\ stopper[s] = "running" /\ stopper'[s] \in Outcomes
         /\ call'[s] = call[s] /\ done'[s] = done[s]
      \/ /\ stopper[s] \in Outcomes /\ stopper'[s] = "gone"
         /\ call'[s] = call[s] /\ done'[s] = stopper[s]
      \/ /\ call[s] = "waiting" /\ stopper'[s] = stopper[s]
         /\ \/ done[s] \in Outcomes /\ call'[s] = done[s] /\ done'[s] = "empty"
            \/ late /\ call'[s] = "late" /\ done'[s] = done[s]
  BY DEF CloseClient, StopReturns, Send, Return, TypeOK
<1>4. TypeOK'
  BY <1>1 DEF TypeOK, CloseClient, StopReturns, Send, Return, Returned, Outcomes
<1>5. ASSUME NEW t \in Own PROVE
        /\ (call[t] \in {"none", "spawned"} <=> stopper[t] = "none")'
        /\ (call[t] = "none" <=> stage < program.stage[t])'
        /\ (call[t] = "spawned" => program.stage[t] \in program.fanned)'
        /\ (stopper[t] # "gone" => done[t] = "empty")'
        /\ (call[t] \in Outcomes => stopper[t] = "gone")'
        /\ (call[t] = "late" => late)'
        /\ (call[t] = "waiting" /\ stopper[t] = "gone" => done[t] # "empty")'
  <2>1. t \in Stops
    BY ProgramFacts
  <2>2. CASE t # s
    BY <1>1, <1>2, <2>1, <2>2 DEF Halves
  <2>3. CASE t = s
    BY <1>1, <1>3, <2>3 DEF Halves, Outcomes
  <2>4. QED
    BY <2>2, <2>3
<1>6. Halves'
  BY <1>1, <1>5 DEF Halves, Own
<1>7. \A t \in Own : call[t] \in Returned => call'[t] \in Returned
  BY <1>2, <1>3, ProgramFacts DEF Returned, Outcomes
<1>8. Stages'
  BY <1>1, <1>7 DEF Stages, Left, Own
<1>9. QED
  BY <1>4, <1>6, <1>8

LEMMA NextKeeps == IInv /\ [Next]_vars => IInv'
<1> SUFFICES ASSUME IInv, [Next]_vars PROVE IInv'
  OBVIOUS
<1>1. CASE UNCHANGED vars
  BY <1>1 DEF vars, IInv, TypeOK, Halves, Stages, Left, Own
<1>2. QED
  BY <1>1, MainKeeps, GoroutinesKeep DEF Next

\* What main, the goroutines and the channels know of each other holds in every
\* reachable state of every program.
THEOREM Invariance == Spec => []IInv
<1>1. QED
  BY InitEstablishes, NextKeeps, PTL DEF Spec

\* Before the deadline no stop is left behind, and none begins early: stores are
\* closed after the server's Stop, the process ends after all of them.
THEOREM StopsAreOrderly == Spec => []OrderlyStop
<1>1. IInv => OrderlyStop
  <2> SUFFICES ASSUME IInv, NEW s \in Own
               PROVE  /\ stopper[s] # "none" => program.stage[s] <= stage
                      /\ Left(program.stage[s]) => Finished(s) \/ late
    BY DEF OrderlyStop
  <2>1. TypeOK /\ Halves /\ Stages
    BY DEF IInv
  <2>2. stopper[s] # "none" => program.stage[s] <= stage
    BY <2>1, ProgramFacts DEF Halves
  <2>3. Left(program.stage[s]) => Finished(s) \/ late
    BY <2>1 DEF Halves, Stages, Finished, Returned
  <2>4. QED
    BY <2>2, <2>3
<1>2. QED
  BY <1>1, Invariance, PTL

\* A result that is reported is the result of a stop that returned, and nil from
\* ShutdownServices means that every Close has returned.
THEOREM Reports == Spec => []ReportsAreTrue
<1>1. IInv => ReportsAreTrue
  BY DEF IInv, ReportsAreTrue, Halves, Stages, Finished, Returned
<1>2. QED
  BY <1>1, Invariance, PTL

\* No goroutine that runs a stop ever blocks on its channel.
THEOREM NoSenderBlocks == Spec => []NobodyIsStuck
<1>1. IInv => NobodyIsStuck
  BY DEF IInv, NobodyIsStuck, Halves, Room, Outcomes
<1>2. QED
  BY <1>1, Invariance, PTL

\* After the deadline nothing holds main, in particular no stop that never returns.
THEOREM DeadlineFreesMain == Spec => []DeadlineFrees
<1>1. IInv => DeadlineFrees
  <2> SUFFICES ASSUME IInv, NEW s \in StopsAt(stage), stage \notin program.fanned,
                      call[s] \notin Returned
               PROVE  call[s] = "waiting"
    BY DEF DeadlineFrees
  <2>1. s \in Own /\ s \in Stops /\ program.stage[s] = stage /\ stage \in Nat
    BY ProgramFacts DEF IInv, StopsAt
  <2>2. call[s] # "none" /\ call[s] # "spawned"
    BY <2>1 DEF IInv, Halves
  <2>3. QED
    BY <2>1, <2>2 DEF IInv, TypeOK
<1>2. QED
  BY <1>1, Invariance, PTL

\* A stop runs once and is reported once, whatever the deadline cuts off.
THEOREM EachStopRunsOnce == Spec => StopsRunOnce
<1> DEFINE Once ==
        /\ stage' \in {stage, stage + 1} /\ (main' = "serving" => main = "serving")
        /\ \A s \in Own :
              /\ stopper[s] # "none" /\ stopper'[s] = "running" => stopper[s] = "running"
              /\ call[s] \in Returned => call'[s] = call[s]
<1>1. ASSUME IInv, Next PROVE Once
  <2>1. TypeOK /\ Halves /\ Stages /\ Own \subseteq Stops /\ stage \in Nat
    BY <1>1, ProgramFacts DEF IInv
  <2>2. ASSUME NEW n \in Nat, n = stage + 1, Begin(n), main' = "stopping" PROVE Once
    <3>1. \A s \in StopsAt(n) : call[s] = "none" /\ stopper[s] = "none"
      BY <2>1, <2>2, ProgramFacts DEF StopsAt, Halves
    <3>2. QED
      BY <2>1, <2>2, <3>1 DEF Begin, Returned, Outcomes
  <2>3. CASE Signal
    <3>1. stage = 0
      BY <2>1, <2>3 DEF Signal, Stages
    <3>2. QED
      BY <2>2, <2>3, <3>1 DEF Signal
  <2>4. ASSUME main = "stopping", GoOn PROVE Once
    <3>1. CASE stage < program.last
      BY <2>1, <2>2, <2>4, <3>1 DEF GoOn
    <3>2. CASE ~(stage < program.last)
      BY <2>1, <2>4, <3>2 DEF GoOn
    <3>3. QED
      BY <3>1, <3>2
  <2>5. CASE ServeFails \/ Deadline \/ GroupDone
    <3>1. UNCHANGED <<stage, call, stopper>> /\ (main' = "serving" => main = "serving")
      BY <2>5, ProgramFacts DEF ServeFails, Deadline, GroupDone
    <3>2. QED
      BY <3>1
  <2>6. ASSUME NEW s \in Stops, CloseClient(s) \/ StopReturns(s) \/ Send(s) \/ Return(s)
        PROVE  Once
    BY <2>1, <2>6 DEF CloseClient, StopReturns, Send, Return, Halves, TypeOK, Outcomes, Returned
  <2>7. QED
    BY <1>1, <2>3, <2>4, <2>5, <2>6 DEF Next, StageEnds, ServicesEnd
<1>2. IInv /\ [Next]_vars => [Once]_vars
  BY <1>1
<1>3. QED
  BY <1>2, Invariance, PTL DEF Spec, StopsRunOnce
=============================================================================
