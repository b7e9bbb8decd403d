------------------------------ MODULE Shutdown ------------------------------
(***************************************************************************)
(* How the programs of 3l1 stop: each main waits for a signal and then     *)
(* stops its server and its clients or stores, stage after stage, under    *)
(* one deadline of ten seconds.  graceful.Shutdown (the same file in all   *)
(* three programs) runs one stop in a goroutine of its own and returns     *)
(* with its result or with the deadline, whichever select sees; the        *)
(* goroutine goes on, and its result goes into a channel of capacity one.  *)
(* The gateway closes its two clients side by side (ShutdownServices).     *)
(* When main returns, the process and all its goroutines end.              *)
(***************************************************************************)
EXTENDS Naturals

CONSTANT Programs   \* what the programs stop, and when

\* The three mains: the stage of each stop, the last stage, the stages whose
\* stops run side by side, and whether a failing server ends the program.
GatewayMain == [stage |-> [http |-> 1, users |-> 2, orders |-> 2], last |-> 2,
                fanned |-> {2}, fatal |-> TRUE]
UserServiceMain == [stage |-> [grpc |-> 1, postgres |-> 2, redis |-> 3], last |-> 3,
                    fanned |-> {}, fatal |-> FALSE]
OrderServiceMain == [stage |-> [grpc |-> 1, postgres |-> 2], last |-> 2,
                     fanned |-> {}, fatal |-> FALSE]

Stops == UNION {DOMAIN p.stage : p \in Programs}

ASSUME ProgramsAssumption ==
    \A p \in Programs :
        /\ p.last \in Nat \ {0}
        /\ p.stage \in [DOMAIN p.stage -> 1 .. p.last]
        /\ p.fanned \subseteq {p.last}

VARIABLES
    program,    \* the program this is
    main,       \* main: "serving", "stopping", "exited", or "crashed" by log.Fatal
    stage,      \* the stage main is at, 0 before the signal
    late,       \* the deadline has passed
    call,       \* graceful.Shutdown of each stop, as its caller sees it
    stopper,    \* the goroutine that runs the stop
    done,       \* the channel between the two
    grouped,    \* the channel that ShutdownServices closes after wg.Wait
    report      \* what ShutdownServices returned

vars == <<program, main, stage, late, call, stopper, done, grouped, report>>

Outcomes == {"nil", "error"}
Returned == Outcomes \cup {"late"}

TypeOK ==
    /\ program \in Programs
    /\ main \in {"serving", "stopping", "exited", "crashed"}
    /\ stage \in 0 .. program.last
    /\ late \in BOOLEAN
    /\ call \in [Stops -> {"none", "spawned", "waiting"} \cup Returned]
    /\ stopper \in [Stops -> {"none", "running", "gone"} \cup Outcomes]
    /\ done \in [Stops -> {"empty"} \cup Outcomes]
    /\ grouped \in BOOLEAN
    /\ report \in {"none", "nil", "late"}

Init ==
    /\ program \in Programs
    /\ main = "serving" /\ stage = 0 /\ late = FALSE
    /\ call = [s \in Stops |-> "none"]
    /\ stopper = [s \in Stops |-> "none"]
    /\ done = [s \in Stops |-> "empty"]
    /\ grouped = FALSE /\ report = "none"

Own == DOMAIN program.stage
StopsAt(n) == {s \in Own : program.stage[s] = n}
Alive == main \in {"serving", "stopping"}

-----------------------------------------------------------------------------
(* main *)

\* A stage begins: main calls graceful.Shutdown itself, or ShutdownServices
\* spawns a goroutine per client that will call it.
Begin(n) ==
    /\ stage' = n
    /\ call' = [s \in Stops |->
                  IF s \notin StopsAt(n) THEN call[s]
                  ELSE IF n \in program.fanned THEN "spawned" ELSE "waiting"]
    /\ stopper' = [s \in Stops |->
                     IF s \in StopsAt(n) /\ n \notin program.fanned THEN "running" ELSE stopper[s]]

\* The signal, the context with its deadline, the first stage.
Signal ==
    /\ main = "serving"
    /\ main' = "stopping"
    /\ Begin(1)
    /\ UNCHANGED <<program, late, done, grouped, report>>

\* log.Fatal on an error of ListenAndServe, in a goroutine that may get to it only after
\* the signal and ends the process wherever main is; the services drop the error of Serve.
ServeFails ==
    /\ Alive /\ program.fatal
    /\ main' = "crashed"
    /\ UNCHANGED <<program, stage, late, call, stopper, done, grouped, report>>

GoOn ==
    /\ IF stage < program.last
       THEN Begin(stage + 1) /\ UNCHANGED main
       ELSE main' = "exited" /\ UNCHANGED <<stage, call, stopper>>
    /\ UNCHANGED <<program, late, done, grouped>>

\* Mutant: the stop is started and not waited for.
StageEndsAtOnce ==
    /\ main = "stopping"
    /\ stage \notin program.fanned
    /\ GoOn
    /\ UNCHANGED report

\* graceful.Shutdown has returned, with an error or not: main goes on.
StageEnds ==
    /\ main = "stopping"
    /\ stage \notin program.fanned
    /\ \A s \in StopsAt(stage) : call[s] \in Returned
    /\ GoOn
    /\ UNCHANGED report

\* The select of ShutdownServices; with both channels ready either may win.
ServicesEnd ==
    /\ main = "stopping"
    /\ stage \in program.fanned
    /\ \/ grouped /\ report' = "nil"
       \/ late /\ report' = "late"
    /\ GoOn

Deadline ==
    /\ main = "stopping" /\ ~late
    /\ late' = TRUE
    /\ UNCHANGED <<program, main, stage, call, stopper, done, grouped, report>>

-----------------------------------------------------------------------------
(* Goroutines *)

\* A goroutine of ShutdownServices calls Close and so graceful.Shutdown.
CloseClient(s) ==
    /\ Alive
    /\ call[s] = "spawned"
    /\ call' = [call EXCEPT ![s] = "waiting"]
    /\ stopper' = [stopper EXCEPT ![s] = "running"]
    /\ UNCHANGED <<program, main, stage, late, done, grouped, report>>

\* Mutant: wg.Add inside the goroutines, so that Wait may see a count of zero.
ClientsAddedLate == stage \in program.fanned

ClientsClosed == stage \in program.fanned /\ \A s \in StopsAt(stage) : call[s] \in Returned

\* wg.Wait returns when every Close has, whatever its error, and done is closed.
GroupDone ==
    /\ Alive
    /\ ClientsClosed /\ ~grouped
    /\ grouped' = TRUE
    /\ UNCHANGED <<program, main, stage, late, call, stopper, done, report>>

\* The stop itself: it may take any time, or for ever.
StopReturns(s) ==
    /\ Alive
    /\ stopper[s] = "running"
    /\ \E r \in Outcomes : stopper' = [stopper EXCEPT ![s] = r]
    /\ UNCHANGED <<program, main, stage, late, call, done, grouped, report>>

\* Mutant: a channel without a buffer, where a sender needs its receiver.
RoomUnbuffered(s) == call[s] = "waiting"

\* make(chan error, 1)
Room(s) == done[s] = "empty"

Send(s) ==
    /\ Alive
    /\ stopper[s] \in Outcomes
    /\ Room(s)
    /\ done' = [done EXCEPT ![s] = stopper[s]]
    /\ stopper' = [stopper EXCEPT ![s] = "gone"]
    /\ UNCHANGED <<program, main, stage, late, call, grouped, report>>

\* Mutant: only the result ends the wait.
ReturnNeverLate(s) ==
    /\ Alive
    /\ call[s] = "waiting"
    /\ done[s] # "empty"
    /\ call' = [call EXCEPT ![s] = done[s]]
    /\ done' = [done EXCEPT ![s] = "empty"]
    /\ UNCHANGED <<program, main, stage, late, stopper, grouped, report>>

\* The select of graceful.Shutdown.
Return(s) ==
    /\ Alive
    /\ call[s] = "waiting"
    /\ \/ /\ done[s] # "empty"
          /\ call' = [call EXCEPT ![s] = done[s]]
          /\ done' = [done EXCEPT ![s] = "empty"]
       \/ /\ late
          /\ call' = [call EXCEPT ![s] = "late"]
          /\ UNCHANGED done
    /\ UNCHANGED <<program, main, stage, late, stopper, grouped, report>>

-----------------------------------------------------------------------------
Next ==
    \/ Signal \/ ServeFails \/ StageEnds \/ ServicesEnd \/ Deadline \/ GroupDone
    \/ \E s \in Stops : CloseClient(s) \/ StopReturns(s) \/ Send(s) \/ Return(s)

Spec == Init /\ [][Next]_vars

\* Goroutines that can run are run and time passes; nothing makes a stop return.
FairSpec ==
    /\ Spec
    /\ WF_vars(StageEnds) /\ WF_vars(ServicesEnd) /\ WF_vars(Deadline) /\ WF_vars(GroupDone)
    /\ \A s \in Stops : WF_vars(CloseClient(s)) /\ WF_vars(Send(s)) /\ WF_vars(Return(s))

-----------------------------------------------------------------------------
(* Safety                                                                   *)

Finished(s) == stopper[s] \in Outcomes \cup {"gone"}
Left(n) == n < stage \/ main = "exited"

\* Stops begin in the order of the mains, and before the deadline none is left
\* behind: Postgres and Redis are closed only after the server's Stop returned,
\* and the process ends only after every stop did, although each runs in a
\* goroutine that nobody joins (shutdown.go:10), unless log.Fatal cuts it short.
OrderlyStop ==
    \A s \in Own :
        /\ stopper[s] # "none" => program.stage[s] <= stage
        /\ Left(program.stage[s]) => Finished(s) \/ late

\* What is reported is true: a caller of graceful.Shutdown sees a result only of
\* a stop that returned, and ShutdownServices says nil only when every Close
\* has returned -- though perhaps with the deadline, which it drops.
ReportsAreTrue ==
    /\ \A s \in Own : call[s] \in Outcomes => stopper[s] = "gone"
    /\ report = "nil" =>
          \A s \in Own : program.stage[s] \in program.fanned =>
              call[s] \in Returned /\ (Finished(s) \/ late)

\* A stop that outlasts the deadline does not block on its channel when it
\* returns at last: nobody receives any more, but the channel has room.
NobodyIsStuck == \A s \in Own : stopper[s] \in Outcomes => Room(s)

\* Once the deadline has passed nothing can hold main: it is in a select that sees the
\* deadline, or what it waits for has returned, or the caller of graceful.Shutdown it
\* waits for is in such a select (shutdown.go:15, routers.go:144); before the deadline
\* time passes.  No wait is for a stop.
DeadlineFrees ==
    main = "stopping" /\ late =>
        \/ stage \in program.fanned
        \/ \A s \in StopsAt(stage) : call[s] \in Returned
        \/ \E s \in StopsAt(stage) : call[s] = "waiting"

\* Nothing is stopped twice or reopened: a stop runs once, what graceful.Shutdown
\* returned for it is not taken back, and main goes through its stages one by one.
StopsRunOnce ==
    [][/\ stage' \in {stage, stage + 1} /\ (main' = "serving" => main = "serving")
       /\ \A s \in Own :
             /\ stopper[s] # "none" /\ stopper'[s] = "running" => stopper[s] = "running"
             /\ call[s] \in Returned => call'[s] = call[s]]_vars

\* The inductive invariant.
Halves ==
    \A s \in Own :
        /\ call[s] \in {"none", "spawned"} <=> stopper[s] = "none"
        /\ call[s] = "none" <=> stage < program.stage[s]
        /\ call[s] = "spawned" => program.stage[s] \in program.fanned
        /\ stopper[s] # "gone" => done[s] = "empty"
        /\ call[s] \in Outcomes => stopper[s] = "gone"
        /\ call[s] = "late" => late
        /\ call[s] = "waiting" /\ stopper[s] = "gone" => done[s] # "empty"

Stages ==
    /\ main = "serving" => stage = 0
    /\ main = "stopping" => stage > 0
    /\ \A s \in Own : Left(program.stage[s]) => call[s] \in Returned \/ late
    /\ grouped => \A s \in Own : program.stage[s] \in program.fanned => call[s] \in Returned
    /\ report = "nil" => grouped

IInv == TypeOK /\ Halves /\ Stages

-----------------------------------------------------------------------------
(* Liveness                                                                 *)

\* Once signalled the process ends, even if no stop ever returns: main and the
\* goroutines it waits for all watch the deadline.
ExitsOnceSignalled == stage > 0 ~> ~Alive
=============================================================================
