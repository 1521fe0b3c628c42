--------------------------- MODULE Delivery_proofs ---------------------------
(***************************************************************************)
(* Proofs about Delivery for every list of stanzas, every scripted input,  *)
(* every number of executions and every set of failures.  What is proved   *)
(* of the runner and of the input by themselves is carried over, by        *)
(* instantiating their theories; what joins them is proved on top.         *)
(***************************************************************************)
EXTENDS Delivery, TLAPS

-----------------------------------------------------------------------------
(* The runner by itself: what is proved of Collector holds here. *)

RunnerTheory == INSTANCE Collector_proofs WITH pc <- main, Faults <- RunnerFaults

\* Every step is one of the runner or leaves it alone.
LEMMA RunnerStep == [Next]_vars => [Runner!Next]_(Runner!vars)
<1> SUFFICES ASSUME [Next]_vars PROVE [Runner!Next]_(Runner!vars)
  OBVIOUS
<1> USE DEF Runner!vars, runnerVars
<1>1. CASE Main
  BY <1>1 DEF Main, MainAlone, StartScript, StopScriptSignal, StopScriptClose,
     Runner!Next, Runner!Main
<1>2. CASE Sigterm
  BY <1>2 DEF Sigterm, Runner!Next
<1>3. CASE Scheduler
  BY <1>3 DEF Scheduler
<1>4. ASSUME NEW n \in Runs, ReaderWorks(n) \/ ReaderSends(n)
      PROVE  UNCHANGED Runner!vars
  BY <1>4 DEF ReaderWorks, ReaderSends
<1>5. ASSUME NEW n \in Runs, ProcessWorks(n) \/ ProcessEnds(n) \/ ProcessBroken(n)
      PROVE  UNCHANGED Runner!vars
  BY <1>5 DEF ProcessWorks, ProcessEnds, ProcessBroken
<1>6. CASE UNCHANGED vars
  BY <1>6 DEF vars
<1> QED
  BY <1>1, <1>2, <1>3, <1>4, <1>5, <1>6 DEF Next

\* The composition implements the runner: nothing an input, its readers or its
\* scripts do changes the course of main, which calls Start and Stop where Collector
\* starts and shuts down a receiver.
THEOREM ImplementsRunner == Spec => Runner!Spec
<1>1. Init => Runner!Init
  BY DEF Init
<1> QED
  BY <1>1, RunnerStep, PTL DEF Spec, Runner!Spec

\* The runner that Collector_proofs is about is the one Delivery instantiates.
LEMMA SameRunner == Runner!Spec => RunnerTheory!Spec
<1>1. Runner!Init => RunnerTheory!Init
  BY DEF Runner!Init, RunnerTheory!Init, Runner!Index, RunnerTheory!Index
<1>2. [Runner!Next]_(Runner!vars) => [RunnerTheory!Next]_(RunnerTheory!vars)
  BY
     DEF Runner!LoadConfig, RunnerTheory!LoadConfig, Runner!LoadConfigFails,
         RunnerTheory!LoadConfigFails, Runner!NewExporter, RunnerTheory!NewExporter,
         Runner!NewExporterFails, RunnerTheory!NewExporterFails, Runner!ReadFile,
         RunnerTheory!ReadFile, Runner!ReadFileFails, RunnerTheory!ReadFileFails,
         Runner!Skip, RunnerTheory!Skip, Runner!Create, RunnerTheory!Create,
         Runner!CreateFails, RunnerTheory!CreateFails, Runner!Idle, RunnerTheory!Idle,
         Runner!CreatedAll, RunnerTheory!CreatedAll, Runner!StartExporter,
         RunnerTheory!StartExporter, Runner!StartExporterFails,
         RunnerTheory!StartExporterFails, Runner!Start, RunnerTheory!Start,
         Runner!StartFails, RunnerTheory!StartFails, Runner!StartedAll,
         RunnerTheory!StartedAll, Runner!Notify, RunnerTheory!Notify,
         Runner!BeginShutdown, RunnerTheory!BeginShutdown, Runner!Shutdown,
         RunnerTheory!Shutdown, Runner!ShutdownAll, RunnerTheory!ShutdownAll,
         Runner!ShutdownExporter, RunnerTheory!ShutdownExporter, Runner!End,
         RunnerTheory!End, Runner!Sigterm, RunnerTheory!Sigterm, Runner!Main,
         RunnerTheory!Main, Runner!Next, RunnerTheory!Next, Runner!vars,
         RunnerTheory!vars, Runner!At, RunnerTheory!At, Runner!Go, RunnerTheory!Go,
         Runner!Fatal, RunnerTheory!Fatal, Runner!Index, RunnerTheory!Index,
         Runner!Files, RunnerTheory!Files, Runner!After, RunnerTheory!After,
         Runner!Chosen, RunnerTheory!Chosen, Runner!Unreadable,
         RunnerTheory!Unreadable, Runner!Supported, RunnerTheory!Supported,
         Runner!Schemes, RunnerTheory!Schemes, Runner!NothingToDo,
         RunnerTheory!NothingToDo, Runner!Caught, RunnerTheory!Caught
<1> QED
  BY <1>1, <1>2, PTL DEF Runner!Spec, RunnerTheory!Spec

\* What is promised of the runner alone.
RunnerSafe ==
    /\ Runner!TypeOK
    /\ Runner!ExporterThere
    /\ Runner!ServesAll
    /\ Runner!CleanExit

\* The exporter is there for every receiver (ExporterThere), the runner serves with all
\* its inputs (ServesAll) and leaves nothing started (CleanExit), whatever the goroutines
\* and the processes of a scripted input do meanwhile.
THEOREM RunnerStaysSafe == Spec => []RunnerSafe
<1>1. RunnerTheory!CollectorAssumption
  BY DeliveryAssumption DEF RunnerTheory!CollectorAssumption
<1>2. Spec => RunnerTheory!Spec
  BY ImplementsRunner, SameRunner
<1>3. RunnerTheory!Spec => []RunnerTheory!TypeOK
  BY <1>1, RunnerTheory!TypeCorrect
<1>4. RunnerTheory!Spec => []RunnerTheory!ExporterThere
  BY <1>1, RunnerTheory!ExporterIsThere
<1>5. RunnerTheory!Spec => []RunnerTheory!ServesAll
  BY <1>1, RunnerTheory!ServesAllInputs
<1>6. RunnerTheory!Spec => []RunnerTheory!CleanExit
  BY <1>1, RunnerTheory!ExitIsClean
<1>7. /\ RunnerTheory!TypeOK => Runner!TypeOK
      /\ RunnerTheory!ExporterThere => Runner!ExporterThere
      /\ RunnerTheory!ServesAll => Runner!ServesAll
      /\ RunnerTheory!CleanExit => Runner!CleanExit
  BY
     DEF Runner!TypeOK, RunnerTheory!TypeOK, Runner!ExporterThere,
         RunnerTheory!ExporterThere, Runner!ServesAll, RunnerTheory!ServesAll,
         Runner!CleanExit, RunnerTheory!CleanExit, Runner!Places, RunnerTheory!Places,
         Runner!Index, RunnerTheory!Index
<1> QED
  BY <1>2, <1>3, <1>4, <1>5, <1>6, <1>7, PTL DEF RunnerSafe

-----------------------------------------------------------------------------
(* The scripted input: the invariant of ScriptedInput_proofs holds here too,   *)
(* although main may end between any two steps and scripts die of that.        *)

ScriptTheory == INSTANCE ScriptedInput_proofs WITH Faults <- ScriptFaults

\* The bounds of the input are those the theory assumes.
LEMMA ScriptBounds == ScriptTheory!BoundsAssumption
  BY DeliveryAssumption DEF ScriptTheory!BoundsAssumption, ScriptTheory!Faultable

\* Its invariant holds before main runs.
LEMMA ScriptInit == Init => ScriptTheory!IInv
<1>1. Init => ScriptTheory!Init
  BY DEF Init, Script!Init, ScriptTheory!Init, Script!Runs, ScriptTheory!Runs
<1> QED
  BY <1>1, ScriptBounds, ScriptTheory!IInvInit

\* What Start does to the scheduling goroutine, whatever the stanza says.
LEMMA StartEffect ==
  ASSUME Script!Start
  PROVE  /\ caller = "new" /\ caller' \in {"started", "failed"}
         /\ \/ pc' = "prepare" /\ run' = 1
            \/ pc' \in {pc, "select"} /\ run' = run
         /\ caller' = "failed" => pc' = pc
<1>1. caller = "new" /\ caller' \in {"started", "failed"}
  BY DEF Script!Start
<1>2. CASE Script!Mode = "continuous"
  BY <1>1, <1>2, Zenon DEF Script!Start
<1>3. CASE Script!Mode = "periodic"
  BY <1>1, <1>3, Zenon DEF Script!Start
<1>4. CASE Script!Mode \notin {"continuous", "periodic"}
  BY <1>1, <1>4, Zenon DEF Script!Start
<1> QED
  BY <1>2, <1>3, <1>4

\* Start keeps the invariant.
LEMMA StartKeeps ==
  ASSUME ScriptTheory!IInv, Script!Start
  PROVE  ScriptTheory!IInv'
<1> USE DEF ScriptTheory!IInv
<1>1. /\ caller = "new" /\ caller' \in {"started", "failed"}
      /\ \/ pc' = "prepare" /\ run' = 1
         \/ pc' \in {pc, "select"} /\ run' = run
  BY StartEffect
<1>2. UNCHANGED <<input, command, proc, signalled, stdout, stopRead, reader, made,
                  taken, sent, entries>>
  BY DEF Script!Start
<1>3. 1 \in 1 .. MaxRuns /\ 1 \in 0 .. MaxRuns
  BY ScriptBounds DEF ScriptTheory!BoundsAssumption
<1>4. ScriptTheory!TypeInv'
  BY <1>1, <1>2, <1>3 DEF ScriptTheory!TypeInv, ScriptTheory!TypeOK,
     ScriptTheory!Executing, ScriptTheory!PcStates, ScriptTheory!Runs
<1>5. ScriptTheory!SchedulerInv'
  BY <1>1, <1>2, <1>3 DEF ScriptTheory!SchedulerInv, ScriptTheory!ProcessInv,
     ScriptTheory!Runs
<1>6. ASSUME NEW n \in ScriptTheory!Runs
      PROVE  ScriptTheory!ProcessInv(n)' /\ ScriptTheory!ReaderInv(n)'
  BY <1>1, <1>2, <1>3 DEF ScriptTheory!SchedulerInv, ScriptTheory!ProcessInv,
     ScriptTheory!ReaderInv, ScriptTheory!Runs, ScriptTheory!Unreaped, ScriptTheory!Over,
     ScriptTheory!HoldsOutput, ScriptTheory!Done
<1> QED
  BY <1>4, <1>5, <1>6

\* So does the beginning of an execution.
LEMMA SelectKeeps ==
  ASSUME ScriptTheory!IInv, Script!SelectExecute
  PROVE  ScriptTheory!IInv'
<1> USE DEF ScriptTheory!IInv
<1>1. pc = "select" /\ pc' = "prepare" /\ run' = run + 1 /\ run < MaxRuns
  BY DEF Script!SelectExecute
<1>2. UNCHANGED <<input, caller, command, proc, signalled, stdout, stopRead, reader, made,
                  taken, sent, entries>>
  BY DEF Script!SelectExecute
<1>3. run \in 0 .. MaxRuns /\ run' \in 0 .. MaxRuns /\ run' \in 1 .. MaxRuns /\ MaxRuns \in Nat
  BY <1>1, ScriptBounds DEF ScriptTheory!BoundsAssumption, ScriptTheory!TypeInv,
     ScriptTheory!TypeOK
<1>4. ScriptTheory!TypeInv'
  BY <1>1, <1>2, <1>3 DEF ScriptTheory!TypeInv, ScriptTheory!TypeOK,
     ScriptTheory!Executing, ScriptTheory!PcStates, ScriptTheory!Runs
<1>5. ScriptTheory!SchedulerInv'
  BY <1>1, <1>2, <1>3 DEF ScriptTheory!SchedulerInv, ScriptTheory!ProcessInv,
     ScriptTheory!Runs
<1>6. ASSUME NEW n \in ScriptTheory!Runs
      PROVE  ScriptTheory!ProcessInv(n)' /\ ScriptTheory!ReaderInv(n)'
  BY <1>1, <1>2, <1>3 DEF ScriptTheory!SchedulerInv, ScriptTheory!ProcessInv,
     ScriptTheory!ReaderInv, ScriptTheory!Runs, ScriptTheory!Unreaped, ScriptTheory!Over,
     ScriptTheory!HoldsOutput, ScriptTheory!Done
<1> QED
  BY <1>4, <1>5, <1>6

\* So does the death of a script that writes to a runner that is gone.
LEMMA BrokenKeeps ==
  ASSUME ScriptTheory!IInv, NEW n \in Runs, ProcessBroken(n)
  PROVE  ScriptTheory!IInv'
<1> USE DEF ScriptTheory!IInv
<1>1. proc[n] \in {"running", "blocked"} /\ proc' = [proc EXCEPT ![n] = "exited"]
  BY DEF ProcessBroken, Script!Live
<1>2. UNCHANGED <<input, caller, pc, run, command, signalled, stdout, stopRead, reader,
                  made, taken, sent, entries>>
  BY DEF ProcessBroken
<1>3. proc \in [Runs -> ScriptTheory!ProcStates]
  BY DEF ScriptTheory!TypeInv, ScriptTheory!TypeOK, ScriptTheory!Runs, Runs
<1>4. ScriptTheory!TypeInv'
  BY <1>1, <1>2, <1>3 DEF ScriptTheory!TypeInv, ScriptTheory!TypeOK,
     ScriptTheory!ProcStates, ScriptTheory!Runs, Runs
<1>5. ScriptTheory!SchedulerInv'
  BY <1>1, <1>2, <1>3 DEF ScriptTheory!TypeInv, ScriptTheory!Executing,
     ScriptTheory!SchedulerInv, ScriptTheory!Runs, Runs
<1>6. ASSUME NEW m \in ScriptTheory!Runs PROVE ScriptTheory!ProcessInv(m)'
  BY <1>1, <1>2, <1>3 DEF ScriptTheory!ProcessInv, ScriptTheory!Runs,
     ScriptTheory!Unreaped, Runs
<1>7. ASSUME NEW m \in ScriptTheory!Runs PROVE ScriptTheory!ReaderInv(m)'
  BY <1>1, <1>2, <1>3 DEF ScriptTheory!ReaderInv, ScriptTheory!Runs, ScriptTheory!Over,
     ScriptTheory!HoldsOutput, ScriptTheory!Done, Runs
<1> QED
  BY <1>4, <1>5, <1>6, <1>7

\* Every step keeps the invariant of the input: all but the start, the choice of the next
\* execution and the death of a script without its runner are steps of ScriptedInput.
LEMMA ScriptStep == ScriptTheory!IInv /\ [Next]_vars => ScriptTheory!IInv'
<1> SUFFICES ASSUME ScriptTheory!IInv, [Next]_vars PROVE ScriptTheory!IInv'
  OBVIOUS
<1>0. ScriptTheory!Runs = Runs
  BY DEF ScriptTheory!Runs, Runs
<1>1. ASSUME [ScriptTheory!Next]_(ScriptTheory!vars) PROVE ScriptTheory!IInv'
  BY <1>1, ScriptBounds, ScriptTheory!IInvStep
<1>2. ASSUME UNCHANGED scriptVars PROVE ScriptTheory!IInv'
  BY <1>1, <1>2 DEF scriptVars, ScriptTheory!vars, ScriptTheory!execVars
<1>3. CASE MainAlone \/ Sigterm \/ UNCHANGED vars
  BY <1>2, <1>3 DEF MainAlone, Sigterm, vars
<1>4. CASE StartScript
  BY <1>4, StartKeeps DEF StartScript
<1>5. CASE StopScriptSignal \/ StopScriptClose
  <2>1. ScriptTheory!Caller
    BY <1>0, <1>5
       DEF StopScriptSignal, StopScriptClose, ScriptTheory!Caller, Script!StopSignal,
           ScriptTheory!StopSignal, Script!StopClose, ScriptTheory!StopClose,
           Script!Live, ScriptTheory!Live, Script!Runs, ScriptTheory!Runs
  <2> QED
    BY <1>1, <2>1 DEF ScriptTheory!Next
<1>6. CASE Scheduler
  <2>1. CASE Script!SelectExecute
    BY <2>1, SelectKeeps
  <2>2. CASE Script!SelectDone \/ Script!Execute
    <3>1. ScriptTheory!SelectDone \/ ScriptTheory!Execute
      BY <2>2
         DEF Script!Execute, ScriptTheory!Execute, Script!Done, ScriptTheory!Done,
             Script!SelectDone, ScriptTheory!SelectDone, Script!Prepare,
             ScriptTheory!Prepare, Script!PrepareFails, ScriptTheory!PrepareFails,
             Script!Feed, ScriptTheory!Feed, Script!FeedFails, ScriptTheory!FeedFails,
             Script!Spawn, ScriptTheory!Spawn, Script!SpawnFails,
             ScriptTheory!SpawnFails, Script!Record, ScriptTheory!Record, Script!Wait,
             ScriptTheory!Wait, Script!Finish, ScriptTheory!Finish, Script!execVars,
             ScriptTheory!execVars
    <3> QED
      BY <1>1, <3>1 DEF ScriptTheory!Next, ScriptTheory!Scheduler
  <2> QED
    BY <1>6, <2>1, <2>2 DEF Scheduler, Script!Scheduler
<1>7. ASSUME NEW n \in Runs, ReaderWorks(n) \/ ReaderSends(n) PROVE ScriptTheory!IInv'
  <2>1. ScriptTheory!Reader(n)
    BY <1>7
       DEF ReaderWorks, ReaderSends, ScriptTheory!Reader, Script!ReaderStops,
           ScriptTheory!ReaderStops, Script!ReaderCalls, ScriptTheory!ReaderCalls,
           Script!ReaderTakes, ScriptTheory!ReaderTakes, Script!ReaderAtEOF,
           ScriptTheory!ReaderAtEOF, Script!ReaderBroken, ScriptTheory!ReaderBroken,
           Script!ReaderSends, ScriptTheory!ReaderSends, Script!readerFrame,
           ScriptTheory!readerFrame, Script!Done, ScriptTheory!Done,
           Script!HoldsOutput, ScriptTheory!HoldsOutput
  <2> QED
    BY <1>0, <1>1, <2>1 DEF ScriptTheory!Next
<1>8. ASSUME NEW n \in Runs, ProcessWorks(n) \/ ProcessEnds(n) PROVE ScriptTheory!IInv'
  <2>1. ScriptTheory!Process(n)
    BY <1>8
       DEF ProcessWorks, ProcessEnds, ScriptTheory!Process, Script!ProcessWrites,
           ScriptTheory!ProcessWrites, Script!ProcessBlocks,
           ScriptTheory!ProcessBlocks, Script!ProcessExits, ScriptTheory!ProcessExits,
           Script!ProcessTerminated, ScriptTheory!ProcessTerminated, Script!Live,
           ScriptTheory!Live, Script!PipeFull, ScriptTheory!PipeFull
  <2> QED
    BY <1>0, <1>1, <2>1 DEF ScriptTheory!Next
<1>9. ASSUME NEW n \in Runs, ProcessBroken(n) PROVE ScriptTheory!IInv'
  BY <1>9, BrokenKeeps
<1> QED
  BY <1>3, <1>4, <1>5, <1>6, <1>7, <1>8, <1>9 DEF Next, Main

-----------------------------------------------------------------------------
(* What a script that is still there says of the scheduling goroutine. *)

OrphanType ==
    /\ run \in Nat
    /\ command \in Nat
    /\ asked \in Nat
    /\ proc \in [Runs -> Script!ProcStates]

\* A live script belongs to the execution being waited for, or about to be recorded;
\* one that Stop has found was signalled.
OrphanInv ==
    /\ OrphanType
    /\ caller = "new" => pc = "none" /\ command = 0 /\ run = 0
    /\ asked <= command /\ command <= run
    /\ pc \in {"prepare", "feed", "spawn", "record"} => command < run
    /\ \A n \in Runs : Script!Live(n) => n = run /\ pc \in {"record", "wait"}
    /\ \A n \in Runs : Script!Live(n) /\ n <= asked => n \in signalled

LEMMA OrphanInit == Init => OrphanInv
  BY DEF Init, Script!Init, OrphanInv, OrphanType, Script!Live, Runs, Script!Runs,
         Script!ProcStates

\* Every step of the scheduling goroutine keeps the invariant: a new execution begins
\* when the process of the last one has been reaped.
LEMMA OrphanScheduler == OrphanInv /\ Scheduler => OrphanInv'
<1> SUFFICES ASSUME OrphanInv, Script!Scheduler, UNCHANGED <<runnerVars, exported, asked>>
             PROVE  OrphanInv'
  BY DEF Scheduler
<1>0. MaxRuns \in Nat
  BY DeliveryAssumption
<1> USE <1>0 DEF OrphanInv, OrphanType, Script!Live, Script!ProcStates, Runs, Script!Runs
<1>1. CASE Script!SelectDone
  BY <1>1 DEF Script!SelectDone, Script!execVars
<1>2. CASE Script!SelectExecute
  <2> USE <1>2 DEF Script!SelectExecute
  <2>1. OrphanType'
    OBVIOUS
  <2>2. command' <= run' /\ asked' <= command' /\ command' < run'
    OBVIOUS
  <2>3. \A n \in Runs : ~Script!Live(n)'
    OBVIOUS
  <2> QED
    BY <2>1, <2>2, <2>3
<1>3. CASE Script!Prepare \/ Script!PrepareFails
  BY <1>3 DEF Script!Prepare, Script!PrepareFails, Script!execVars
<1>4. CASE Script!Feed \/ Script!FeedFails
  BY <1>4 DEF Script!Feed, Script!FeedFails, Script!execVars
<1>5. CASE Script!Spawn
  <2> USE <1>5 DEF Script!Spawn
  <2>1. OrphanType' /\ command' < run' /\ asked' <= command'
    OBVIOUS
  <2>2. \A n \in Runs : Script!Live(n)' => n = run' /\ pc' = "record"
    OBVIOUS
  <2> QED
    BY <2>1, <2>2
<1>6. CASE Script!SpawnFails
  BY <1>6 DEF Script!SpawnFails
<1>7. CASE Script!Record
  BY <1>7 DEF Script!Record
<1>8. CASE Script!Wait
  BY <1>8 DEF Script!Wait
<1>9. CASE Script!Finish
  BY <1>9 DEF Script!Finish
<1> QED
  BY <1>1, <1>2, <1>3, <1>4, <1>5, <1>6, <1>7, <1>8, <1>9
     DEF Script!Scheduler, Script!Execute

\* A step that leaves a script behind leaves the current one.
LEMMA OrphanStep == OrphanInv /\ [Next]_vars => OrphanInv'
<1> SUFFICES ASSUME OrphanInv, [Next]_vars PROVE OrphanInv'
  OBVIOUS
<1>0. MaxRuns \in Nat
  BY DeliveryAssumption
<1> USE <1>0 DEF OrphanInv, OrphanType, Script!Live, Script!ProcStates, Runs, Script!Runs
<1>1. ASSUME UNCHANGED <<scriptVars, asked>> PROVE OrphanInv'
  BY <1>1 DEF scriptVars
<1>2. CASE MainAlone \/ Sigterm
  BY <1>1, <1>2 DEF MainAlone, Sigterm
<1>3. CASE StartScript
  BY <1>3 DEF StartScript, Script!Start
<1>4. CASE StopScriptSignal
  BY <1>4 DEF StopScriptSignal, Script!StopSignal
<1>5. CASE StopScriptClose
  BY <1>5 DEF StopScriptClose, Script!StopClose
<1>6. CASE Scheduler
  BY <1>6, OrphanScheduler
<1>7. ASSUME NEW n \in Runs, ReaderWorks(n) \/ ReaderSends(n) PROVE OrphanInv'
  BY <1>7 DEF ReaderWorks, ReaderSends, Script!ReaderStops, Script!ReaderCalls,
       Script!ReaderTakes, Script!ReaderAtEOF, Script!ReaderBroken, Script!ReaderSends,
       Script!readerFrame
<1>8. ASSUME NEW n \in Runs, ProcessWorks(n) PROVE OrphanInv'
  BY <1>8 DEF ProcessWorks, Script!ProcessWrites, Script!ProcessBlocks
<1>9. ASSUME NEW n \in Runs, ProcessEnds(n) \/ ProcessBroken(n) PROVE OrphanInv'
  BY <1>9 DEF ProcessEnds, ProcessBroken, Script!ProcessExits, Script!ProcessTerminated
<1>10. CASE UNCHANGED vars
  BY <1>1, <1>10 DEF vars
<1> QED
  BY <1>2, <1>3, <1>4, <1>5, <1>6, <1>7, <1>8, <1>9, <1>10 DEF Next, Main

-----------------------------------------------------------------------------
(* What the place of main says of the receiver of the script and its input. *)

ServiceType ==
    /\ inputs \in InputLists
    /\ next \in Nat \ {0}
    /\ caller \in {"new", "started", "failed", "signalled", "stopped"}
    /\ receiver \in [1 .. Len(inputs) -> {"none", "created", "started", "shut"}]
    /\ reader \in [Runs -> Script!ReaderStates]
    /\ taken \in [Runs -> Nat]
    /\ sent \in [Runs -> Nat]
    /\ exported \in [Runs -> Nat]

Before == \/ main \in {"config", "exporter", "inputs", "transforms", "props"}
          \/ main = "create" /\ next <= Position

Made == \/ main = "create" /\ next > Position
        \/ main = "startExporter"
        \/ main = "start" /\ next <= Position

Serving == \/ main = "start" /\ next > Position
           \/ main \in {"notify", "serve"}
           \/ main = "shutdown" /\ next <= Position

PlaceInv ==
    /\ inputs[Position].starts <=> Script!Mode # "error"
    /\ exit = "no" /\ Before => caller = "new"
    /\ exit = "no" /\ Made => caller = "new" /\ receiver[Position] = "created"
    /\ main = "start" => exporter = "started"
    /\ caller \in {"started", "signalled"} =>
          Serving /\ receiver[Position] = "started" /\ exporter = "started"

\* Nothing is sent without a Start that succeeds, and what is sent before the end of
\* Stop is taken.
SentInv ==
    /\ caller \in {"new", "failed"} => pc = "none" /\ \A n \in Runs : reader[n] = "none"
    /\ caller # "stopped" => \A n \in Runs : exported[n] = sent[n]

ServiceInv == ServiceType /\ PlaceInv /\ SentInv

\* The script is an enabled one of the stanzas.
LEMMA PositionThere ==
  ASSUME ServiceType
  PROVE  /\ Position \in 1 .. Len(inputs) /\ Len(inputs) \in Nat /\ Position \in Nat
         /\ ~inputs[Position].off
<1>1. /\ inputs \in Seq([scheme : DOMAIN Lower, off : BOOLEAN, builds : BOOLEAN,
                         starts : BOOLEAN])
      /\ Position \in 1 .. Len(inputs)
      /\ ~inputs[Position].off
  BY DeliveryAssumption, Zenon DEF ServiceType
<1>2. Len(inputs) \in Nat
  BY <1>1
<1> QED
  BY <1>1, <1>2

LEMMA ServiceInit == Init => ServiceInv
<1> SUFFICES ASSUME Init PROVE ServiceInv
  OBVIOUS
<1> USE DEF Init, Runner!Init, Script!Init
<1>1. ServiceType
  <2>1. receiver \in [1 .. Len(inputs) -> {"none", "created", "started", "shut"}]
    BY DEF Runner!Index
  <2> QED
    BY <2>1 DEF ServiceType, Runs, Script!Runs, Script!ReaderStates
<1>2. PlaceInv
  <2>1. inputs[Position].starts <=> Script!Mode # "error"
    OBVIOUS
  <2>2. main = "config" /\ caller = "new"
    OBVIOUS
  <2> QED
    BY <2>1, <2>2 DEF PlaceInv, Before, Made, Serving
<1>3. SentInv
  BY DEF SentInv, Runs, Script!Runs
<1> QED
  BY <1>1, <1>2, <1>3 DEF ServiceInv

\* Steps of main alone do not touch the input, and keep to its place.
LEMMA ServiceMain == ServiceInv /\ MainAlone => ServiceInv'
<1> SUFFICES ASSUME ServiceInv, ~AtScript, Runner!Main, UNCHANGED <<scriptVars, exported, asked>>
             PROVE  ServiceInv'
  BY DEF MainAlone
<1>1. /\ Position \in 1 .. Len(inputs) /\ Len(inputs) \in Nat /\ Position \in Nat
      /\ ~inputs[Position].off
  BY PositionThere DEF ServiceInv
<1>2. SentInv'
  BY DEF ServiceInv, SentInv, scriptVars
<1>3. UNCHANGED <<inputs, Script!Mode, caller, reader, taken, sent, exported>>
  BY DEF scriptVars, Script!Mode, Runner!Main, Runner!LoadConfig, Runner!LoadConfigFails,
     Runner!NewExporter, Runner!NewExporterFails, Runner!ReadFile, Runner!ReadFileFails,
     Runner!Skip, Runner!Create, Runner!CreateFails, Runner!Idle, Runner!CreatedAll,
     Runner!StartExporter, Runner!StartExporterFails, Runner!Start, Runner!StartFails,
     Runner!StartedAll, Runner!Notify, Runner!BeginShutdown, Runner!Shutdown,
     Runner!ShutdownAll, Runner!ShutdownExporter, Runner!End, Runner!Fatal
<1> USE <1>1, <1>3 DEF ServiceInv, ServiceType, PlaceInv, Before, Made, Serving, Runner!At,
        Runner!Go, Runner!Index, AtScript
<1>4. CASE \/ Runner!LoadConfigFails \/ Runner!NewExporterFails \/ Runner!ReadFileFails
           \/ Runner!CreateFails \/ Runner!StartExporterFails \/ Runner!StartFails
  BY <1>2, <1>4 DEF Runner!LoadConfigFails, Runner!NewExporterFails, Runner!ReadFileFails,
     Runner!CreateFails, Runner!StartExporterFails, Runner!StartFails, Runner!Fatal
<1>5. CASE Runner!LoadConfig
  BY <1>2, <1>5 DEF Runner!LoadConfig
<1>6. CASE Runner!NewExporter
  BY <1>2, <1>6 DEF Runner!NewExporter
<1>7. CASE Runner!ReadFile
  BY <1>2, <1>7 DEF Runner!ReadFile, Runner!After, Runner!Files
<1>8. CASE Runner!Skip
  BY <1>2, <1>8 DEF Runner!Skip
<1>9. CASE Runner!Create
  BY <1>2, <1>9 DEF Runner!Create
<1>10. CASE Runner!Idle \/ Runner!End
  BY <1>2, <1>10 DEF Runner!Idle, Runner!End
<1>11. CASE Runner!CreatedAll
  BY <1>2, <1>11 DEF Runner!CreatedAll
<1>12. CASE Runner!StartExporter
  BY <1>2, <1>12 DEF Runner!StartExporter
<1>13. CASE Runner!Start
  <2>1. main = "start" /\ exit = "no" /\ next # Position /\ next \in 1 .. Len(inputs)
    BY <1>13 DEF Runner!Start
  <2>2. next' = next + 1 /\ UNCHANGED <<main, exporter, exit>>
    BY <1>13 DEF Runner!Start
  <2>3. /\ receiver' \in [1 .. Len(inputs) -> {"none", "created", "started", "shut"}]
        /\ receiver'[Position] = receiver[Position]
    BY <1>13, <2>1 DEF Runner!Start
  <2> QED
    BY <1>2, <2>1, <2>2, <2>3
<1>14. CASE Runner!StartedAll
  BY <1>2, <1>14 DEF Runner!StartedAll
<1>15. CASE Runner!Notify \/ Runner!BeginShutdown
  BY <1>2, <1>15 DEF Runner!Notify, Runner!BeginShutdown
<1>16. CASE Runner!Shutdown
  <2>1. main = "shutdown" /\ exit = "no" /\ next # Position /\ next \in 1 .. Len(inputs)
    BY <1>16 DEF Runner!Shutdown
  <2>2. next' = next + 1 /\ UNCHANGED <<main, exporter, exit>>
    BY <1>16 DEF Runner!Shutdown
  <2>3. /\ receiver' \in [1 .. Len(inputs) -> {"none", "created", "started", "shut"}]
        /\ receiver'[Position] = receiver[Position]
    BY <1>16, <2>1 DEF Runner!Shutdown
  <2> QED
    BY <1>2, <2>1, <2>2, <2>3
<1>17. CASE Runner!ShutdownAll
  BY <1>2, <1>17 DEF Runner!ShutdownAll
<1>18. CASE Runner!ShutdownExporter
  BY <1>2, <1>18 DEF Runner!ShutdownExporter
<1> QED
  BY <1>4, <1>5, <1>6, <1>7, <1>8, <1>9, <1>10, <1>11, <1>12, <1>13, <1>14, <1>15, <1>16,
     <1>17, <1>18 DEF Runner!Main

\* Every step keeps the invariant of the service.
LEMMA ServiceStep == ServiceInv /\ [Next]_vars => ServiceInv'
<1> SUFFICES ASSUME ServiceInv, [Next]_vars PROVE ServiceInv'
  OBVIOUS
<1>1. /\ Position \in 1 .. Len(inputs) /\ Len(inputs) \in Nat /\ Position \in Nat
      /\ ~inputs[Position].off
  BY PositionThere DEF ServiceInv
<1>2. CASE MainAlone
  BY <1>2, ServiceMain
<1> USE <1>1 DEF ServiceInv, ServiceType, PlaceInv, SentInv, Before, Made, Serving, Script!Mode
<1>3. CASE StartScript
  <2> USE <1>3 DEF StartScript, AtScript, Runner!At, Script!Start
  <2>1. CASE Runner!Start
    BY <2>1 DEF Runner!Start
  <2>2. CASE Runner!StartFails
    BY <2>2 DEF Runner!StartFails, Runner!Fatal
  <2> QED
    BY <2>1, <2>2
<1>4. CASE StopScriptSignal
  BY <1>4 DEF StopScriptSignal, AtScript, Script!StopSignal, runnerVars
<1>5. CASE StopScriptClose
  BY <1>5 DEF StopScriptClose, AtScript, Runner!Shutdown, Runner!At, Runner!Index,
              Script!StopClose
<1>6. CASE Sigterm
  BY <1>6 DEF Sigterm, Runner!Sigterm, scriptVars
<1>7. ASSUME UNCHANGED <<runnerVars, input, caller, sent, exported>>,
             reader' \in [Runs -> Script!ReaderStates], taken' \in [Runs -> Nat],
             caller \in {"new", "failed"} => pc' = "none" /\ reader' = reader
      PROVE  ServiceInv'
  BY <1>7 DEF runnerVars
<1>8. CASE Scheduler
  <2> USE DEF Scheduler, Script!Scheduler, Script!SelectDone, Script!SelectExecute,
      Script!Execute, Script!Prepare, Script!PrepareFails, Script!Feed, Script!FeedFails,
      Script!Spawn, Script!SpawnFails, Script!Record, Script!Wait, Script!Finish,
      Script!execVars
  <2>1. UNCHANGED <<runnerVars, input, caller, taken, sent, exported>>
    BY <1>8
  <2>2. caller \notin {"new", "failed"}
    BY <1>8
  <2>3. reader' \in [Runs -> Script!ReaderStates]
    BY <1>8 DEF Script!ReaderStates
  <2> QED
    BY <1>7, <2>1, <2>2, <2>3
<1>9. ASSUME NEW n \in Runs, ReaderWorks(n) PROVE ServiceInv'
  <2> USE <1>9 DEF ReaderWorks, Script!ReaderStops, Script!ReaderCalls, Script!ReaderTakes,
      Script!ReaderAtEOF, Script!ReaderBroken, Script!readerFrame
  <2>1. UNCHANGED <<runnerVars, input, caller, sent, exported>> /\ pc' = pc
    OBVIOUS
  <2>2. caller \notin {"new", "failed"}
    OBVIOUS
  <2>3. reader' \in [Runs -> Script!ReaderStates]
    BY DEF Script!ReaderStates
  <2>4. taken' \in [Runs -> Nat]
    <3>1. taken' = taken \/ taken' = [taken EXCEPT ![n] = taken[n] + 1]
      OBVIOUS
    <3>2. taken \in [Runs -> Nat]
      OBVIOUS
    <3> QED
      BY ONLY <3>1, <3>2
  <2> QED
    BY <1>7, <2>1, <2>2, <2>3, <2>4
<1>10. ASSUME NEW n \in Runs, ReaderSends(n) PROVE ServiceInv'
  BY <1>10 DEF ReaderSends, Takes, Script!ReaderSends, Script!readerFrame,
     Script!ReaderStates, runnerVars
<1>11. ASSUME NEW n \in Runs, ProcessWorks(n) \/ ProcessEnds(n) \/ ProcessBroken(n)
       PROVE  ServiceInv'
  <2>1. UNCHANGED <<runnerVars, input, caller, pc, reader, taken, sent, exported>>
    BY <1>11 DEF ProcessWorks, ProcessEnds, ProcessBroken, Script!ProcessWrites,
       Script!ProcessBlocks, Script!ProcessExits, Script!ProcessTerminated
  <2> QED
    BY <1>7, <2>1
<1>12. CASE UNCHANGED vars
  BY <1>7, <1>12 DEF vars, scriptVars
<1> QED
  BY <1>2, <1>3, <1>4, <1>5, <1>6, <1>8, <1>9, <1>10, <1>11, <1>12 DEF Next, Main

\* Whatever an input sends from its start to the return of Stop reaches the exporter
\* (ServiceDelivers), for every list of stanzas and every number of executions: main
\* starts the exporter before it and shuts it down after it.
THEOREM ServiceAlwaysDelivers == Spec => []ServiceDelivers
<1>1. ServiceInv => ServiceDelivers
  BY DEF ServiceInv, SentInv, ServiceDelivers
<1> QED
  BY <1>1, ServiceInit, ServiceStep, PTL DEF Spec

-----------------------------------------------------------------------------
(* How main ends, and what it has done for the script by then. *)

\* An error is one before the receivers were started, or that of a receiver that did not
\* start; SIGTERM kills until main listens for it; Stop has returned only at the end.
EndInv ==
    /\ exit \in {"no", "ok", "error", "killed"}
    /\ exit = "ok" => main \in {"create", "end"}
    /\ exit = "error" => main \notin {"notify", "serve", "shutdown", "shutdownExporter", "end"}
    /\ exit = "error" /\ main = "start" =>
          next \in 1 .. Len(inputs) /\ receiver[next] = "created" /\ ~inputs[next].starts
    /\ exit = "killed" => main \notin {"serve", "shutdown", "shutdownExporter", "end"}
    /\ caller = "stopped" => main \in {"shutdown", "shutdownExporter", "end"}

LEMMA EndInit == Init => EndInv
  BY DEF Init, Runner!Init, Script!Init, EndInv

\* Steps of main keep it, whether they start or stop the script or not.
LEMMA EndMain == EndInv /\ (Main \/ Sigterm) => EndInv'
<1> SUFFICES ASSUME EndInv, Main \/ Sigterm PROVE EndInv'
  OBVIOUS
<1> USE DEF EndInv, Runner!At, Runner!Go, Runner!Index
<1>1. ASSUME UNCHANGED runnerVars, caller' = "stopped" => main = "shutdown" \/ caller = "stopped"
      PROVE  EndInv'
  BY <1>1 DEF runnerVars
<1>2. CASE StopScriptSignal
  BY <1>1, <1>2 DEF StopScriptSignal, Script!StopSignal
<1>3. CASE StopScriptClose
  BY <1>3 DEF StopScriptClose, AtScript, Runner!Shutdown, Script!StopClose
<1>4. CASE StartScript
  <2>1. caller' \in {"started", "failed"}
    BY <1>4 DEF StartScript, Script!Start
  <2> QED
    BY <1>4, <2>1 DEF StartScript, Runner!Start, Runner!StartFails, Runner!Fatal
<1>5. CASE Sigterm
  BY <1>5 DEF Sigterm, Runner!Sigterm, Runner!Caught, scriptVars
<1>6. CASE MainAlone
  <2>1. caller' = caller
    BY <1>6 DEF MainAlone, scriptVars
  <2>2. CASE \/ Runner!LoadConfigFails \/ Runner!NewExporterFails \/ Runner!ReadFileFails
             \/ Runner!CreateFails \/ Runner!StartExporterFails \/ Runner!StartFails
    BY <2>1, <2>2 DEF Runner!LoadConfigFails, Runner!NewExporterFails, Runner!ReadFileFails,
       Runner!CreateFails, Runner!StartExporterFails, Runner!StartFails, Runner!Fatal,
       Runner!Files
  <2>3. CASE \/ Runner!LoadConfig \/ Runner!NewExporter \/ Runner!ReadFile
             \/ Runner!Skip \/ Runner!Create \/ Runner!CreatedAll
             \/ Runner!StartExporter \/ Runner!Start \/ Runner!StartedAll
    BY <2>1, <2>3 DEF Runner!LoadConfig, Runner!NewExporter, Runner!ReadFile, Runner!Files,
       Runner!Skip, Runner!Create, Runner!CreatedAll, Runner!StartExporter, Runner!Start,
       Runner!StartedAll
  <2>4. CASE \/ Runner!Idle \/ Runner!Notify \/ Runner!BeginShutdown \/ Runner!Shutdown
             \/ Runner!ShutdownAll \/ Runner!ShutdownExporter \/ Runner!End
    BY <2>1, <2>4 DEF Runner!Idle, Runner!Notify, Runner!BeginShutdown, Runner!Shutdown,
       Runner!ShutdownAll, Runner!ShutdownExporter, Runner!End
  <2> QED
    BY <1>6, <2>2, <2>3, <2>4 DEF MainAlone, Runner!Main
<1> QED
  BY <1>2, <1>3, <1>4, <1>5, <1>6 DEF Main

\* Nothing else moves main or calls Stop.
LEMMA EndStep == EndInv /\ [Next]_vars => EndInv'
<1> SUFFICES ASSUME EndInv, [Next]_vars PROVE EndInv'
  OBVIOUS
<1>1. CASE Main \/ Sigterm
  BY <1>1, EndMain
<1>2. ASSUME UNCHANGED <<runnerVars, caller>> PROVE EndInv'
  BY <1>2 DEF EndInv, runnerVars
<1>3. CASE Scheduler
  BY <1>2, <1>3 DEF Scheduler, Script!Scheduler, Script!SelectDone, Script!SelectExecute,
     Script!Execute, Script!Prepare, Script!PrepareFails, Script!Feed, Script!FeedFails,
     Script!Spawn, Script!SpawnFails, Script!Record, Script!Wait, Script!Finish,
     Script!execVars
<1>4. ASSUME NEW n \in Runs, ReaderWorks(n) \/ ReaderSends(n) PROVE EndInv'
  BY <1>2, <1>4 DEF ReaderWorks, ReaderSends, Script!ReaderStops, Script!ReaderCalls,
     Script!ReaderTakes, Script!ReaderAtEOF, Script!ReaderBroken, Script!ReaderSends,
     Script!readerFrame
<1>5. ASSUME NEW n \in Runs, ProcessWorks(n) \/ ProcessEnds(n) \/ ProcessBroken(n)
      PROVE  EndInv'
  BY <1>2, <1>5 DEF ProcessWorks, ProcessEnds, ProcessBroken, Script!ProcessWrites,
     Script!ProcessBlocks, Script!ProcessExits, Script!ProcessTerminated
<1>6. CASE UNCHANGED vars
  BY <1>2, <1>6 DEF vars, scriptVars
<1> QED
  BY <1>1, <1>3, <1>4, <1>5, <1>6 DEF Next

\* What the three say of a script that is left behind.
LEMMA LeftBehindIs ==
  ASSUME OrphanInv, ServiceInv, EndInv, NEW n \in Runs, LeftBehind(n)
  PROVE  \/ exit = "ok" /\ Script!Done /\ n > asked
         \/ /\ exit = "error"
            /\ \E i \in Position + 1 .. Len(inputs) : receiver[i] = "created" /\ ~inputs[i].starts
         \/ exit = "killed" /\ main \in {"start", "notify"}
<1>1. Position \in 1 .. Len(inputs) /\ Len(inputs) \in Nat /\ Position \in Nat
  BY PositionThere DEF ServiceInv
<1>2. pc \in {"record", "wait"} /\ n > asked
  BY DEF OrphanInv, OrphanType, LeftBehind, Runs
<1>3. caller \in {"started", "signalled", "stopped"}
  BY <1>2 DEF ServiceInv, ServiceType, SentInv
<1>4. caller # "stopped" => Serving
  BY <1>3 DEF ServiceInv, PlaceInv
<1>5. CASE exit = "ok"
  BY <1>2, <1>3, <1>4, <1>5 DEF EndInv, Serving, Script!Done
<1>6. CASE exit = "error"
  <2>1. main = "start" /\ next > Position
    BY <1>3, <1>4, <1>6 DEF EndInv, Serving
  <2>2. next \in 1 .. Len(inputs) /\ receiver[next] = "created" /\ ~inputs[next].starts
    BY <1>6, <2>1 DEF EndInv
  <2>3. next \in Position + 1 .. Len(inputs)
    BY <1>1, <2>1, <2>2
  <2> QED
    BY <1>6, <2>2, <2>3
<1>7. CASE exit = "killed"
  BY <1>3, <1>4, <1>7 DEF EndInv, Serving
<1> QED
  BY <1>5, <1>6, <1>7 DEF EndInv, LeftBehind

\* A script is left behind unsignalled only if Stop read si.command before its process
\* was recorded there, if a receiver further down the list did not start, or if a SIGTERM
\* came before main listened for it (OrphansExplained), for any number of executions and
\* wherever the end of the runner meets the scheduling goroutine.
THEOREM OrphansAreExplained == Spec => []OrphansExplained
<1>1. OrphanInv /\ ServiceInv /\ EndInv => OrphansExplained
  BY LeftBehindIs DEF OrphansExplained
<1> QED
  BY <1>1, OrphanInit, OrphanStep, ServiceInit, ServiceStep, EndInit, EndStep, PTL DEF Spec

-----------------------------------------------------------------------------
(* From the script to the exporter. *)

\* The exporter has the one entry of an execution, whole, or nothing of it.
ExportInv ==
    /\ exported \in [Runs -> 0 .. MaxChunks]
    /\ asked \in 0 .. MaxRuns
    /\ \A n \in Runs : exported[n] \in {0, sent[n]}

\* Nothing has been exported before main runs.
LEMMA ExportInit == Init => ExportInv
  BY ScriptBounds DEF Init, Script!Init, ExportInv, Runs, Script!Runs,
     ScriptTheory!BoundsAssumption

\* A reader that sends does so for the first time, and what the process wrote.
LEMMA Sender ==
  ASSUME ScriptTheory!IInv, NEW n \in Runs, ReaderSends(n)
  PROVE  /\ proc[n] \in {"exited", "reaped"} /\ sent[n] = 0
         /\ taken[n] \in 1 .. made[n] /\ taken[n] \in 0 .. MaxChunks
         /\ sent' = [sent EXCEPT ![n] = taken[n]]
         /\ \/ exported' = exported
            \/ exported' = [exported EXCEPT ![n] = sent'[n]]
         /\ UNCHANGED <<proc, made, asked>>
<1>0. ScriptTheory!Runs = Runs
  BY DEF ScriptTheory!Runs, Runs
<1>1. ScriptTheory!ReaderSends(n)
  BY DEF ReaderSends, Script!ReaderSends, ScriptTheory!ReaderSends, Script!readerFrame,
     ScriptTheory!readerFrame
<1>2. ScriptTheory!Over(n) /\ sent[n] = 0 /\ taken[n] \in 1 .. made[n]
  BY <1>0, <1>1, ScriptBounds, ScriptTheory!SenderIsOver
<1>3. taken[n] \in 0 .. MaxChunks
  BY <1>0 DEF ScriptTheory!IInv, ScriptTheory!TypeInv, ScriptTheory!TypeOK
<1>4. exported' = exported \/ exported' = [exported EXCEPT ![n] = sent'[n]]
  BY Zenon DEF ReaderSends
<1>5. sent' = [sent EXCEPT ![n] = taken[n]] /\ UNCHANGED <<proc, made, asked>>
  BY DEF ReaderSends, Script!ReaderSends, Script!readerFrame
<1> QED
  BY <1>2, <1>3, <1>4, <1>5 DEF ScriptTheory!Over

\* Every step leaves the exporter with all of an entry or nothing of it.
LEMMA ExportStep == ScriptTheory!IInv /\ ExportInv /\ [Next]_vars => ExportInv'
<1> SUFFICES ASSUME ScriptTheory!IInv, ExportInv, [Next]_vars PROVE ExportInv'
  OBVIOUS
<1>0. sent \in [Runs -> 0 .. MaxChunks] /\ command \in 0 .. MaxRuns
  BY DEF ScriptTheory!IInv, ScriptTheory!TypeInv, ScriptTheory!TypeOK, ScriptTheory!Runs,
     Runs
<1>1. ASSUME UNCHANGED <<exported, sent>>, asked' \in {asked, command} PROVE ExportInv'
  BY <1>0, <1>1 DEF ExportInv
<1>2. CASE MainAlone \/ Sigterm \/ UNCHANGED vars
  BY <1>1, <1>2 DEF MainAlone, Sigterm, vars, scriptVars
<1>3. CASE StartScript \/ StopScriptSignal \/ StopScriptClose
  <2>1. UNCHANGED <<exported, sent>> /\ asked' \in {asked, command}
    BY <1>3 DEF StartScript, StopScriptSignal, StopScriptClose, Script!Start,
       Script!StopSignal, Script!StopClose
  <2> QED
    BY <1>1, <2>1
<1>4. CASE Scheduler
  BY <1>1, <1>4 DEF Scheduler, Script!Scheduler, Script!SelectDone, Script!SelectExecute,
     Script!Execute, Script!Prepare, Script!PrepareFails, Script!Feed, Script!FeedFails,
     Script!Spawn, Script!SpawnFails, Script!Record, Script!Wait, Script!Finish,
     Script!execVars
<1>5. ASSUME NEW n \in Runs, ReaderWorks(n) PROVE ExportInv'
  BY <1>1, <1>5 DEF ReaderWorks, Script!ReaderStops, Script!ReaderCalls,
     Script!ReaderTakes, Script!ReaderAtEOF, Script!ReaderBroken
<1>6. ASSUME NEW n \in Runs, ReaderSends(n) PROVE ExportInv'
  BY <1>0, <1>6, Sender DEF ExportInv
<1>7. ASSUME NEW n \in Runs, ProcessWorks(n) \/ ProcessEnds(n) \/ ProcessBroken(n)
      PROVE  ExportInv'
  BY <1>1, <1>7 DEF ProcessWorks, ProcessEnds, ProcessBroken, Script!ProcessWrites,
     Script!ProcessBlocks, Script!ProcessExits, Script!ProcessTerminated
<1> QED
  BY <1>2, <1>3, <1>4, <1>5, <1>6, <1>7 DEF Next, Main

\* The invariants of the input, of the places of main and of the exporter, together.
LEMMA AllInvariant == Spec => [](ScriptTheory!IInv /\ ServiceInv /\ ExportInv)
  BY ScriptInit, ScriptStep, ServiceInit, ServiceStep, ExportInit, ExportStep, PTL DEF
     Spec

\* The invariant of the input types its variables.
LEMMA ScriptTyped == ScriptTheory!IInv => Script!TypeOK
  BY DEF ScriptTheory!IInv, ScriptTheory!TypeInv, ScriptTheory!TypeOK, Script!TypeOK,
     ScriptTheory!Runs, Script!Runs, ScriptTheory!ProcStates, Script!ProcStates,
     ScriptTheory!ReaderStates, Script!ReaderStates, ScriptTheory!PcStates, Script!PcStates

\* Every variable of the runner, the input and what joins them keeps to its type, for
\* every value of the constants.
THEOREM TypeCorrect == Spec => []TypeOK
<1>1. ScriptTheory!IInv /\ ExportInv /\ RunnerSafe => TypeOK
  BY ScriptTyped DEF ExportInv, RunnerSafe, TypeOK
<1> QED
  BY <1>1, AllInvariant, RunnerStaysSafe, PTL

\* No two executions of a script are ever alive at once, whatever becomes of the runner:
\* an execution that dies with it is the only one.
THEOREM NeverTwoProcesses == Spec => []Script!OneProcess
<1>1. ScriptTheory!IInv => Script!OneProcess
  BY DEF ScriptTheory!IInv, ScriptTheory!ProcessInv, Script!OneProcess, ScriptTheory!Runs,
     Script!Runs, ScriptTheory!Unreaped, Script!Unreaped
<1> QED
  BY <1>1, AllInvariant, PTL

\* Output that does not come out at the exporter was lost to a pipe that was closed
\* before it was drained, or came after Stop (LossAccounted): for every list of
\* stanzas, every amount of output and every end of the runner.
THEOREM LossIsAccounted == Spec => []LossAccounted
<1>1. ScriptTheory!IInv /\ ServiceInv => LossAccounted
  <2> SUFFICES ASSUME ScriptTheory!IInv, ServiceInv, NEW n \in Runs, reader[n] = "ended",
                      exported[n] < made[n], stdout[n] # "closed", caller # "stopped"
               PROVE  FALSE
    BY DEF LossAccounted, Script!Done
  <2>1. made[n] \in Nat /\ taken[n] \in Nat /\ sent[n] \in Nat
    BY ScriptBounds DEF ScriptTheory!IInv, ScriptTheory!TypeInv, ScriptTheory!TypeOK,
       ScriptTheory!Runs, Runs, ScriptTheory!BoundsAssumption
  <2>2. ScriptTheory!ProcessInv(n) /\ ScriptTheory!ReaderInv(n)
    BY DEF ScriptTheory!IInv, ScriptTheory!Runs, Runs
  <2>3. exported[n] = sent[n]
    BY DEF ServiceInv, SentInv
  <2>4. stdout[n] # "orphaned"
    BY <2>1, <2>2, <2>3 DEF ScriptTheory!ProcessInv
  <2> QED
    BY <2>1, <2>2, <2>3, <2>4 DEF ScriptTheory!ReaderInv, ScriptTheory!Done
<1> QED
  BY <1>1, AllInvariant, PTL

-----------------------------------------------------------------------------
(* The refinement: what comes out at the exporter is the job of the script. *)

\* The abstract status, one value of the process at a time.
LEMMA StatusValue ==
  ASSUME NEW n \in Runs
  PROVE  /\ proc[n] = "none" => Script!JobStatus(n) = "pending"
         /\ proc[n] \in {"running", "blocked"} => Script!JobStatus(n) = "live"
         /\ proc[n] \in {"exited", "reaped"} => Script!JobStatus(n) = "over"
  BY DEF Script!JobStatus, Script!Live

\* Before main runs every execution of the job is pending.
LEMMA ExportJobInit == Init => Export!Init
<1> SUFFICES ASSUME Init PROVE Export!Init
  OBVIOUS
<1>1. \A n \in Runs : proc[n] = "none"
  BY DEF Init, Script!Init, Script!Runs, Runs
<1>2. \A n \in Runs : Script!JobStatus(n) = "pending"
  BY <1>1, StatusValue
<1> QED
  BY <1>2 DEF Init, Script!Init, Script!Runs, Runs, Export!Init

\* A step that leaves the processes, the output and the exporter alone stutters.
LEMMA ExportStutter ==
  ASSUME UNCHANGED <<proc, made, exported>>
  PROVE  UNCHANGED Export!jobVars
  BY DEF Export!jobVars, Script!JobStatus, Script!Live

\* A process that comes to its end, with the runner or without it, ends the execution.
LEMMA EndsJob ==
  ASSUME NEW n \in Runs, proc \in [Runs -> Script!ProcStates],
         proc[n] \in {"running", "blocked"}, proc' = [proc EXCEPT ![n] = "exited"],
         UNCHANGED <<made, exported>>
  PROVE  Export!End(n)
<1>1. Script!JobStatus(n) = "live"
  BY StatusValue
<1>2. [m \in Runs |-> Script!JobStatus(m)]'
        = [[m \in Runs |-> Script!JobStatus(m)] EXCEPT ![n] = "over"]
  BY DEF Script!JobStatus, Script!Live
<1> QED
  BY <1>1, <1>2 DEF Export!End

\* Every step of the runner is a step of the job or leaves it alone.
LEMMA ExportJobStep ==
  ASSUME ScriptTheory!IInv, ExportInv, [Next]_vars
  PROVE  Export!Next \/ UNCHANGED Export!jobVars
<1>1. /\ proc \in [Runs -> Script!ProcStates] /\ made \in [Runs -> 0 .. MaxChunks]
      /\ run \in 0 .. MaxRuns
  BY ScriptTyped DEF Script!TypeOK, Script!Runs, Runs
<1>2. CASE MainAlone \/ Sigterm \/ UNCHANGED vars
  BY <1>2, ExportStutter DEF MainAlone, Sigterm, vars, scriptVars
<1>3. CASE StartScript \/ StopScriptSignal \/ StopScriptClose
  <2>1. UNCHANGED <<proc, made, exported>>
    BY <1>3 DEF StartScript, StopScriptSignal, StopScriptClose, Script!Start,
       Script!StopSignal, Script!StopClose
  <2> QED
    BY <2>1, ExportStutter
<1>4. CASE Scheduler
  <2>1. CASE Script!Spawn
    <3>1. run \in Runs /\ proc[run] = "none"
      BY <2>1 DEF Script!Spawn, ScriptTheory!IInv, ScriptTheory!TypeInv,
         ScriptTheory!Executing,
         ScriptTheory!SchedulerInv, ScriptTheory!Runs, Runs
    <3>2. ASSUME NEW m \in Runs
          PROVE  proc[m] \notin {"running", "blocked"} /\ (m >= run => proc[m] = "none")
      BY <1>1, <2>1, <3>1 DEF Script!Spawn, ScriptTheory!IInv, ScriptTheory!ProcessInv,
         ScriptTheory!Unreaped, ScriptTheory!Runs, Runs
    <3>3. ASSUME NEW m \in Runs
          PROVE  /\ Script!JobStatus(m) # "live"
                 /\ m >= run => Script!JobStatus(m) = "pending"
      BY <1>1, <3>2, StatusValue DEF Script!ProcStates
    <3>4. [n \in Runs |-> Script!JobStatus(n)]'
            = [[n \in Runs |-> Script!JobStatus(n)] EXCEPT ![run] = "live"]
      BY <1>1, <2>1, <3>1 DEF Script!Spawn, Script!JobStatus, Script!Live
    <3>5. Export!Launch(run)
      BY <1>4, <2>1, <3>1, <3>3, <3>4 DEF Scheduler, Script!Spawn, Export!Launch
    <3> QED
      BY <3>1, <3>5 DEF Export!Next
  <2>2. CASE Script!Wait
    <3>1. \A n \in Runs : Script!JobStatus(n)' = Script!JobStatus(n)
      BY <1>1, <2>2 DEF Script!Wait, Script!JobStatus, Script!Live
    <3> QED
      BY <1>4, <2>2, <3>1 DEF Scheduler, Script!Wait, Export!jobVars
  <2>3. CASE ~Script!Spawn /\ ~Script!Wait
    <3>1. UNCHANGED <<proc, made, exported>>
      BY <1>4, <2>3 DEF Scheduler, Script!Scheduler, Script!SelectDone,
         Script!SelectExecute,
         Script!Execute, Script!Prepare, Script!PrepareFails, Script!Feed, Script!FeedFails,
         Script!SpawnFails, Script!Record, Script!Finish, Script!execVars
    <3> QED
      BY <3>1, ExportStutter
  <2> QED
    BY <2>1, <2>2, <2>3
<1>5. ASSUME NEW n \in Runs, ReaderWorks(n) PROVE UNCHANGED Export!jobVars
  BY <1>5, ExportStutter DEF ReaderWorks, Script!ReaderStops, Script!ReaderCalls,
     Script!ReaderTakes, Script!ReaderAtEOF, Script!ReaderBroken, Script!readerFrame
<1>6. ASSUME NEW n \in Runs, ReaderSends(n)
      PROVE  Export!Deliver(n) \/ UNCHANGED Export!jobVars
  <2>1. CASE exported' = exported
    BY <1>6, <2>1, Sender, ExportStutter
  <2>2. CASE exported' = [exported EXCEPT ![n] = sent'[n]]
    <3>1. exported[n] = 0 /\ sent'[n] = taken[n] /\ taken[n] \in 1 .. made[n]
      BY <1>6, Sender, ScriptTyped DEF ExportInv, Script!TypeOK, Script!Runs, Runs
    <3>2. Script!JobStatus(n) = "over"
      BY <1>6, Sender, StatusValue
    <3>3. UNCHANGED <<[m \in Runs |-> Script!JobStatus(m)], made>>
      BY <1>6, Sender DEF Script!JobStatus, Script!Live
    <3> QED
      BY <2>2, <3>1, <3>2, <3>3 DEF Export!Deliver
  <2> QED
    BY <1>6, <2>1, <2>2, Sender
<1>7. ASSUME NEW n \in Runs, ProcessWorks(n)
      PROVE  Export!Write(n) \/ UNCHANGED Export!jobVars
  <2>1. \A m \in Runs : Script!JobStatus(m)' = Script!JobStatus(m)
    BY <1>1, <1>7 DEF ProcessWorks, Script!ProcessWrites, Script!ProcessBlocks,
       Script!JobStatus, Script!Live
  <2>2. CASE Script!ProcessWrites(n)
    <3>1. Script!JobStatus(n) = "live"
      BY <2>2, StatusValue DEF Script!ProcessWrites, Script!Live
    <3> QED
      BY <1>7, <2>1, <2>2, <3>1 DEF ProcessWorks, Script!ProcessWrites, Export!Write
  <2>3. CASE Script!ProcessBlocks(n)
    BY <1>7, <2>1, <2>3 DEF ProcessWorks, Script!ProcessBlocks, Export!jobVars
  <2> QED
    BY <1>7, <2>2, <2>3 DEF ProcessWorks
<1>8. ASSUME NEW n \in Runs, ProcessEnds(n) \/ ProcessBroken(n) PROVE Export!End(n)
  <2>1. /\ proc[n] \in {"running", "blocked"} /\ proc' = [proc EXCEPT ![n] = "exited"]
        /\ UNCHANGED <<made, exported>>
    BY <1>8 DEF ProcessEnds, ProcessBroken, Script!ProcessExits, Script!ProcessTerminated,
       Script!Live
  <2> QED
    BY <1>1, <2>1, EndsJob
<1> QED
  BY <1>2, <1>3, <1>4, <1>5, <1>6, <1>7, <1>8 DEF Next, Main, Export!Next

\* The runner implements the job of each of its scripts as its exporter sees it
\* (ExporterGetsJob): executions in order, never two at a time, one entry at most for
\* each and only once its script is dead, through every start, stop and end of the runner.
THEOREM ExportsJob == Spec => ExporterGetsJob
<1>1. ScriptTheory!IInv /\ ExportInv /\ [Next]_vars => [Export!Next]_(Export!jobVars)
  BY ExportJobStep
<1> QED
  BY <1>1, ExportJobInit, AllInvariant, PTL DEF Spec, ExporterGetsJob, Export!Spec
=============================================================================
