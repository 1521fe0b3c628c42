------------------------------ MODULE Delivery ------------------------------
(***************************************************************************)
(* The runner as a whole, seen from one scripted input: the process of     *)
(* Collector (main.go, collector.go), whose start and shutdown call the    *)
(* Start and Stop of ScriptedInput (scriptedinput/input.go), and whose     *)
(* exporter takes what the readers of the input send.  When the process    *)
(* ends its goroutines end with it; the child processes do not.            *)
(* The receiver between input and exporter is external: once it has been   *)
(* shut down, an entry may still get through.                              *)
(***************************************************************************)
EXTENDS Integers, Sequences, FiniteSets

CONSTANTS
    InputLists, FileStates, Lower, RunnerFaults, MaxSignals,
    Inputs, NotANumber, MaxRuns, MaxChunks, PipeCapacity, ScriptFaults,
    Position    \* the place of the scripted input in the lists

ASSUME DeliveryAssumption ==
    /\ MaxRuns \in Nat \ {0} /\ MaxChunks \in Nat /\ PipeCapacity \in Nat \ {0}
    /\ ScriptFaults \subseteq {"pipe", "feed", "spawn"}
    /\ RunnerFaults \subseteq {"config", "newExporter", "startExporter"}
    /\ MaxSignals \in Nat
    /\ \A list \in InputLists :
          /\ list \in Seq([scheme : DOMAIN Lower, off : BOOLEAN, builds : BOOLEAN,
                           starts : BOOLEAN])
          /\ Position \in 1 .. Len(list)
          /\ list[Position].scheme \in {"script", ""}
          /\ ~list[Position].off

VARIABLES
    inputs, files, main, next, exporter, receiver, channel, signals, exit,
    input, caller, pc, run, command, proc, signalled, stdout, stopRead, reader,
    made, taken, sent, entries,
    exported,   \* chunks of each execution that the exporter took
    asked       \* the execution that Stop found in si.command

runnerVars == <<inputs, files, main, next, exporter, receiver, channel, signals, exit>>
scriptVars == <<input, caller, pc, run, command, proc, signalled, stdout, stopRead,
                reader, made, taken, sent, entries>>
vars == <<runnerVars, scriptVars, exported, asked>>

Runner == INSTANCE Collector WITH pc <- main, Faults <- RunnerFaults

Script == INSTANCE ScriptedInput WITH Faults <- ScriptFaults

Runs == 1 .. MaxRuns

\* The receiver starts if the input does.
Init ==
    /\ Runner!Init
    /\ Script!Init
    /\ inputs[Position].starts <=> Script!Mode # "error"
    /\ exported = [n \in Runs |-> 0]
    /\ asked = 0

-----------------------------------------------------------------------------
(* main. *)

\* The loops of Start and of the shutdown function have come to the input.
AtScript == main \in {"start", "shutdown"} /\ next = Position

MainAlone ==
    /\ ~AtScript
    /\ Runner!Main
    /\ UNCHANGED <<scriptVars, exported, asked>>

StartScript ==
    /\ AtScript
    /\ Runner!Start \/ Runner!StartFails
    /\ Script!Start
    /\ UNCHANGED <<exported, asked>>

\* Stop returns without waiting for anything.
StopScriptSignal ==
    /\ exit = "no"
    /\ main = "shutdown" /\ AtScript
    /\ Script!StopSignal
    /\ asked' = command
    /\ UNCHANGED <<runnerVars, exported>>

StopScriptClose ==
    /\ AtScript
    /\ Runner!Shutdown
    /\ Script!StopClose
    /\ UNCHANGED <<exported, asked>>

Sigterm == Runner!Sigterm /\ UNCHANGED <<scriptVars, exported, asked>>

-----------------------------------------------------------------------------
(* The goroutines of the input, while there is a process. *)

Scheduler ==
    /\ exit = "no"
    /\ Script!Scheduler
    /\ UNCHANGED <<runnerVars, exported, asked>>

\* Mutant: what is read is exported at once, not when io.ReadAll is done.
ReaderWorksStreams(n) ==
    /\ exit = "no"
    /\ \/ /\ Script!ReaderTakes(n)
          /\ exported' = [exported EXCEPT ![n] = taken'[n]]
       \/ /\ \/ Script!ReaderStops(n) \/ Script!ReaderCalls(n)
             \/ Script!ReaderAtEOF(n) \/ Script!ReaderBroken(n)
          /\ UNCHANGED exported
    /\ UNCHANGED <<runnerVars, asked>>

ReaderWorks(n) ==
    /\ exit = "no"
    /\ \/ Script!ReaderStops(n) \/ Script!ReaderCalls(n) \/ Script!ReaderTakes(n)
       \/ Script!ReaderAtEOF(n) \/ Script!ReaderBroken(n)
    /\ UNCHANGED <<runnerVars, exported, asked>>

\* A receiver in service hands an entry on; one that is shut down may; an exporter
\* that is not started takes nothing.
Takes ==
    CASE exporter # "started" -> {FALSE}
      [] exporter = "started" /\ receiver[Position] = "started" -> {TRUE}
      [] OTHER -> BOOLEAN

ReaderSends(n) ==
    /\ exit = "no"
    /\ Script!ReaderSends(n)
    /\ \E took \in Takes : exported' = IF took THEN [exported EXCEPT ![n] = sent'[n]] ELSE exported
    /\ UNCHANGED <<runnerVars, asked>>

-----------------------------------------------------------------------------
(* The child processes. *)

ProcessWorks(n) ==
    /\ exit = "no"
    /\ Script!ProcessWrites(n) \/ Script!ProcessBlocks(n)
    /\ UNCHANGED <<runnerVars, exported, asked>>

ProcessEnds(n) ==
    /\ Script!ProcessExits(n) \/ Script!ProcessTerminated(n)
    /\ UNCHANGED <<runnerVars, exported, asked>>

\* A write to the pipe of a runner that is gone kills the script.
ProcessBroken(n) ==
    /\ exit # "no"
    /\ Script!Live(n)
    /\ made[n] < MaxChunks
    /\ proc' = [proc EXCEPT ![n] = "exited"]
    /\ UNCHANGED <<runnerVars, input, caller, pc, run, command, signalled, stdout,
                   stopRead, reader, made, taken, sent, entries, exported, asked>>

-----------------------------------------------------------------------------
Main == MainAlone \/ StartScript \/ StopScriptSignal \/ StopScriptClose

Next ==
    \/ Main \/ Sigterm \/ Scheduler
    \/ \E n \in Runs : \/ ReaderWorks(n) \/ ReaderSends(n)
                       \/ ProcessWorks(n) \/ ProcessEnds(n) \/ ProcessBroken(n)

Spec == Init /\ [][Next]_vars

\* main goes on; nothing is asked of scripts, nor of the goroutines of an input.
FairSpec == Spec /\ WF_vars(Main)

-----------------------------------------------------------------------------
(* Properties. *)

\* Every variable keeps to its type.
TypeOK ==
    /\ Runner!TypeOK
    /\ Script!TypeOK
    /\ exported \in [Runs -> 0 .. MaxChunks]
    /\ asked \in 0 .. MaxRuns

\* What an input sends while it is in service reaches the exporter, up to the moment
\* when Stop returns.
ServiceDelivers ==
    caller \in {"started", "signalled"} => \A n \in Runs : exported[n] = sent[n]

\* Output that does not reach the exporter was lost to a pipe closed too early, or
\* came after Stop: in service nothing is lost between a reader and the exporter.
LossAccounted ==
    \A n \in Runs :
        reader[n] = "ended" /\ exported[n] < made[n] => stdout[n] = "closed" \/ Script!Done

Export == INSTANCE ScriptJob
            WITH status <- [n \in Runs |-> Script!JobStatus(n)],
                 output <- made,
                 entry <- exported

\* What comes out at the exporter is the job of the script, through start, shutdown,
\* the end of the runner and the death of a script without it: executions in order,
\* one at a time, and one entry for each at most, after its end, of what it wrote.
ExporterGetsJob == Export!Spec

\* A script left running without having been told to stop.
LeftBehind(n) == exit # "no" /\ Script!Live(n) /\ n \notin signalled

\* A script is left behind for one of three reasons.  The runner ended in order, with
\* Stop called, but the process was not in si.command until Stop had read it, even if
\* it had been started before.  Or the start of a receiver further down the list
\* failed.  Or a SIGTERM came before main listened for it.
OrphansExplained ==
    \A n \in Runs : LeftBehind(n) =>
        \/ exit = "ok" /\ Script!Done /\ n > asked
        \/ /\ exit = "error"
           /\ \E i \in Position + 1 .. Len(inputs) : receiver[i] = "created" /\ ~inputs[i].starts
        \/ exit = "killed" /\ main \in {"start", "notify"}

\* A SIGTERM that is caught ends the runner in order, whatever its scripts do.
SignalEnds == (exit = "no" /\ channel) ~> exit = "ok"
=============================================================================
