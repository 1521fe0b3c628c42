---------------------------- MODULE ScriptedInput ----------------------------
(***************************************************************************)
(* One scripted input of the TA runner (internal/scriptedinput/input.go):  *)
(* the operator's Start and Stop, the goroutine that schedules executions, *)
(* one execution of the script (_execute), the goroutine that reads its    *)
(* standard output, and the child process itself.                          *)
(*                                                                         *)
(* Executions are numbered 1..MaxRuns.  Output is counted in chunks: made  *)
(* by the process, taken out of the pipe by io.ReadAll, sent downstream as *)
(* the body of an entry.                                                   *)
(***************************************************************************)
EXTENDS Integers, FiniteSets

LOCAL INSTANCE FiniteSetsExt

CONSTANTS
    Inputs,        \* the stanzas an input can be configured with
    NotANumber,    \* an interval that strconv.Atoi rejects
    MaxRuns,       \* bound: executions of the script
    MaxChunks,     \* bound: chunks one execution writes to stdout
    PipeCapacity,  \* chunks the stdout pipe holds before a write blocks
    Faults         \* steps of an execution that can fail

Faultable == {"pipe", "feed", "spawn"}

ASSUME BoundsAssumption ==
    /\ MaxRuns \in Nat \ {0}
    /\ MaxChunks \in Nat
    /\ PipeCapacity \in Nat \ {0}
    /\ Faults \subseteq Faultable

Runs == 1 .. MaxRuns

-----------------------------------------------------------------------------
(* What scheduleInput makes of the stanza. *)

\* The parameter ends the loop with an error: its value is not an integer.
Malformed(param) == param.name = "interval" /\ param.value = NotANumber

\* The parameter ends the loop: the input is switched off.
Disables(param) == param.name = "disabled" /\ param.value = 1

\* Seconds between executions: the last interval parameter, an hour by default.
IntervalS(params) ==
    LET given == {i \in DOMAIN params : params[i].name = "interval"}
    IN  IF given = {} THEN 3600 ELSE params[Max(given)].value

\* "error": Start fails; "off": nothing is scheduled; "continuous": one
\* execution after another; "periodic": executions separated by a timer.
Schedule(input) ==
    LET params == input.params
        exits  == {i \in DOMAIN params : Malformed(params[i]) \/ Disables(params[i])}
        off    == exits # {} /\ Disables(params[Min(exits)])
    IN  CASE input.scheme \notin {"script", ""} -> "error"
          [] input.scheme \in {"script", ""} /\ exits # {} ->
                IF off THEN "off" ELSE "error"
          [] OTHER -> CASE IntervalS(params) = -1 -> "off"
                        [] IntervalS(params) = 0  -> "continuous"
                        [] OTHER                  -> "periodic"

Outcomes == {"error", "off", "continuous", "periodic"}

-----------------------------------------------------------------------------
VARIABLES
    input,     \* the stanza; never changes
    caller,    \* the goroutine that calls Start, then Stop
    pc,        \* the scheduling goroutine
    run,       \* its current execution, 0 before the first
    command,   \* si.command: the execution whose process Stop signals, 0 for nil
    proc,      \* child process of each execution
    signalled, \* executions whose process was sent SIGTERM
    stdout,    \* this program's end of each execution's stdout pipe
    stopRead,  \* executions whose stopRead channel is closed
    reader,    \* goroutine reading each execution's stdout
    made,      \* chunks the process wrote to stdout
    taken,     \* chunks io.ReadAll got from the pipe
    sent,      \* chunks handed downstream by si.Write
    entries    \* entries handed downstream by si.Write

execVars == <<input, caller, run, command, proc, signalled, stdout, stopRead,
              reader, made, taken, sent, entries>>
vars == <<execVars, pc>>

Mode == Schedule(input)

\* doneChan is closed by the last step of Stop.
Done == caller = "stopped"

\* A process that was started and is not known to be dead.
Live(n) == proc[n] \in {"running", "blocked"}

Init ==
    /\ input \in Inputs
    /\ caller = "new"
    /\ pc = "none"
    /\ run = 0
    /\ command = 0
    /\ proc = [n \in Runs |-> "none"]
    /\ signalled = {}
    /\ stdout = [n \in Runs |-> "none"]
    /\ stopRead = {}
    /\ reader = [n \in Runs |-> "none"]
    /\ made = [n \in Runs |-> 0]
    /\ taken = [n \in Runs |-> 0]
    /\ sent = [n \in Runs |-> 0]
    /\ entries = [n \in Runs |-> 0]

-----------------------------------------------------------------------------
(* The caller: Start, then Stop. *)

\* In periodic mode the goroutine executes the script at once, before its loop
\* looks at doneChan for the first time.
Start ==
    /\ caller = "new"
    /\ caller' = IF Mode = "error" THEN "failed" ELSE "started"
    /\ pc' = CASE Mode = "continuous" -> "select"
               [] Mode = "periodic"   -> "prepare"
               [] OTHER               -> pc
    /\ run' = IF Mode = "periodic" THEN 1 ELSE run
    /\ UNCHANGED <<input, command, proc, signalled, stdout, stopRead, reader,
                   made, taken, sent, entries>>

\* Stop reads si.command with no synchronisation and signals that process; a
\* process already gone is left alone.
StopSignal ==
    /\ caller = "started"
    /\ caller' = "signalled"
    /\ signalled' = signalled \cup {n \in {command} \cap Runs : Live(n)}
    /\ UNCHANGED <<input, pc, run, command, proc, stdout, stopRead, reader,
                   made, taken, sent, entries>>

\* Mutant: Stop waits for the execution under way.
StopCloseWaits ==
    /\ caller = "signalled"
    /\ pc \in {"none", "select", "ended"}
    /\ caller' = "stopped"
    /\ UNCHANGED <<input, pc, run, command, proc, signalled, stdout, stopRead,
                   reader, made, taken, sent, entries>>

StopClose ==
    /\ caller = "signalled"
    /\ caller' = "stopped"
    /\ UNCHANGED <<input, pc, run, command, proc, signalled, stdout, stopRead,
                   reader, made, taken, sent, entries>>

-----------------------------------------------------------------------------
(* The scheduling goroutine. *)

\* Mutant: break leaves the select statement, not the loop.
SelectDoneBreaks ==
    /\ pc = "select"
    /\ Done
    /\ pc' = "select"
    /\ UNCHANGED execVars

SelectDone ==
    /\ pc = "select"
    /\ Done
    /\ pc' = "ended"
    /\ UNCHANGED execVars

\* Continuous mode runs again only when doneChan is not ready; in periodic mode
\* the timer and doneChan may both be ready and select picks either.
SelectExecute ==
    /\ pc = "select"
    /\ Mode = "continuous" => ~Done
    /\ run < MaxRuns
    /\ pc' = "prepare"
    /\ run' = run + 1
    /\ UNCHANGED <<input, caller, command, proc, signalled, stdout, stopRead,
                   reader, made, taken, sent, entries>>

\* DetermineCommandName finds the script outside the base directory, or a pipe
\* cannot be made: the execution ends before it has any goroutine or process.
PrepareFails ==
    /\ pc = "prepare"
    /\ ~input.resolves \/ "pipe" \in Faults
    /\ pc' = "select"
    /\ UNCHANGED execVars

\* The pipes exist and the goroutine that reads stdout is started.
Prepare ==
    /\ pc = "prepare"
    /\ input.resolves
    /\ pc' = "feed"
    /\ stdout' = [stdout EXCEPT ![run] = "open"]
    /\ reader' = [reader EXCEPT ![run] = "check"]
    /\ UNCHANGED <<input, caller, run, command, proc, signalled, stopRead,
                   made, taken, sent, entries>>

\* The stanza's XML is written to stdin before the process exists: a stanza
\* larger than the pipe blocks here for ever, so only one that fits goes on.
Feed ==
    /\ pc = "feed"
    /\ input.fits
    /\ pc' = "spawn"
    /\ UNCHANGED execVars

\* ToXML, the write or the close failed: return with the reader left behind and
\* the pipe open at both ends, though nothing but the reader knows of it.
FeedFails ==
    /\ pc = "feed"
    /\ "feed" \in Faults
    /\ pc' = "select"
    /\ stdout' = [stdout EXCEPT ![run] = "orphaned"]
    /\ UNCHANGED <<input, caller, run, command, proc, signalled, stopRead,
                   reader, made, taken, sent, entries>>

Spawn ==
    /\ pc = "spawn"
    /\ pc' = "record"
    /\ proc' = [proc EXCEPT ![run] = "running"]
    /\ UNCHANGED <<input, caller, run, command, signalled, stdout, stopRead,
                   reader, made, taken, sent, entries>>

\* Mutant: the error of an execution ends the schedule.
SpawnFailsForGood ==
    /\ pc = "spawn"
    /\ "spawn" \in Faults
    /\ pc' = "ended"
    /\ stdout' = [stdout EXCEPT ![run] = "closed"]
    /\ UNCHANGED <<input, caller, run, command, proc, signalled, stopRead,
                   reader, made, taken, sent, entries>>

\* cmd.Start closes the pipes of a command it could not start.
SpawnFails ==
    /\ pc = "spawn"
    /\ "spawn" \in Faults
    /\ pc' = "select"
    /\ stdout' = [stdout EXCEPT ![run] = "closed"]
    /\ UNCHANGED <<input, caller, run, command, proc, signalled, stopRead,
                   reader, made, taken, sent, entries>>

Record ==
    /\ pc = "record"
    /\ pc' = "wait"
    /\ command' = run
    /\ UNCHANGED <<input, caller, run, proc, signalled, stdout, stopRead,
                   reader, made, taken, sent, entries>>

\* Mutant: the process is started and not waited for.
WaitNot ==
    /\ pc = "wait"
    /\ pc' = "finish"
    /\ UNCHANGED execVars

\* cmd.Wait returns when the process is dead, having closed the stdout pipe
\* whether or not it was drained.
Wait ==
    /\ pc = "wait"
    /\ proc[run] = "exited"
    /\ pc' = "finish"
    /\ proc' = [proc EXCEPT ![run] = "reaped"]
    /\ stdout' = [stdout EXCEPT ![run] = "closed"]
    /\ UNCHANGED <<input, caller, run, command, signalled, stopRead, reader,
                   made, taken, sent, entries>>

Finish ==
    /\ pc = "finish"
    /\ pc' = "select"
    /\ stopRead' = stopRead \cup {run}
    /\ UNCHANGED <<input, caller, run, command, proc, signalled, stdout,
                   reader, made, taken, sent, entries>>

-----------------------------------------------------------------------------
(* The child process of execution n. *)

PipeFull(n) == made[n] - taken[n] >= PipeCapacity

ProcessWrites(n) ==
    /\ Live(n)
    /\ ~PipeFull(n)
    /\ made[n] < MaxChunks
    /\ made' = [made EXCEPT ![n] = @ + 1]
    /\ proc' = [proc EXCEPT ![n] = "running"]
    /\ UNCHANGED <<input, caller, pc, run, command, signalled, stdout,
                   stopRead, reader, taken, sent, entries>>

\* A write to a full pipe blocks the process until the reader makes room.
ProcessBlocks(n) ==
    /\ proc[n] = "running"
    /\ PipeFull(n)
    /\ made[n] < MaxChunks
    /\ proc' = [proc EXCEPT ![n] = "blocked"]
    /\ UNCHANGED <<input, caller, pc, run, command, signalled, stdout,
                   stopRead, reader, made, taken, sent, entries>>

ProcessExits(n) ==
    /\ proc[n] = "running"
    /\ proc' = [proc EXCEPT ![n] = "exited"]
    /\ UNCHANGED <<input, caller, pc, run, command, signalled, stdout,
                   stopRead, reader, made, taken, sent, entries>>

ProcessTerminated(n) ==
    /\ Live(n)
    /\ n \in signalled
    /\ proc' = [proc EXCEPT ![n] = "exited"]
    /\ UNCHANGED <<input, caller, pc, run, command, signalled, stdout,
                   stopRead, reader, made, taken, sent, entries>>

-----------------------------------------------------------------------------
(* The goroutine that reads the stdout of execution n. *)

\* The body io.ReadAll has accumulated is not empty.
HoldsOutput(n) == taken[n] > sent[n]

readerFrame == <<input, caller, pc, run, command, proc, signalled, stdout,
                 stopRead, made>>

ReaderStops(n) ==
    /\ reader[n] = "check"
    /\ Done \/ n \in stopRead
    /\ reader' = [reader EXCEPT ![n] = "ended"]
    /\ UNCHANGED <<readerFrame, taken, sent, entries>>

ReaderCalls(n) ==
    /\ reader[n] = "check"
    /\ ~Done /\ n \notin stopRead
    /\ reader' = [reader EXCEPT ![n] = "reading"]
    /\ UNCHANGED <<readerFrame, taken, sent, entries>>

\* Mutant: the bytes of the buffer are counted, not those the read returned.
ReaderTakesTooMuch(n) ==
    /\ reader[n] = "reading"
    /\ stdout[n] = "open"
    /\ taken' = [taken EXCEPT ![n] = @ + 1]
    /\ UNCHANGED <<readerFrame, reader, sent, entries>>

\* Mutant: one read of the pipe in place of io.ReadAll.
ReaderTakesOnce(n) ==
    /\ reader[n] = "reading"
    /\ stdout[n] = "open"
    /\ taken[n] < made[n]
    /\ taken' = [taken EXCEPT ![n] = @ + 1]
    /\ reader' = [reader EXCEPT ![n] = "broken"]
    /\ UNCHANGED <<readerFrame, sent, entries>>

ReaderTakes(n) ==
    /\ reader[n] = "reading"
    /\ stdout[n] = "open"
    /\ taken[n] < made[n]
    /\ taken' = [taken EXCEPT ![n] = @ + 1]
    /\ UNCHANGED <<readerFrame, reader, sent, entries>>

\* Mutant: an empty pipe is taken for the end of the output.
ReaderAtEOFEarly(n) ==
    /\ reader[n] = "reading"
    /\ stdout[n] = "open"
    /\ taken[n] = made[n]
    /\ reader' = [reader EXCEPT ![n] = IF HoldsOutput(n) THEN "eof" ELSE "ended"]
    /\ UNCHANGED <<readerFrame, taken, sent, entries>>

\* io.ReadAll returns at end of file: the pipe is empty and its only writer, the
\* process, is dead (or there is none, and the garbage collector closed the other
\* end of an orphaned pipe).  An empty result ends the goroutine.
ReaderAtEOF(n) ==
    /\ reader[n] = "reading"
    /\ (stdout[n] = "open" /\ proc[n] = "exited") \/ stdout[n] = "orphaned"
    /\ taken[n] = made[n]
    /\ reader' = [reader EXCEPT ![n] = IF HoldsOutput(n) THEN "eof" ELSE "ended"]
    /\ UNCHANGED <<readerFrame, taken, sent, entries>>

\* io.ReadAll returns with an error: the pipe was closed under it.
ReaderBroken(n) ==
    /\ reader[n] = "reading"
    /\ stdout[n] = "closed"
    /\ reader' = [reader EXCEPT ![n] = IF HoldsOutput(n) THEN "broken" ELSE "ended"]
    /\ UNCHANGED <<readerFrame, taken, sent, entries>>

\* One entry holds everything io.ReadAll returned; after an error the goroutine
\* returns, after end of file it loops.
ReaderSends(n) ==
    /\ reader[n] \in {"eof", "broken"}
    /\ sent' = [sent EXCEPT ![n] = taken[n]]
    /\ entries' = [entries EXCEPT ![n] = @ + 1]
    /\ reader' = [reader EXCEPT ![n] = IF @ = "broken" THEN "ended" ELSE "check"]
    /\ UNCHANGED <<readerFrame, taken>>

-----------------------------------------------------------------------------
Caller == Start \/ StopSignal \/ StopClose

Execute == \/ Prepare \/ PrepareFails \/ Feed \/ FeedFails \/ Spawn
           \/ SpawnFails \/ Record \/ Wait \/ Finish

Scheduler == SelectDone \/ SelectExecute \/ Execute

Process(n) == \/ ProcessWrites(n) \/ ProcessBlocks(n)
              \/ ProcessExits(n) \/ ProcessTerminated(n)

Reader(n) == \/ ReaderStops(n) \/ ReaderCalls(n) \/ ReaderTakes(n)
             \/ ReaderAtEOF(n) \/ ReaderBroken(n) \/ ReaderSends(n)

Next ==
    \/ Caller
    \/ Scheduler
    \/ \E n \in Runs : Process(n) \/ Reader(n)

Spec == Init /\ [][Next]_vars

\* Goroutines the Go scheduler runs, select's uniform choice, a Stop that once
\* begun goes on, and scripts that obey SIGTERM.  Nothing makes a script exit.
GoFairness ==
    /\ WF_vars(StopClose)
    /\ WF_vars(Execute)
    /\ WF_vars(SelectExecute)
    /\ SF_vars(SelectDone)
    /\ \A n \in Runs : WF_vars(Reader(n)) /\ WF_vars(ProcessTerminated(n))

\* Besides, every script comes to the end of its own work and exits: it writes
\* what it has to write, and then leaves.
ScriptsEnd == \A n \in Runs : WF_vars(ProcessWrites(n)) /\ WF_vars(ProcessExits(n))

FairSpec == Spec /\ GoFairness

EndingSpec == FairSpec /\ ScriptsEnd

-----------------------------------------------------------------------------
(* Properties. *)

ProcStates == {"none", "running", "blocked", "exited", "reaped"}
ReaderStates == {"none", "check", "reading", "eof", "broken", "ended"}
PcStates == {"none", "select", "prepare", "feed", "spawn", "record", "wait",
             "finish", "ended"}

\* Every variable keeps to the values the code can give it (the fields of
\* ScriptedInput and the locals of _execute).
TypeOK ==
    /\ input \in Inputs
    /\ caller \in {"new", "started", "failed", "signalled", "stopped"}
    /\ pc \in PcStates
    /\ run \in 0 .. MaxRuns
    /\ command \in 0 .. MaxRuns
    /\ proc \in [Runs -> ProcStates]
    /\ signalled \subseteq Runs
    /\ stdout \in [Runs -> {"none", "open", "orphaned", "closed"}]
    /\ stopRead \subseteq Runs
    /\ reader \in [Runs -> ReaderStates]
    /\ made \in [Runs -> 0 .. MaxChunks]
    /\ taken \in [Runs -> 0 .. MaxChunks]
    /\ sent \in [Runs -> 0 .. MaxChunks]
    /\ entries \in [Runs -> Nat]

\* A process this program has started and not yet waited for.
Unreaped(n) == proc[n] \in {"running", "blocked", "exited"}

\* The script never runs twice at once, whatever its interval: an execution
\* starts its process only after cmd.Wait reaped the one before.
OneProcess == \A m, n \in Runs : Unreaped(m) /\ Unreaped(n) => m = n

\* Output goes missing for two reasons only: cmd.Wait (or a failed cmd.Start)
\* closed the pipe before it was drained, or Stop closed doneChan before the
\* reader began.  A reader never abandons an open pipe of its own accord.
LossExplained ==
    \A n \in Runs :
        reader[n] = "ended" /\ sent[n] < made[n] => stdout[n] = "closed" \/ Done

JobStatus(n) == CASE proc[n] = "none" -> "pending"
                  [] Live(n)          -> "live"
                  [] OTHER            -> "over"

Job == INSTANCE ScriptJob
         WITH status <- [n \in Runs |-> JobStatus(n)],
              output <- made,
              entry <- sent

\* The goroutines, pipes and signals of a scripted input implement the job the
\* pipeline expects: executions in order and one at a time, one entry at most
\* for each, only after the script has ended and never with invented output.
JobSpec == Job!Spec

\* An execution that fails at any step does not end the schedule: as long as
\* Stop is not called, the next one follows.
ScheduleGoesOn ==
    \A n \in 0 .. MaxRuns - 1 :
        (Mode \in {"continuous", "periodic"} /\ input.fits
           /\ caller = "started" /\ run = n) ~>
        (run > n \/ caller # "started")

\* Nothing of the input survives: its goroutines have returned and no process
\* of it is alive.
AllGone ==
    /\ pc \in {"none", "ended"}
    /\ \A n \in Runs : reader[n] \in {"none", "ended"} /\ ~Live(n)

\* What keeps an input from ending for good: the script waits for room in a pipe
\* nobody reads any more, and has not been signalled; or the stanza's XML waits for
\* a reader of stdin that is not started yet.
Stuck ==
    \/ \E n \in Runs : proc[n] = "blocked" /\ reader[n] = "ended" /\ n \notin signalled
    \/ pc = "feed" /\ ~input.fits

\* After Stop everything the input started comes to an end: the scheduling
\* goroutine, the readers and the script, unless one is stuck on a full pipe.
StopEndsAll == Done ~> (AllGone \/ Stuck)

\* What a script wrote is captured: once its reader is finished, with the input
\* still in service, all of the output has been handed on.
OutputCaptured ==
    \A n \in Runs : reader[n] = "ended" /\ caller = "started" => sent[n] = made[n]
=============================================================================
