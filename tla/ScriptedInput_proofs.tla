------------------------ MODULE ScriptedInput_proofs ------------------------
(***************************************************************************)
(* Proofs about ScriptedInput for every set of stanzas, every number of    *)
(* executions, every pipe capacity and every set of faults: the type       *)
(* invariant, OneProcess, LossExplained, and the refinement of ScriptJob.  *)
(***************************************************************************)
EXTENDS ScriptedInput, TLAPS

\* The scheduling goroutine inside _execute.
Executing == {"prepare", "feed", "spawn", "record", "wait", "finish"}

\* Typing, and that the goroutine in an execution has a number for it.
TypeInv ==
    /\ TypeOK
    /\ pc \in Executing => run \in Runs

\* What the place of the scheduling goroutine says of its current execution.
SchedulerInv ==
    /\ caller = "new" => pc = "none" /\ run = 0
    /\ pc = "prepare" => stdout[run] = "none" /\ reader[run] = "none"
    /\ pc \in {"prepare", "feed", "spawn"} => proc[run] = "none"
    /\ pc \in {"feed", "spawn", "record", "wait"} => stdout[run] = "open"
    /\ pc = "finish" => stdout[run] = "closed"

\* Executions to come have nothing yet; the one being waited for is alone.
ProcessInv(n) ==
    /\ n > run => proc[n] = "none" /\ stdout[n] = "none" /\ reader[n] = "none"
    /\ Unreaped(n) => n = run /\ pc \in {"record", "wait"}
    /\ proc[n] = "none" => made[n] = 0
    /\ proc[n] = "reaped" \/ n \in stopRead => stdout[n] = "closed"
    /\ stdout[n] = "orphaned" => proc[n] = "none"

Over(n) == proc[n] \in {"exited", "reaped"}

\* An entry is sent once, and only when the pipe is closed or drained for good.
ReaderInv(n) ==
    /\ sent[n] <= taken[n] /\ taken[n] <= made[n]
    /\ reader[n] \in {"eof", "broken"} => HoldsOutput(n) /\ sent[n] = 0
    /\ reader[n] = "broken" => stdout[n] = "closed"
    /\ reader[n] = "eof" => Over(n) /\ taken[n] = made[n]
    /\ sent[n] > 0 =>
          /\ Over(n)
          /\ \/ reader[n] = "ended"
             \/ reader[n] \in {"check", "reading"} /\ sent[n] = made[n]
    /\ reader[n] = "ended" =>
          \/ stdout[n] \in {"closed", "orphaned"}
          \/ Done
          \/ sent[n] = made[n] /\ Over(n)

\* The inductive invariant.
IInv ==
    /\ TypeInv
    /\ SchedulerInv
    /\ \A n \in Runs : ProcessInv(n) /\ ReaderInv(n)

-----------------------------------------------------------------------------
(* Typing. *)

\* The execution after one that is not the last has a number.
LEMMA NextRun ==
  ASSUME NEW k \in 0 .. MaxRuns, k < MaxRuns
  PROVE  k + 1 \in 0 .. MaxRuns /\ k + 1 \in 1 .. MaxRuns
  BY BoundsAssumption

\* A reader that is behind the process stays within the bound on chunks.
LEMMA NextChunk ==
  ASSUME NEW k \in 0 .. MaxChunks, NEW l \in 0 .. MaxChunks, k < l
  PROVE  k + 1 \in 0 .. MaxChunks
  BY BoundsAssumption

\* No action takes a variable out of its type.
LEMMA TypeStep == TypeInv /\ [Next]_vars => TypeInv'
<1> SUFFICES ASSUME TypeInv, [Next]_vars PROVE TypeInv'
  OBVIOUS
<1> USE BoundsAssumption DEF TypeInv, TypeOK, Runs, ProcStates, ReaderStates,
                             PcStates, Executing
<1>1. ASSUME Start PROVE TypeInv'
  BY <1>1 DEF Start
<1>2. ASSUME StopSignal PROVE TypeInv'
  BY <1>2 DEF StopSignal
<1>3. ASSUME StopClose PROVE TypeInv'
  BY <1>3 DEF StopClose
<1>4. ASSUME SelectDone PROVE TypeInv'
  BY <1>4 DEF SelectDone, execVars
<1>5. ASSUME SelectExecute PROVE TypeInv'
  <2>1. run + 1 \in 0 .. MaxRuns /\ run + 1 \in 1 .. MaxRuns
    BY NextRun, <1>5 DEF SelectExecute
  <2> QED
    BY <1>5, <2>1 DEF SelectExecute
<1>6. ASSUME PrepareFails PROVE TypeInv'
  BY <1>6 DEF PrepareFails, execVars
<1>7. ASSUME Prepare PROVE TypeInv'
  BY <1>7 DEF Prepare
<1>8. ASSUME Feed PROVE TypeInv'
  BY <1>8 DEF Feed, execVars
<1>9. ASSUME FeedFails PROVE TypeInv'
  BY <1>9 DEF FeedFails
<1>10. ASSUME Spawn PROVE TypeInv'
  BY <1>10 DEF Spawn
<1>11. ASSUME SpawnFails PROVE TypeInv'
  BY <1>11 DEF SpawnFails
<1>12. ASSUME Record PROVE TypeInv'
  BY <1>12 DEF Record
<1>13. ASSUME Wait PROVE TypeInv'
  BY <1>13 DEF Wait
<1>14. ASSUME Finish PROVE TypeInv'
  BY <1>14 DEF Finish
<1>15. ASSUME NEW n \in Runs, ProcessWrites(n) PROVE TypeInv'
  <2>1. made[n] + 1 \in 0 .. MaxChunks
    BY <1>15 DEF ProcessWrites
  <2> QED
    BY <1>15, <2>1 DEF ProcessWrites
<1>16. ASSUME NEW n \in Runs, ProcessBlocks(n) PROVE TypeInv'
  BY <1>16 DEF ProcessBlocks
<1>17. ASSUME NEW n \in Runs, ProcessExits(n) PROVE TypeInv'
  BY <1>17 DEF ProcessExits
<1>18. ASSUME NEW n \in Runs, ProcessTerminated(n) PROVE TypeInv'
  BY <1>18 DEF ProcessTerminated
<1>19. ASSUME NEW n \in Runs, ReaderStops(n) PROVE TypeInv'
  BY <1>19 DEF ReaderStops, readerFrame
<1>20. ASSUME NEW n \in Runs, ReaderCalls(n) PROVE TypeInv'
  BY <1>20 DEF ReaderCalls, readerFrame
<1>21. ASSUME NEW n \in Runs, ReaderTakes(n) PROVE TypeInv'
  <2>1. taken[n] + 1 \in 0 .. MaxChunks
    BY NextChunk, <1>21 DEF ReaderTakes
  <2> QED
    BY <1>21, <2>1 DEF ReaderTakes, readerFrame
<1>22. ASSUME NEW n \in Runs, ReaderAtEOF(n) PROVE TypeInv'
  BY <1>22 DEF ReaderAtEOF, readerFrame
<1>23. ASSUME NEW n \in Runs, ReaderBroken(n) PROVE TypeInv'
  BY <1>23 DEF ReaderBroken, readerFrame
<1>24. ASSUME NEW n \in Runs, ReaderSends(n) PROVE TypeInv'
  <2>1. entries[n] + 1 \in Nat
    BY <1>24 DEF ReaderSends
  <2> QED
    BY <1>24, <2>1 DEF ReaderSends, readerFrame
<1>25. CASE UNCHANGED vars
  BY <1>25 DEF vars, execVars
<1> QED
  BY <1>1, <1>2, <1>3, <1>4, <1>5, <1>6, <1>7, <1>8, <1>9, <1>10, <1>11,
     <1>12, <1>13, <1>14, <1>15, <1>16, <1>17, <1>18, <1>19, <1>20, <1>21,
     <1>22, <1>23, <1>24, <1>25
  DEF Next, Caller, Scheduler, Execute, Process, Reader

\* Init is well typed.
LEMMA TypeInit == Init => TypeInv
  BY BoundsAssumption DEF Init, TypeInv, TypeOK, Runs, ProcStates, ReaderStates,
                          PcStates, Executing

\* Every variable keeps to its type, for every value of the constants.
THEOREM TypeCorrect == Spec => []TypeOK
<1>1. TypeInv => TypeOK
  BY DEF TypeInv
<1> QED
  BY <1>1, TypeInit, TypeStep, PTL DEF Spec

-----------------------------------------------------------------------------
(* The inductive invariant. *)

\* The inductive invariant holds before Start.
LEMMA IInvInit == Init => IInv
  BY TypeInit, BoundsAssumption
  DEF Init, IInv, SchedulerInv, ProcessInv, ReaderInv, Unreaped, HoldsOutput,
      Executing, Runs, Done

\* The process and the reader of one execution leave the others alone.
LEMMA OtherRun ==
  ASSUME TypeOK, NEW n \in Runs, NEW m \in Runs, m # n, Process(n) \/ Reader(n)
  PROVE  UNCHANGED <<stdout[m], proc[m], reader[m], made[m], taken[m], sent[m], caller>>
<1> USE DEF TypeOK, readerFrame
<1>1. CASE Process(n)
  BY <1>1 DEF Process, ProcessWrites, ProcessBlocks, ProcessExits, ProcessTerminated
<1>2. CASE Reader(n)
  BY <1>2 DEF Reader, ReaderStops, ReaderCalls, ReaderTakes, ReaderAtEOF,
              ReaderBroken, ReaderSends
<1> QED
  BY <1>1, <1>2

\* What is true of a reader stays true while nothing it depends on changes.
LEMMA SameReader ==
  ASSUME NEW m \in Runs, ReaderInv(m),
         UNCHANGED <<stdout[m], proc[m], reader[m], made[m], taken[m], sent[m], caller>>
  PROVE  ReaderInv(m)'
  BY DEF ReaderInv, Over, HoldsOutput, Done

\* The reader has an entry to send only when the process is dead, and its first.
LEMMA SenderIsOver ==
  ASSUME IInv, NEW n \in Runs, ReaderSends(n)
  PROVE  Over(n) /\ sent[n] = 0 /\ taken[n] \in 1 .. made[n]
<1>1. /\ made[n] \in Nat /\ taken[n] \in Nat /\ sent[n] \in Nat
      /\ proc[n] \in ProcStates
  BY BoundsAssumption DEF IInv, TypeInv, TypeOK
<1>2. SchedulerInv /\ ProcessInv(n) /\ ReaderInv(n)
  BY DEF IInv
<1>3. sent[n] = 0 /\ taken[n] > 0 /\ taken[n] <= made[n]
  BY <1>1, <1>2 DEF ReaderSends, ReaderInv, HoldsOutput
<1>4. proc[n] # "none"
  BY <1>1, <1>2, <1>3 DEF ProcessInv
<1>5. CASE reader[n] = "eof"
  BY <1>1, <1>2, <1>3, <1>5 DEF ReaderInv
<1>6. CASE reader[n] = "broken"
  <2>1. stdout[n] = "closed"
    BY <1>2, <1>6 DEF ReaderInv
  <2>2. ~Unreaped(n) \/ proc[n] = "exited"
    BY <1>2, <2>1 DEF ProcessInv, SchedulerInv
  <2> QED
    BY <1>1, <1>3, <1>4, <2>2 DEF Unreaped, Over, ProcStates
<1> QED
  BY <1>5, <1>6 DEF ReaderSends

\* The scheduling goroutine knows what its current execution has.
LEMMA SchedulerStep == IInv /\ [Next]_vars => SchedulerInv'
<1> SUFFICES ASSUME IInv, [Next]_vars PROVE SchedulerInv'
  OBVIOUS
<1> USE BoundsAssumption
    DEF IInv, TypeInv, TypeOK, SchedulerInv, ProcessInv, Executing, Runs,
        ProcStates, ReaderStates, PcStates, Unreaped, Done
<1>1. ASSUME Start PROVE SchedulerInv'
  BY <1>1 DEF Start
<1>2. ASSUME StopSignal PROVE SchedulerInv'
  BY <1>2 DEF StopSignal
<1>3. ASSUME StopClose PROVE SchedulerInv'
  BY <1>3 DEF StopClose
<1>4. ASSUME SelectDone PROVE SchedulerInv'
  BY <1>4 DEF SelectDone, execVars
<1>5. ASSUME SelectExecute PROVE SchedulerInv'
  BY <1>5 DEF SelectExecute
<1>6. ASSUME PrepareFails PROVE SchedulerInv'
  BY <1>6 DEF PrepareFails, execVars
<1>7. ASSUME Prepare PROVE SchedulerInv'
  BY <1>7 DEF Prepare
<1>8. ASSUME Feed PROVE SchedulerInv'
  BY <1>8 DEF Feed, execVars
<1>9. ASSUME FeedFails PROVE SchedulerInv'
  BY <1>9 DEF FeedFails
<1>10. ASSUME Spawn PROVE SchedulerInv'
  BY <1>10 DEF Spawn
<1>11. ASSUME SpawnFails PROVE SchedulerInv'
  BY <1>11 DEF SpawnFails
<1>12. ASSUME Record PROVE SchedulerInv'
  BY <1>12 DEF Record
<1>13. ASSUME Wait PROVE SchedulerInv'
  BY <1>13 DEF Wait
<1>14. ASSUME Finish PROVE SchedulerInv'
  BY <1>14 DEF Finish
<1>15. ASSUME NEW n \in Runs, ProcessWrites(n) PROVE SchedulerInv'
  BY <1>15 DEF ProcessWrites, Live
<1>16. ASSUME NEW n \in Runs, ProcessBlocks(n) PROVE SchedulerInv'
  BY <1>16 DEF ProcessBlocks, Live
<1>17. ASSUME NEW n \in Runs, ProcessExits(n) PROVE SchedulerInv'
  BY <1>17 DEF ProcessExits, Live
<1>18. ASSUME NEW n \in Runs, ProcessTerminated(n) PROVE SchedulerInv'
  BY <1>18 DEF ProcessTerminated, Live
<1>19. ASSUME NEW n \in Runs, ReaderStops(n) PROVE SchedulerInv'
  BY <1>19 DEF ReaderStops, readerFrame
<1>20. ASSUME NEW n \in Runs, ReaderCalls(n) PROVE SchedulerInv'
  BY <1>20 DEF ReaderCalls, readerFrame
<1>21. ASSUME NEW n \in Runs, ReaderTakes(n) PROVE SchedulerInv'
  BY <1>21 DEF ReaderTakes, readerFrame
<1>22. ASSUME NEW n \in Runs, ReaderAtEOF(n) PROVE SchedulerInv'
  BY <1>22 DEF ReaderAtEOF, readerFrame
<1>23. ASSUME NEW n \in Runs, ReaderBroken(n) PROVE SchedulerInv'
  BY <1>23 DEF ReaderBroken, readerFrame
<1>24. ASSUME NEW n \in Runs, ReaderSends(n) PROVE SchedulerInv'
  BY <1>24 DEF ReaderSends, readerFrame
<1>25. CASE UNCHANGED vars
  BY <1>25 DEF vars, execVars
<1> QED
  BY <1>1, <1>2, <1>3, <1>4, <1>5, <1>6, <1>7, <1>8, <1>9, <1>10, <1>11,
     <1>12, <1>13, <1>14, <1>15, <1>16, <1>17, <1>18, <1>19, <1>20, <1>21,
     <1>22, <1>23, <1>24, <1>25
  DEF Next, Caller, Scheduler, Execute, Process, Reader

\* One process at a time, and only while the goroutine waits for it.
LEMMA ProcessStep == IInv /\ [Next]_vars => \A m \in Runs : ProcessInv(m)'
<1> SUFFICES ASSUME IInv, [Next]_vars, NEW m \in Runs PROVE ProcessInv(m)'
  OBVIOUS
<1> USE BoundsAssumption
    DEF IInv, TypeInv, TypeOK, SchedulerInv, ProcessInv, Executing, Runs,
        ProcStates, ReaderStates, PcStates, Unreaped, Done
<1>1. ASSUME Start PROVE ProcessInv(m)'
  BY <1>1 DEF Start
<1>2. ASSUME StopSignal PROVE ProcessInv(m)'
  BY <1>2 DEF StopSignal
<1>3. ASSUME StopClose PROVE ProcessInv(m)'
  BY <1>3 DEF StopClose
<1>4. ASSUME SelectDone PROVE ProcessInv(m)'
  BY <1>4 DEF SelectDone, execVars
<1>5. ASSUME SelectExecute PROVE ProcessInv(m)'
  BY <1>5 DEF SelectExecute
<1>6. ASSUME PrepareFails PROVE ProcessInv(m)'
  BY <1>6 DEF PrepareFails, execVars
<1>7. ASSUME Prepare PROVE ProcessInv(m)'
  BY <1>7 DEF Prepare
<1>8. ASSUME Feed PROVE ProcessInv(m)'
  BY <1>8 DEF Feed, execVars
<1>9. ASSUME FeedFails PROVE ProcessInv(m)'
  BY <1>9 DEF FeedFails
<1>10. ASSUME Spawn PROVE ProcessInv(m)'
  BY <1>10 DEF Spawn
<1>11. ASSUME SpawnFails PROVE ProcessInv(m)'
  BY <1>11 DEF SpawnFails
<1>12. ASSUME Record PROVE ProcessInv(m)'
  BY <1>12 DEF Record
<1>13. ASSUME Wait PROVE ProcessInv(m)'
  BY <1>13 DEF Wait
<1>14. ASSUME Finish PROVE ProcessInv(m)'
  BY <1>14 DEF Finish
<1>15. ASSUME NEW n \in Runs, ProcessWrites(n) PROVE ProcessInv(m)'
  BY <1>15 DEF ProcessWrites, Live
<1>16. ASSUME NEW n \in Runs, ProcessBlocks(n) PROVE ProcessInv(m)'
  BY <1>16 DEF ProcessBlocks, Live
<1>17. ASSUME NEW n \in Runs, ProcessExits(n) PROVE ProcessInv(m)'
  BY <1>17 DEF ProcessExits, Live
<1>18. ASSUME NEW n \in Runs, ProcessTerminated(n) PROVE ProcessInv(m)'
  BY <1>18 DEF ProcessTerminated, Live
<1>19. ASSUME NEW n \in Runs, ReaderStops(n) PROVE ProcessInv(m)'
  BY <1>19 DEF ReaderStops, readerFrame
<1>20. ASSUME NEW n \in Runs, ReaderCalls(n) PROVE ProcessInv(m)'
  BY <1>20 DEF ReaderCalls, readerFrame
<1>21. ASSUME NEW n \in Runs, ReaderTakes(n) PROVE ProcessInv(m)'
  BY <1>21 DEF ReaderTakes, readerFrame
<1>22. ASSUME NEW n \in Runs, ReaderAtEOF(n) PROVE ProcessInv(m)'
  BY <1>22 DEF ReaderAtEOF, readerFrame
<1>23. ASSUME NEW n \in Runs, ReaderBroken(n) PROVE ProcessInv(m)'
  BY <1>23 DEF ReaderBroken, readerFrame
<1>24. ASSUME NEW n \in Runs, ReaderSends(n) PROVE ProcessInv(m)'
  BY <1>24 DEF ReaderSends, readerFrame
<1>25. CASE UNCHANGED vars
  BY <1>25 DEF vars, execVars
<1> QED
  BY <1>1, <1>2, <1>3, <1>4, <1>5, <1>6, <1>7, <1>8, <1>9, <1>10, <1>11,
     <1>12, <1>13, <1>14, <1>15, <1>16, <1>17, <1>18, <1>19, <1>20, <1>21,
     <1>22, <1>23, <1>24, <1>25
  DEF Next, Caller, Scheduler, Execute, Process, Reader

\* Readers deliver once, from a pipe that is closed or drained.
LEMMA ReaderStep == IInv /\ [Next]_vars => \A m \in Runs : ReaderInv(m)'
<1> SUFFICES ASSUME IInv, [Next]_vars, NEW m \in Runs PROVE ReaderInv(m)'
  OBVIOUS
<1> USE DEF IInv, TypeInv, TypeOK
<1>a. /\ made[m] \in Nat /\ taken[m] \in Nat /\ sent[m] \in Nat
      /\ proc[m] \in ProcStates /\ reader[m] \in ReaderStates
  BY BoundsAssumption
<1>b. SchedulerInv /\ ProcessInv(m) /\ ReaderInv(m)
  OBVIOUS
<1>1. ASSUME Start PROVE ReaderInv(m)'
  BY <1>1, <1>a, <1>b
  DEF Start, ReaderInv, ProcessInv, SchedulerInv, Unreaped, Over,
      HoldsOutput, Done
<1>2. ASSUME StopSignal PROVE ReaderInv(m)'
  BY <1>2, <1>a, <1>b
  DEF StopSignal, ReaderInv, ProcessInv, SchedulerInv, Unreaped, Over,
      HoldsOutput, Done
<1>3. ASSUME StopClose PROVE ReaderInv(m)'
  BY <1>3, <1>a, <1>b
  DEF StopClose, ReaderInv, ProcessInv, SchedulerInv, Unreaped, Over,
      HoldsOutput, Done
<1>4. ASSUME SelectDone PROVE ReaderInv(m)'
  BY <1>4, <1>a, <1>b
  DEF SelectDone, execVars, ReaderInv, ProcessInv, SchedulerInv, Unreaped, Over,
      HoldsOutput, Done
<1>5. ASSUME SelectExecute PROVE ReaderInv(m)'
  BY <1>5, <1>a, <1>b
  DEF SelectExecute, ReaderInv, ProcessInv, SchedulerInv, Unreaped, Over,
      HoldsOutput, Done
<1>6. ASSUME PrepareFails PROVE ReaderInv(m)'
  BY <1>6, <1>a, <1>b
  DEF PrepareFails, execVars, ReaderInv, ProcessInv, SchedulerInv, Unreaped, Over,
      HoldsOutput, Done
<1>7. ASSUME Prepare PROVE ReaderInv(m)'
  BY <1>7, <1>a, <1>b
  DEF Prepare, ReaderInv, ProcessInv, SchedulerInv, Unreaped, Over,
      HoldsOutput, Done
<1>8. ASSUME Feed PROVE ReaderInv(m)'
  BY <1>8, <1>a, <1>b
  DEF Feed, execVars, ReaderInv, ProcessInv, SchedulerInv, Unreaped, Over,
      HoldsOutput, Done
<1>9. ASSUME FeedFails PROVE ReaderInv(m)'
  BY <1>9, <1>a, <1>b
  DEF FeedFails, ReaderInv, ProcessInv, SchedulerInv, Unreaped, Over,
      HoldsOutput, Done
<1>10. ASSUME Spawn PROVE ReaderInv(m)'
  BY <1>10, <1>a, <1>b
  DEF Spawn, ReaderInv, ProcessInv, SchedulerInv, Unreaped, Over,
      HoldsOutput, Done
<1>11. ASSUME SpawnFails PROVE ReaderInv(m)'
  BY <1>11, <1>a, <1>b
  DEF SpawnFails, ReaderInv, ProcessInv, SchedulerInv, Unreaped, Over,
      HoldsOutput, Done
<1>12. ASSUME Record PROVE ReaderInv(m)'
  BY <1>12, <1>a, <1>b
  DEF Record, ReaderInv, ProcessInv, SchedulerInv, Unreaped, Over,
      HoldsOutput, Done
<1>13. ASSUME Wait PROVE ReaderInv(m)'
  BY <1>13, <1>a, <1>b
  DEF Wait, ReaderInv, ProcessInv, SchedulerInv, Unreaped, Over,
      HoldsOutput, Done
<1>14. ASSUME Finish PROVE ReaderInv(m)'
  BY <1>14, <1>a, <1>b
  DEF Finish, ReaderInv, ProcessInv, SchedulerInv, Unreaped, Over,
      HoldsOutput, Done
<1>15. ASSUME NEW n \in Runs, ProcessWrites(n) PROVE ReaderInv(m)'
  <2>1. CASE m # n
    BY <1>15, <2>1, OtherRun, SameReader DEF Process, Reader
  <2>2. CASE m = n
    <3>1. proc'[n] = "running" /\ made'[n] = made[n] + 1
      BY <1>15 DEF ProcessWrites, Live
    <3>2. UNCHANGED <<stdout[n], reader[n], taken[n], sent[n], stopRead, caller>>
      BY <1>15 DEF ProcessWrites, Live
    <3> QED
      BY <1>15, <1>a, <1>b, <2>2, <3>1, <3>2 DEF ProcessWrites, Live, ReaderInv,
         ProcessInv, SchedulerInv, Unreaped, Over, HoldsOutput, Done
  <2> QED
    BY <2>1, <2>2
<1>16. ASSUME NEW n \in Runs, ProcessBlocks(n) PROVE ReaderInv(m)'
  <2>1. CASE m # n
    BY <1>16, <2>1, OtherRun, SameReader DEF Process, Reader
  <2>2. CASE m = n
    <3>1. proc'[n] = "blocked"
      BY <1>16 DEF ProcessBlocks, Live
    <3>2. UNCHANGED <<stdout[n], reader[n], made[n], taken[n], sent[n], stopRead, caller>>
      BY <1>16 DEF ProcessBlocks, Live
    <3> QED
      BY <1>16, <1>a, <1>b, <2>2, <3>1, <3>2 DEF ProcessBlocks, Live, ReaderInv,
         ProcessInv, SchedulerInv, Unreaped, Over, HoldsOutput, Done
  <2> QED
    BY <2>1, <2>2
<1>17. ASSUME NEW n \in Runs, ProcessExits(n) PROVE ReaderInv(m)'
  <2>1. CASE m # n
    BY <1>17, <2>1, OtherRun, SameReader DEF Process, Reader
  <2>2. CASE m = n
    <3>1. proc'[n] = "exited"
      BY <1>17 DEF ProcessExits, Live
    <3>2. UNCHANGED <<stdout[n], reader[n], made[n], taken[n], sent[n], stopRead, caller>>
      BY <1>17 DEF ProcessExits, Live
    <3> QED
      BY <1>17, <1>a, <1>b, <2>2, <3>1, <3>2 DEF ProcessExits, Live, ReaderInv,
         ProcessInv, SchedulerInv, Unreaped, Over, HoldsOutput, Done
  <2> QED
    BY <2>1, <2>2
<1>18. ASSUME NEW n \in Runs, ProcessTerminated(n) PROVE ReaderInv(m)'
  <2>1. CASE m # n
    BY <1>18, <2>1, OtherRun, SameReader DEF Process, Reader
  <2>2. CASE m = n
    <3>1. proc'[n] = "exited"
      BY <1>18 DEF ProcessTerminated, Live
    <3>2. UNCHANGED <<stdout[n], reader[n], made[n], taken[n], sent[n], stopRead, caller>>
      BY <1>18 DEF ProcessTerminated, Live
    <3> QED
      BY <1>18, <1>a, <1>b, <2>2, <3>1, <3>2 DEF ProcessTerminated, Live, ReaderInv,
         ProcessInv, SchedulerInv, Unreaped, Over, HoldsOutput, Done
  <2> QED
    BY <2>1, <2>2
<1>19. ASSUME NEW n \in Runs, ReaderStops(n) PROVE ReaderInv(m)'
  <2>1. CASE m # n
    BY <1>19, <2>1, OtherRun, SameReader DEF Process, Reader
  <2>2. CASE m = n
    <3>1. reader'[n] = "ended"
      BY <1>19 DEF ReaderStops, readerFrame
    <3>2. UNCHANGED <<stdout[n], proc[n], made[n], taken[n], sent[n], stopRead, caller>>
      BY <1>19 DEF ReaderStops, readerFrame
    <3> QED
      BY <1>19, <1>a, <1>b, <2>2, <3>1, <3>2 DEF ReaderStops, readerFrame,
         ReaderInv,
         ProcessInv, SchedulerInv, Unreaped, Over, HoldsOutput, Done
  <2> QED
    BY <2>1, <2>2
<1>20. ASSUME NEW n \in Runs, ReaderCalls(n) PROVE ReaderInv(m)'
  <2>1. CASE m # n
    BY <1>20, <2>1, OtherRun, SameReader DEF Process, Reader
  <2>2. CASE m = n
    <3>1. reader'[n] = "reading"
      BY <1>20 DEF ReaderCalls, readerFrame
    <3>2. UNCHANGED <<stdout[n], proc[n], made[n], taken[n], sent[n], stopRead, caller>>
      BY <1>20 DEF ReaderCalls, readerFrame
    <3> QED
      BY <1>20, <1>a, <1>b, <2>2, <3>1, <3>2 DEF ReaderCalls, readerFrame,
         ReaderInv,
         ProcessInv, SchedulerInv, Unreaped, Over, HoldsOutput, Done
  <2> QED
    BY <2>1, <2>2
<1>21. ASSUME NEW n \in Runs, ReaderTakes(n) PROVE ReaderInv(m)'
  <2>1. CASE m # n
    BY <1>21, <2>1, OtherRun, SameReader DEF Process, Reader
  <2>2. CASE m = n
    <3>1. taken'[n] = taken[n] + 1
      BY <1>21 DEF ReaderTakes, readerFrame
    <3>2. UNCHANGED <<stdout[n], proc[n], reader[n], made[n], sent[n], stopRead, caller>>
      BY <1>21 DEF ReaderTakes, readerFrame
    <3> QED
      BY <1>21, <1>a, <1>b, <2>2, <3>1, <3>2 DEF ReaderTakes, readerFrame,
         ReaderInv,
         ProcessInv, SchedulerInv, Unreaped, Over, HoldsOutput, Done
  <2> QED
    BY <2>1, <2>2
<1>22. ASSUME NEW n \in Runs, ReaderAtEOF(n) PROVE ReaderInv(m)'
  <2>1. CASE m # n
    BY <1>22, <2>1, OtherRun, SameReader DEF Process, Reader
  <2>2. CASE m = n
    <3>1. reader'[n] = IF HoldsOutput(n) THEN "eof" ELSE "ended"
      BY <1>22 DEF ReaderAtEOF, readerFrame
    <3>2. UNCHANGED <<stdout[n], proc[n], made[n], taken[n], sent[n], stopRead, caller>>
      BY <1>22 DEF ReaderAtEOF, readerFrame
    <3> QED
      BY <1>22, <1>a, <1>b, <2>2, <3>1, <3>2 DEF ReaderAtEOF, readerFrame,
         ReaderInv,
         ProcessInv, SchedulerInv, Unreaped, Over, HoldsOutput, Done
  <2> QED
    BY <2>1, <2>2
<1>23. ASSUME NEW n \in Runs, ReaderBroken(n) PROVE ReaderInv(m)'
  <2>1. CASE m # n
    BY <1>23, <2>1, OtherRun, SameReader DEF Process, Reader
  <2>2. CASE m = n
    <3>1. reader'[n] = IF HoldsOutput(n) THEN "broken" ELSE "ended"
      BY <1>23 DEF ReaderBroken, readerFrame
    <3>2. UNCHANGED <<stdout[n], proc[n], made[n], taken[n], sent[n], stopRead, caller>>
      BY <1>23 DEF ReaderBroken, readerFrame
    <3> QED
      BY <1>23, <1>a, <1>b, <2>2, <3>1, <3>2 DEF ReaderBroken, readerFrame,
         ReaderInv,
         ProcessInv, SchedulerInv, Unreaped, Over, HoldsOutput, Done
  <2> QED
    BY <2>1, <2>2
<1>24. ASSUME NEW n \in Runs, ReaderSends(n) PROVE ReaderInv(m)'
  <2>1. CASE m # n
    BY <1>24, <2>1, OtherRun, SameReader DEF Process, Reader
  <2>2. CASE m = n
    <3>1. /\ sent'[n] = taken[n]
          /\ reader'[n] = IF reader[n] = "broken" THEN "ended" ELSE "check"
      BY <1>24 DEF ReaderSends, readerFrame
    <3>2. UNCHANGED <<stdout[n], proc[n], made[n], taken[n], stopRead, caller>>
      BY <1>24 DEF ReaderSends, readerFrame
    <3>3. reader[n] \in {"eof", "broken"} /\ taken[n] > 0
      BY <1>24, <1>a, <1>b, <2>2 DEF ReaderSends, ReaderInv, HoldsOutput
    <3>4. Over(n)
      BY <1>24, SenderIsOver
    <3>5. CASE reader[n] = "eof"
      BY <1>a, <1>b, <2>2, <3>1, <3>2, <3>4, <3>5 DEF ReaderInv, Over, HoldsOutput
    <3>6. CASE reader[n] = "broken"
      BY <1>a, <1>b, <2>2, <3>1, <3>2, <3>4, <3>6 DEF ReaderInv, Over, HoldsOutput
    <3> QED
      BY <3>3, <3>5, <3>6
  <2> QED
    BY <2>1, <2>2
<1>25. CASE UNCHANGED vars
  BY <1>25, SameReader DEF vars, execVars
<1> QED
  BY <1>1, <1>2, <1>3, <1>4, <1>5, <1>6, <1>7, <1>8, <1>9, <1>10, <1>11,
     <1>12, <1>13, <1>14, <1>15, <1>16, <1>17, <1>18, <1>19, <1>20, <1>21,
     <1>22, <1>23, <1>24, <1>25
  DEF Next, Caller, Scheduler, Execute, Process, Reader

\* The inductive invariant is kept by every step.
LEMMA IInvStep == IInv /\ [Next]_vars => IInv'
  BY TypeStep, SchedulerStep, ProcessStep, ReaderStep DEF IInv

-----------------------------------------------------------------------------
(* Safety. *)

\* An execution starts its process only after the one before was reaped, for any
\* stanza, number of executions and interleaving.
THEOREM NeverTwoProcesses == Spec => []OneProcess
<1>1. IInv => OneProcess
  BY DEF IInv, ProcessInv, OneProcess
<1> QED
  BY <1>1, IInvInit, IInvStep, PTL DEF Spec

\* Output is lost only to a closed pipe or to Stop, for any pipe capacity and any
\* amount of output.
THEOREM LossIsExplained == Spec => []LossExplained
<1>1. IInv => LossExplained
  <2> SUFFICES ASSUME IInv, NEW n \in Runs,
                      reader[n] = "ended", sent[n] < made[n], stdout[n] # "closed"
               PROVE  Done
    BY DEF LossExplained
  <2>1. made[n] \in Nat /\ taken[n] \in Nat /\ sent[n] \in Nat
    BY BoundsAssumption DEF IInv, TypeInv, TypeOK
  <2>2. ProcessInv(n) /\ ReaderInv(n)
    BY DEF IInv
  <2>3. stdout[n] # "orphaned"
    BY <2>1, <2>2 DEF ProcessInv
  <2> QED
    BY <2>1, <2>2, <2>3 DEF ReaderInv
<1> QED
  BY <1>1, IInvInit, IInvStep, PTL DEF Spec

-----------------------------------------------------------------------------
(* The refinement of ScriptJob. *)

\* The abstract status, one value of the process at a time.
LEMMA JobStatusValue ==
  ASSUME NEW n \in Runs, TypeOK
  PROVE  /\ proc[n] = "none" => JobStatus(n) = "pending"
         /\ proc[n] \in {"running", "blocked"} => JobStatus(n) = "live"
         /\ proc[n] \in {"exited", "reaped"} => JobStatus(n) = "over"
  BY DEF JobStatus, Live

\* Before Start every execution of the job is pending.
LEMMA JobInit == Init => Job!Init
<1> SUFFICES ASSUME Init PROVE Job!Init
  OBVIOUS
<1>1. \A n \in Runs : JobStatus(n) = "pending"
  BY TypeInit, JobStatusValue DEF TypeInv, Init
<1> QED
  BY <1>1 DEF Init, Job!Init

\* A step that leaves the processes, the output and the entries alone stutters.
LEMMA JobStutter ==
  ASSUME UNCHANGED <<proc, made, sent>>
  PROVE  UNCHANGED Job!jobVars
  BY DEF Job!jobVars, JobStatus, Live

\* Every step of the input is a step of the job or leaves it alone.
LEMMA JobStep == IInv /\ IInv' /\ [Next]_vars => [Job!Next]_(Job!jobVars)
<1> SUFFICES ASSUME IInv, IInv', [Next]_vars
             PROVE  Job!Next \/ UNCHANGED Job!jobVars
  OBVIOUS
<1> USE BoundsAssumption DEF IInv, TypeInv, TypeOK
<1>1. ASSUME \/ Caller \/ SelectDone \/ SelectExecute \/ PrepareFails \/ Prepare
             \/ Feed \/ FeedFails \/ SpawnFails \/ Record \/ Finish
             \/ UNCHANGED vars
      PROVE  UNCHANGED Job!jobVars
  BY <1>1, JobStutter
  DEF Caller, Start, StopSignal, StopClose, SelectDone, SelectExecute,
      PrepareFails, Prepare, Feed, FeedFails, SpawnFails, Record, Finish,
      vars, execVars
<1>2. ASSUME Spawn PROVE Job!Launch(run)
  <2>1. run \in Runs /\ proc[run] = "none"
    BY <1>2 DEF Spawn, Executing, SchedulerInv
  <2>2. ASSUME NEW m \in Runs
        PROVE  JobStatus(m) # "live" /\ (m >= run => JobStatus(m) = "pending")
    BY <1>2, <2>1 DEF Spawn, ProcessInv, Unreaped, JobStatus, Live, Runs
  <2>3. [n \in Runs |-> JobStatus(n)]'
          = [[n \in Runs |-> JobStatus(n)] EXCEPT ![run] = "live"]
    BY <1>2, <2>1 DEF Spawn, JobStatus, Live
  <2> QED
    BY <1>2, <2>1, <2>2, <2>3 DEF Spawn, Job!Launch
<1>3. ASSUME Wait PROVE UNCHANGED Job!jobVars
  <2>1. \A n \in Runs : JobStatus(n)' = JobStatus(n)
    BY <1>3 DEF Wait, JobStatus, Live
  <2> QED
    BY <1>3, <2>1 DEF Wait, Job!jobVars
<1>4. ASSUME NEW n \in Runs, ProcessWrites(n) PROVE Job!Write(n)
  <2>1. \A m \in Runs : JobStatus(m)' = JobStatus(m)
    BY <1>4 DEF ProcessWrites, JobStatus, Live
  <2>2. JobStatus(n) = "live"
    BY <1>4, JobStatusValue DEF ProcessWrites, Live
  <2> QED
    BY <1>4, <2>1, <2>2 DEF ProcessWrites, Job!Write
<1>5. ASSUME NEW n \in Runs, ProcessBlocks(n) PROVE UNCHANGED Job!jobVars
  <2>1. \A m \in Runs : JobStatus(m)' = JobStatus(m)
    BY <1>5 DEF ProcessBlocks, JobStatus, Live
  <2> QED
    BY <1>5, <2>1 DEF ProcessBlocks, Job!jobVars
<1>6. ASSUME NEW n \in Runs, ProcessExits(n) \/ ProcessTerminated(n) PROVE Job!End(n)
  <2>1. JobStatus(n) = "live"
    BY <1>6, JobStatusValue DEF ProcessExits, ProcessTerminated, Live
  <2>2. [m \in Runs |-> JobStatus(m)]'
          = [[m \in Runs |-> JobStatus(m)] EXCEPT ![n] = "over"]
    BY <1>6 DEF ProcessExits, ProcessTerminated, JobStatus, Live
  <2> QED
    BY <1>6, <2>1, <2>2 DEF ProcessExits, ProcessTerminated, Job!End
<1>7. ASSUME NEW n \in Runs, \/ ReaderStops(n) \/ ReaderCalls(n) \/ ReaderTakes(n)
                             \/ ReaderAtEOF(n) \/ ReaderBroken(n)
      PROVE  UNCHANGED Job!jobVars
  BY <1>7, JobStutter
  DEF ReaderStops, ReaderCalls, ReaderTakes, ReaderAtEOF, ReaderBroken, readerFrame
<1>8. ASSUME NEW n \in Runs, ReaderSends(n) PROVE Job!Deliver(n)
  <2>1. Over(n) /\ sent[n] = 0 /\ taken[n] \in 1 .. made[n]
    BY <1>8, SenderIsOver
  <2>2. JobStatus(n) = "over"
    BY <2>1, JobStatusValue DEF Over
  <2> QED
    BY <1>8, <2>1, <2>2
    DEF ReaderSends, readerFrame, Job!Deliver, JobStatus, Live
<1>9. ASSUME Spawn PROVE Job!Next
  BY <1>2, <1>9 DEF Spawn, Executing, Job!Next
<1>10. CASE Caller \/ Scheduler
  BY <1>1, <1>3, <1>9, <1>10 DEF Scheduler, Execute
<1>11. CASE \E n \in Runs : Process(n)
  BY <1>4, <1>5, <1>6, <1>11 DEF Process, Job!Next
<1>12. CASE \E n \in Runs : Reader(n)
  BY <1>7, <1>8, <1>12 DEF Reader, Job!Next
<1> QED
  BY <1>1, <1>10, <1>11, <1>12 DEF Next

\* The scripted input implements the job the pipeline expects, for every value of
\* the constants.
THEOREM ImplementsJob == Spec => JobSpec
<1>1. Init /\ [][Next]_vars => []IInv
  BY IInvInit, IInvStep, PTL
<1> QED
  BY <1>1, JobInit, JobStep, PTL DEF Spec, JobSpec, Job!Spec

=============================================================================
