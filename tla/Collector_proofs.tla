---------------------------- MODULE Collector_proofs ----------------------------
(***************************************************************************)
(* Proofs about the life of the process, for every list of stanzas, every  *)
(* state of the conf files and every choice of faults and signals.         *)
(***************************************************************************)
EXTENDS Collector, TLAPS

-----------------------------------------------------------------------------
(* The inductive invariant: where main is and how far its loop has come says *)
(* what has become of the exporter and of each receiver.                     *)

Reading == {"config", "exporter", "inputs", "transforms", "props"}

\* What main has made of the receiver of an enabled input.
Stage(i) ==
    CASE pc \in Reading -> "none"
      [] pc = "create" -> IF i < next THEN "created" ELSE "none"
      [] pc = "startExporter" -> "created"
      [] pc = "start" -> IF i < next THEN "started" ELSE "created"
      [] pc \in {"notify", "serve"} -> "started"
      [] pc = "shutdown" -> IF i < next THEN "shut" ELSE "started"
      [] OTHER -> "shut"

ReceiverInv ==
    \A i \in Index : receiver[i] = IF inputs[i].off THEN "none" ELSE Stage(i)

ExporterInv ==
    exporter = CASE pc \in {"config", "exporter"} -> "none"
                 [] pc \in {"inputs", "transforms", "props", "create",
                            "startExporter"} -> "created"
                 [] pc = "end" -> "shut"
                 [] OTHER -> "started"

\* Success is the end of main, or the return of Run without a receiver.
ExitInv == exit = "ok" => pc = "end" \/ (pc = "create" /\ NothingToDo)

IInv == TypeOK /\ ReceiverInv /\ ExporterInv /\ ExitInv

\* The number of stanzas is a natural number.
LEMMA IndexIsFinite ==
    ASSUME TypeOK
    PROVE  Len(inputs) \in Nat
BY CollectorAssumption DEF TypeOK

-----------------------------------------------------------------------------
\* The invariant holds before main runs.
LEMMA IInvInit == Init => IInv
<1> SUFFICES ASSUME Init PROVE IInv
    OBVIOUS
<1>1. Len(inputs) \in Nat
    BY CollectorAssumption DEF Init
<1>2. TypeOK
    <2>1. signals \in 0 .. MaxSignals
        BY CollectorAssumption DEF Init
    <2>2. next \in 1 .. Len(inputs) + 1
        BY <1>1 DEF Init
    <2>3. receiver \in [Index -> {"none", "created", "started", "shut"}]
        BY DEF Init
    <2> QED
        BY <2>1, <2>2, <2>3 DEF Init, TypeOK, Places
<1>3. ReceiverInv
    BY DEF Init, ReceiverInv, Stage, Reading
<1>4. ExporterInv /\ ExitInv
    BY DEF Init, ExporterInv, ExitInv
<1> QED
    BY <1>2, <1>3, <1>4 DEF IInv

\* A step of main that ends the process with an error keeps everything else.
LEMMA FatalKeeps == IInv /\ Fatal => IInv'
BY DEF IInv, Fatal, TypeOK, ReceiverInv, ExporterInv, ExitInv, Stage, Index, NothingToDo

\* Steps that only go on to the next part of Run keep the invariant.
LEMMA ReadingKeeps ==
    ASSUME IInv, LoadConfig \/ NewExporter \/ ReadFile
    PROVE  IInv'
<1>1. Len(inputs) \in Nat
    BY IndexIsFinite DEF IInv
<1> USE DEF IInv, At, Go
<1>2. CASE LoadConfig
    <2>1. TypeOK'
        BY <1>1, <1>2 DEF LoadConfig, TypeOK, Index, Places
    <2>2. ReceiverInv'
        BY <1>1, <1>2 DEF LoadConfig, TypeOK, ReceiverInv, Stage, Reading, Index
    <2>3. ExporterInv' /\ ExitInv'
        BY <1>2 DEF LoadConfig, ExporterInv, ExitInv
    <2> QED
        BY <2>1, <2>2, <2>3
<1>3. CASE NewExporter
    <2>1. TypeOK'
        BY <1>1, <1>3 DEF NewExporter, TypeOK, Index, Places
    <2>2. ReceiverInv'
        BY <1>1, <1>3 DEF NewExporter, TypeOK, ReceiverInv, Stage, Reading, Index
    <2>3. ExporterInv' /\ ExitInv'
        BY <1>3 DEF NewExporter, ExporterInv, ExitInv
    <2> QED
        BY <2>1, <2>2, <2>3
<1>4. CASE ReadFile
    <2>1. PICK file \in Files : At(file) /\ Go(After[file])
        BY <1>4 DEF ReadFile
    <2>2. UNCHANGED <<inputs, files, exporter, receiver, channel, signals, exit>>
        BY <1>4 DEF ReadFile
    <2>3. pc' \in {"transforms", "props", "create"} /\ pc \in {"inputs", "transforms", "props"}
        BY <2>1 DEF Files, After
    <2>4. TypeOK'
        BY <1>1, <2>1, <2>2, <2>3 DEF TypeOK, Index, Places
    <2>5. ReceiverInv'
        BY <1>1, <2>1, <2>2, <2>3 DEF ReceiverInv, Stage, Reading, Index
    <2>6. ExporterInv' /\ ExitInv'
        BY <2>1, <2>2, <2>3 DEF ExporterInv, ExitInv
    <2> QED
        BY <2>4, <2>5, <2>6
<1> QED
    BY <1>2, <1>3, <1>4

\* So do the steps of createReceivers.
LEMMA CreateKeeps ==
    ASSUME IInv, Skip \/ Create \/ Idle \/ CreatedAll
    PROVE  IInv'
<1>1. Len(inputs) \in Nat
    BY IndexIsFinite DEF IInv
<1> USE DEF IInv, At, Go
<1>2. CASE Skip
    <2>1. TypeOK'
        BY <1>1, <1>2 DEF Skip, TypeOK, Index
    <2>2. ReceiverInv'
        BY <1>1, <1>2 DEF Skip, TypeOK, ReceiverInv, Stage, Reading, Index
    <2>3. ExporterInv' /\ ExitInv'
        BY <1>2 DEF Skip, ExporterInv, ExitInv
    <2> QED
        BY <2>1, <2>2, <2>3
<1>3. CASE Create
    <2>1. TypeOK'
        BY <1>1, <1>3 DEF Create, TypeOK, Index
    <2>2. ReceiverInv'
        BY <1>1, <1>3 DEF Create, TypeOK, ReceiverInv, Stage, Reading, Index
    <2>3. ExporterInv' /\ ExitInv'
        BY <1>3 DEF Create, ExporterInv, ExitInv
    <2> QED
        BY <2>1, <2>2, <2>3
<1>4. CASE Idle
    BY <1>4 DEF Idle, TypeOK, ReceiverInv, ExporterInv, ExitInv, Stage, NothingToDo, Index
<1>5. CASE CreatedAll
    <2>1. TypeOK'
        BY <1>1, <1>5 DEF CreatedAll, TypeOK, Index, Places
    <2>2. ReceiverInv'
        BY <1>1, <1>5 DEF CreatedAll, TypeOK, ReceiverInv, Stage, Reading, Index
    <2>3. ExporterInv' /\ ExitInv'
        BY <1>5 DEF CreatedAll, ExporterInv, ExitInv
    <2> QED
        BY <2>1, <2>2, <2>3
<1> QED
    BY <1>2, <1>3, <1>4, <1>5

\* So do the steps that start the exporter and the receivers.
LEMMA StartKeeps ==
    ASSUME IInv, StartExporter \/ Start \/ StartedAll \/ Notify
    PROVE  IInv'
<1>1. Len(inputs) \in Nat
    BY IndexIsFinite DEF IInv
<1> USE DEF IInv, At, Go
<1>2. CASE StartExporter
    <2>1. TypeOK'
        BY <1>1, <1>2 DEF StartExporter, TypeOK, Index, Places
    <2>2. ReceiverInv'
        BY <1>1, <1>2 DEF StartExporter, TypeOK, ReceiverInv, Stage, Reading, Index
    <2>3. ExporterInv' /\ ExitInv'
        BY <1>2 DEF StartExporter, ExporterInv, ExitInv
    <2> QED
        BY <2>1, <2>2, <2>3
<1>3. CASE Start
    <2>1. TypeOK'
        BY <1>1, <1>3 DEF Start, TypeOK, Index
    <2>2. ReceiverInv'
        BY <1>1, <1>3 DEF Start, TypeOK, ReceiverInv, Stage, Reading, Index
    <2>3. ExporterInv' /\ ExitInv'
        BY <1>3 DEF Start, ExporterInv, ExitInv
    <2> QED
        BY <2>1, <2>2, <2>3
<1>4. CASE StartedAll
    <2>1. TypeOK'
        BY <1>1, <1>4 DEF StartedAll, TypeOK, Index, Places
    <2>2. ReceiverInv'
        BY <1>1, <1>4 DEF StartedAll, TypeOK, ReceiverInv, Stage, Reading, Index
    <2>3. ExporterInv' /\ ExitInv'
        BY <1>4 DEF StartedAll, ExporterInv, ExitInv
    <2> QED
        BY <2>1, <2>2, <2>3
<1>5. CASE Notify
    <2>1. TypeOK'
        BY <1>1, <1>5 DEF Notify, TypeOK, Index, Places
    <2>2. ReceiverInv'
        BY <1>1, <1>5 DEF Notify, TypeOK, ReceiverInv, Stage, Reading, Index
    <2>3. ExporterInv' /\ ExitInv'
        BY <1>5 DEF Notify, ExporterInv, ExitInv
    <2> QED
        BY <2>1, <2>2, <2>3
<1> QED
    BY <1>2, <1>3, <1>4, <1>5

\* So do the steps that serve and shut down.
LEMMA ShutdownKeeps ==
    ASSUME IInv,
           BeginShutdown \/ Shutdown \/ ShutdownAll \/ ShutdownExporter \/ End
    PROVE  IInv'
<1>1. Len(inputs) \in Nat
    BY IndexIsFinite DEF IInv
<1> USE DEF IInv, At, Go
<1>2. CASE BeginShutdown
    <2>1. TypeOK'
        <3>1. /\ UNCHANGED <<inputs, files, exporter, receiver, signals, exit>>
              /\ pc' \in Places /\ next' \in 1 .. Len(inputs') + 1
            BY <1>1, <1>2 DEF BeginShutdown, Places
        <3>2. channel' \in BOOLEAN
            BY <1>2, Zenon DEF BeginShutdown
        <3> QED
            BY <3>1, <3>2 DEF TypeOK, Index
    <2>2. ReceiverInv'
        BY <1>1, <1>2 DEF BeginShutdown, TypeOK, ReceiverInv, Stage, Reading, Index
    <2>3. ExporterInv' /\ ExitInv'
        BY <1>2 DEF BeginShutdown, ExporterInv, ExitInv
    <2> QED
        BY <2>1, <2>2, <2>3
<1>3. CASE Shutdown
    <2>1. TypeOK'
        BY <1>1, <1>3 DEF Shutdown, TypeOK, Index
    <2>2. ReceiverInv'
        BY <1>1, <1>3 DEF Shutdown, TypeOK, ReceiverInv, Stage, Reading, Index
    <2>3. ExporterInv' /\ ExitInv'
        BY <1>3 DEF Shutdown, ExporterInv, ExitInv
    <2> QED
        BY <2>1, <2>2, <2>3
<1>4. CASE ShutdownAll
    <2>1. TypeOK'
        BY <1>1, <1>4 DEF ShutdownAll, TypeOK, Index, Places
    <2>2. ReceiverInv'
        BY <1>1, <1>4 DEF ShutdownAll, TypeOK, ReceiverInv, Stage, Reading, Index
    <2>3. ExporterInv' /\ ExitInv'
        BY <1>4 DEF ShutdownAll, ExporterInv, ExitInv
    <2> QED
        BY <2>1, <2>2, <2>3
<1>5. CASE ShutdownExporter
    <2>1. TypeOK'
        BY <1>1, <1>5 DEF ShutdownExporter, TypeOK, Index, Places
    <2>2. ReceiverInv'
        BY <1>1, <1>5 DEF ShutdownExporter, TypeOK, ReceiverInv, Stage, Reading, Index
    <2>3. ExporterInv' /\ ExitInv'
        BY <1>5 DEF ShutdownExporter, ExporterInv, ExitInv
    <2> QED
        BY <2>1, <2>2, <2>3
<1>6. CASE End
    BY <1>6 DEF End, TypeOK, ReceiverInv, ExporterInv, ExitInv, Stage, Index
<1> QED
    BY <1>2, <1>3, <1>4, <1>5, <1>6

\* So does a signal: it ends the process or fills the channel.
LEMMA SignalKeeps == IInv /\ Sigterm => IInv'
<1> SUFFICES ASSUME IInv, Sigterm PROVE IInv'
    OBVIOUS
<1>1. UNCHANGED <<inputs, files, pc, next, exporter, receiver>>
    BY DEF Sigterm
<1>2. signals' \in 0 .. MaxSignals
    BY CollectorAssumption DEF IInv, TypeOK, Sigterm
<1>3. channel' \in BOOLEAN /\ exit' \in {"no", "killed"}
    BY DEF IInv, TypeOK, Sigterm
<1>4. TypeOK'
    BY <1>1, <1>2, <1>3 DEF IInv, TypeOK, Index
<1>5. ReceiverInv' /\ ExporterInv'
    BY <1>1 DEF IInv, ReceiverInv, ExporterInv, Stage, Index
<1>6. ExitInv'
    BY <1>3 DEF ExitInv
<1> QED
    BY <1>4, <1>5, <1>6 DEF IInv

\* Every step of main, and a signal at any time, keeps the invariant.
LEMMA IInvNext == IInv /\ [Next]_vars => IInv'
<1> SUFFICES ASSUME IInv, [Next]_vars PROVE IInv'
    OBVIOUS
<1>1. CASE Fatal
    BY <1>1, FatalKeeps
<1>2. CASE LoadConfigFails \/ NewExporterFails \/ ReadFileFails \/ CreateFails
             \/ StartExporterFails \/ StartFails
    BY <1>1, <1>2 DEF LoadConfigFails, NewExporterFails, ReadFileFails, CreateFails,
                     StartExporterFails, StartFails
<1>3. CASE LoadConfig \/ NewExporter \/ ReadFile
    BY <1>3, ReadingKeeps
<1>4. CASE Skip \/ Create \/ Idle \/ CreatedAll
    BY <1>4, CreateKeeps
<1>5. CASE StartExporter \/ Start \/ StartedAll \/ Notify
    BY <1>5, StartKeeps
<1>6. CASE BeginShutdown \/ Shutdown \/ ShutdownAll \/ ShutdownExporter \/ End
    BY <1>6, ShutdownKeeps
<1>7. CASE Sigterm
    BY <1>7, SignalKeeps
<1>8. CASE UNCHANGED vars
    BY <1>8 DEF vars, IInv, TypeOK, ReceiverInv, ExporterInv, ExitInv, Stage, Index,
                     NothingToDo
<1> QED
    BY <1>2, <1>3, <1>4, <1>5, <1>6, <1>7, <1>8 DEF Next, Main

\* The invariant holds in every state of every behaviour.
LEMMA Invariance == Spec => []IInv
BY IInvInit, IInvNext, PTL DEF Spec

-----------------------------------------------------------------------------
\* Every variable keeps to its type.
THEOREM TypeCorrect == Spec => []TypeOK
<1>1. IInv => TypeOK
    BY DEF IInv
<1> QED
    BY <1>1, Invariance, PTL

\* Whatever the receivers, and however their creation or start fails, one that is
\* started has a started exporter below it.
THEOREM ExporterIsThere == Spec => []ExporterThere
<1>1. IInv => ExporterThere
    <2> SUFFICES ASSUME IInv, NEW i \in Index, receiver[i] = "started"
                 PROVE  exporter = "started"
        BY DEF ExporterThere
    <2>1. Stage(i) = "started"
        BY DEF IInv, ReceiverInv
    <2>2. pc \in {"start", "notify", "serve", "shutdown"}
        BY <2>1 DEF Stage, Reading
    <2> QED
        BY <2>2 DEF IInv, ExporterInv
<1> QED
    BY <1>1, Invariance, PTL

\* While the process serves, every enabled input has its receiver started.
THEOREM ServesAllInputs == Spec => []ServesAll
<1>1. IInv => ServesAll
    BY DEF IInv, ReceiverInv, ServesAll, Stage, Reading
<1> QED
    BY <1>1, Invariance, PTL

\* A process that ends with success has shut down whatever it had started.
THEOREM ExitIsClean == Spec => []CleanExit
<1>1. IInv => CleanExit
    <2> SUFFICES ASSUME IInv, exit = "ok"
                 PROVE  /\ exporter # "started"
                        /\ \A i \in Index : receiver[i] \in {"none", "shut"}
        BY DEF CleanExit
    <2>1. CASE pc = "end"
        BY <2>1 DEF IInv, ReceiverInv, ExporterInv, Stage, Reading
    <2>2. CASE pc = "create" /\ NothingToDo
        BY <2>2 DEF IInv, ExporterInv, NothingToDo
    <2> QED
        BY <2>1, <2>2 DEF IInv, ExitInv
<1> QED
    BY <1>1, Invariance, PTL
=============================================================================
