------------------------------ MODULE Collector ------------------------------
(***************************************************************************)
(* The life of the tarunner process: main (cmd/tarunner/main.go) and       *)
(* collector.Run (internal/collector/collector.go).  It reads its files,   *)
(* creates one receiver for each enabled input, starts the exporter and    *)
(* then the receivers, serves until SIGTERM, and shuts everything down.    *)
(* Exporter and receivers are external: creating or starting one can fail. *)
(***************************************************************************)
EXTENDS Integers, Sequences

CONSTANTS
    InputLists,  \* the lists of stanzas inputs.conf can hold
    FileStates,  \* the states of the three conf files, see Chosen
    Lower,       \* url.Parse: the scheme of a stanza's name, in lower case
    Faults,      \* external calls that can fail: "config", "newExporter",
                 \* "startExporter"
    MaxSignals   \* bound: SIGTERMs sent to the process

ASSUME CollectorAssumption ==
    /\ \A list \in InputLists : list \in Seq([scheme : DOMAIN Lower, off : BOOLEAN,
             builds : BOOLEAN, starts : BOOLEAN])
    /\ Faults \subseteq {"config", "newExporter", "startExporter"}
    /\ MaxSignals \in Nat

Files == {"inputs", "transforms", "props"}

VARIABLES
    inputs,     \* the stanzas of inputs.conf; never change
    files,      \* the conf files on disk; never change
    pc,         \* main: where it is in Run or after it
    next,       \* the index of its loop over the inputs or receivers
    exporter,   \* "none", "created", "started", "shut"
    receiver,   \* of each input: "none", "created", "started", "shut"
    channel,    \* signalChan holds a signal (its capacity is 1)
    signals,    \* SIGTERMs sent
    exit        \* "no", or how the process ended: "ok", "error", "killed"

vars == <<inputs, files, pc, next, exporter, receiver, channel, signals, exit>>

Index == 1 .. Len(inputs)

Init ==
    /\ inputs \in InputLists
    /\ files \in FileStates
    /\ pc = "config"
    /\ next = 1
    /\ exporter = "none"
    /\ receiver = [i \in Index |-> "none"]
    /\ channel = FALSE
    /\ signals = 0
    /\ exit = "no"

-----------------------------------------------------------------------------
(* Ends of the process. *)

\* log.Fatal: the process exits and nothing is shut down.
Fatal ==
    /\ exit' = "error"
    /\ UNCHANGED <<inputs, files, pc, next, exporter, receiver, channel, signals>>

At(place) == exit = "no" /\ pc = place

Go(place) == pc' = place /\ next' = 1

-----------------------------------------------------------------------------
(* Run, up to the receivers. *)

LoadConfigFails == At("config") /\ "config" \in Faults /\ Fatal

LoadConfig ==
    /\ At("config")
    /\ Go("exporter")
    /\ UNCHANGED <<inputs, files, exporter, receiver, channel, signals, exit>>

NewExporterFails == At("exporter") /\ "newExporter" \in Faults /\ Fatal

NewExporter ==
    /\ At("exporter")
    /\ exporter' = "created"
    /\ Go("inputs")
    /\ UNCHANGED <<inputs, files, receiver, channel, signals, exit>>

\* The file of the local directory is read if there is one, and hides the one of
\* the default directory even when it cannot be parsed.
Chosen(file) ==
    IF files[file].local # "absent" THEN files[file].local ELSE files[file].default

\* inputs.conf must exist, the other two need not.
Unreadable(file) ==
    Chosen(file) = "bad" \/ (file = "inputs" /\ Chosen(file) = "absent")

After == [inputs |-> "transforms", transforms |-> "props", props |-> "create"]

ReadFileFails == \E file \in Files : At(file) /\ Unreadable(file) /\ Fatal

ReadFile ==
    \E file \in Files :
        /\ At(file)
        /\ ~Unreadable(file)
        /\ Go(After[file])
        /\ UNCHANGED <<inputs, files, exporter, receiver, channel, signals, exit>>

-----------------------------------------------------------------------------
(* createReceivers *)

Schemes == {"script", "", "monitor", "WinEventLog", "tcp", "udp"}

\* The scheme is compared after url.Parse has put it in lower case.
Supported(input) == Lower[input.scheme] \in Schemes

\* Mutant: the stanza after a disabled one is passed over too.
SkipTwo ==
    /\ At("create")
    /\ next \in Index
    /\ inputs[next].off
    /\ next' = next + 2
    /\ UNCHANGED <<inputs, files, pc, exporter, receiver, channel, signals, exit>>

Skip ==
    /\ At("create")
    /\ next \in Index
    /\ inputs[next].off
    /\ next' = next + 1
    /\ UNCHANGED <<inputs, files, pc, exporter, receiver, channel, signals, exit>>

Create ==
    /\ At("create")
    /\ next \in Index
    /\ ~inputs[next].off /\ Supported(inputs[next]) /\ inputs[next].builds
    /\ receiver' = [receiver EXCEPT ![next] = "created"]
    /\ next' = next + 1
    /\ UNCHANGED <<inputs, files, pc, exporter, channel, signals, exit>>

CreateFails ==
    /\ At("create")
    /\ next \in Index
    /\ ~inputs[next].off
    /\ ~Supported(inputs[next]) \/ ~inputs[next].builds
    /\ Fatal

NothingToDo == \A i \in Index : receiver[i] = "none"

\* No receiver: Run returns no function and main returns.
Idle ==
    /\ At("create")
    /\ next \notin Index
    /\ NothingToDo
    /\ exit' = "ok"
    /\ UNCHANGED <<inputs, files, pc, next, exporter, receiver, channel, signals>>

CreatedAll ==
    /\ At("create")
    /\ next \notin Index
    /\ ~NothingToDo
    /\ Go("startExporter")
    /\ UNCHANGED <<inputs, files, exporter, receiver, channel, signals, exit>>

-----------------------------------------------------------------------------
(* Start, serve and shut down. *)

StartExporterFails == At("startExporter") /\ "startExporter" \in Faults /\ Fatal

StartExporter ==
    /\ At("startExporter")
    /\ exporter' = "started"
    /\ Go("start")
    /\ UNCHANGED <<inputs, files, receiver, channel, signals, exit>>

\* An error leaves the receivers started so far, and the exporter, as they are.
StartFails ==
    /\ At("start")
    /\ next \in Index
    /\ receiver[next] = "created" /\ ~inputs[next].starts
    /\ Fatal

\* Mutant: receivers that do not start are left out.
StartAnyway ==
    /\ At("start")
    /\ next \in Index
    /\ receiver' = [receiver EXCEPT ![next] =
                      IF @ = "created" /\ inputs[next].starts THEN "started" ELSE @]
    /\ next' = next + 1
    /\ UNCHANGED <<inputs, files, pc, exporter, channel, signals, exit>>

Start ==
    /\ At("start")
    /\ next \in Index
    /\ receiver[next] = "created" => inputs[next].starts
    /\ receiver' = [receiver EXCEPT ![next] = IF @ = "created" THEN "started" ELSE @]
    /\ next' = next + 1
    /\ UNCHANGED <<inputs, files, pc, exporter, channel, signals, exit>>

StartedAll ==
    /\ At("start")
    /\ next \notin Index
    /\ Go("notify")
    /\ UNCHANGED <<inputs, files, exporter, receiver, channel, signals, exit>>

\* signal.Notify: only from here on is SIGTERM caught.
Notify ==
    /\ At("notify")
    /\ Go("serve")
    /\ UNCHANGED <<inputs, files, exporter, receiver, channel, signals, exit>>

Caught == pc \in {"serve", "shutdown", "shutdownExporter", "end"}

\* A signal that finds the channel full is dropped.
Sigterm ==
    /\ exit = "no"
    /\ signals < MaxSignals
    /\ signals' = signals + 1
    /\ IF Caught THEN channel' = TRUE /\ UNCHANGED exit
                 ELSE exit' = "killed" /\ UNCHANGED channel
    /\ UNCHANGED <<inputs, files, pc, next, exporter, receiver>>

\* Mutant: the exporter is shut down first.
BeginShutdownExporterFirst ==
    /\ At("serve")
    /\ channel
    /\ channel' = FALSE
    /\ exporter' = "shut"
    /\ Go("shutdown")
    /\ UNCHANGED <<inputs, files, receiver, signals, exit>>

BeginShutdown ==
    /\ At("serve")
    /\ channel
    /\ channel' = FALSE
    /\ Go("shutdown")
    /\ UNCHANGED <<inputs, files, exporter, receiver, signals, exit>>

\* Mutant: the last receiver is forgotten.
ShutdownButLast ==
    /\ At("shutdown")
    /\ next \in Index
    /\ receiver' = [receiver EXCEPT ![next] =
                      IF @ = "started" /\ next < Len(inputs) THEN "shut" ELSE @]
    /\ next' = next + 1
    /\ UNCHANGED <<inputs, files, pc, exporter, channel, signals, exit>>

Shutdown ==
    /\ At("shutdown")
    /\ next \in Index
    /\ receiver' = [receiver EXCEPT ![next] = IF @ = "started" THEN "shut" ELSE @]
    /\ next' = next + 1
    /\ UNCHANGED <<inputs, files, pc, exporter, channel, signals, exit>>

ShutdownAll ==
    /\ At("shutdown")
    /\ next \notin Index
    /\ Go("shutdownExporter")
    /\ UNCHANGED <<inputs, files, exporter, receiver, channel, signals, exit>>

ShutdownExporter ==
    /\ At("shutdownExporter")
    /\ exporter' = "shut"
    /\ Go("end")
    /\ UNCHANGED <<inputs, files, receiver, channel, signals, exit>>

\* Mutant: main waits for a signal of its own, waitShutdown is not closed.
EndOnSignal ==
    /\ At("end")
    /\ channel
    /\ exit' = "ok"
    /\ channel' = FALSE
    /\ UNCHANGED <<inputs, files, pc, next, exporter, receiver, signals>>

End ==
    /\ At("end")
    /\ exit' = "ok"
    /\ UNCHANGED <<inputs, files, pc, next, exporter, receiver, channel, signals>>

-----------------------------------------------------------------------------
Main ==
    \/ LoadConfig \/ LoadConfigFails \/ NewExporter \/ NewExporterFails
    \/ ReadFile \/ ReadFileFails
    \/ Skip \/ Create \/ CreateFails \/ Idle \/ CreatedAll
    \/ StartExporter \/ StartExporterFails \/ Start \/ StartFails \/ StartedAll
    \/ Notify \/ BeginShutdown
    \/ Shutdown \/ ShutdownAll \/ ShutdownExporter \/ End

Next == Main \/ Sigterm

Spec == Init /\ [][Next]_vars

\* main goes on as long as its external calls return; signals need not come.
FairSpec == Spec /\ WF_vars(Main)

-----------------------------------------------------------------------------
(* Properties. *)

Places == {"config", "exporter", "inputs", "transforms", "props", "create",
           "startExporter", "start", "notify", "serve", "shutdown",
           "shutdownExporter", "end"}

\* Every variable keeps to its type.
TypeOK ==
    /\ inputs \in InputLists
    /\ files \in FileStates
    /\ pc \in Places
    /\ next \in 1 .. Len(inputs) + 1
    /\ exporter \in {"none", "created", "started", "shut"}
    /\ receiver \in [Index -> {"none", "created", "started", "shut"}]
    /\ channel \in BOOLEAN
    /\ signals \in 0 .. MaxSignals
    /\ exit \in {"no", "ok", "error", "killed"}

\* A receiver that can produce data always has an exporter that takes it: the
\* exporter is started before the first receiver and shut down after the last.
ExporterThere ==
    (\E i \in Index : receiver[i] = "started") => exporter = "started"

\* The runner serves with all of its enabled inputs or not at all.
ServesAll ==
    pc = "serve" =>
        \A i \in Index : receiver[i] = IF inputs[i].off THEN "none" ELSE "started"

\* A process that ends with success leaves nothing started, however many signals
\* it got and whenever they came.
CleanExit ==
    exit = "ok" => /\ exporter # "started"
                   /\ \A i \in Index : receiver[i] \in {"none", "shut"}

\* A SIGTERM that is caught ends the process in order.
SignalEnds == (exit = "no" /\ channel) ~> exit = "ok"
=============================================================================
