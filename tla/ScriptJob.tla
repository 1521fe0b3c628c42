------------------------------ MODULE ScriptJob ------------------------------
(***************************************************************************)
(* What a scripted input promises to the pipeline behind it, with no       *)
(* goroutine, pipe or timer: executions of the script do not overlap, they *)
(* start in order, and each one yields at most one entry, which appears    *)
(* only once the script is over and holds no more than the script wrote.   *)
(* Output may be lost: an execution may yield no entry, or a short one.    *)
(***************************************************************************)
EXTENDS Integers

CONSTANTS
    Runs,       \* the executions, a set of integers
    MaxChunks   \* chunks of output one execution may write

VARIABLES
    status,     \* of each execution: "pending", "live" or "over"
    output,     \* chunks each execution has written
    entry       \* chunks in the entry each execution yielded, 0 for no entry

jobVars == <<status, output, entry>>

Init ==
    /\ status = [n \in Runs |-> "pending"]
    /\ output = [n \in Runs |-> 0]
    /\ entry = [n \in Runs |-> 0]

\* No other execution is live, and none numbered higher has started.
Launch(n) ==
    /\ \A m \in Runs : status[m] # "live" /\ (m >= n => status[m] = "pending")
    /\ status' = [status EXCEPT ![n] = "live"]
    /\ UNCHANGED <<output, entry>>

Write(n) ==
    /\ status[n] = "live"
    /\ output[n] < MaxChunks
    /\ output' = [output EXCEPT ![n] = @ + 1]
    /\ UNCHANGED <<status, entry>>

End(n) ==
    /\ status[n] = "live"
    /\ status' = [status EXCEPT ![n] = "over"]
    /\ UNCHANGED <<output, entry>>

Deliver(n) ==
    /\ status[n] = "over"
    /\ entry[n] = 0
    /\ \E k \in 1 .. output[n] : entry' = [entry EXCEPT ![n] = k]
    /\ UNCHANGED <<status, output>>

Next == \E n \in Runs : Launch(n) \/ Write(n) \/ End(n) \/ Deliver(n)

Spec == Init /\ [][Next]_jobVars
=============================================================================
