----------------------------- MODULE MCDelivery -----------------------------
(* Lists of stanzas, and scripted inputs, for model checking Delivery.       *)
EXTENDS Delivery

LowerCase == [s \in {"script", "monitor", "tcp", "udp", ""} |-> s]

Stanza(scheme) == [scheme |-> scheme, off |-> FALSE, builds |-> TRUE, starts |-> TRUE]

Own == {Stanza("script"), [Stanza("script") EXCEPT !.starts = FALSE]}
Monitor == Stanza("monitor")
Busy == [Stanza("udp") EXCEPT !.starts = FALSE]    \* a port that is taken

\* The script is second: before it, it has a monitor; after it, nothing, an input
\* that starts, and one that does not.
Lists == {<<Monitor, own>> \o rest : own \in Own, rest \in {<<>>, <<Monitor>>, <<Busy>>}}

Good == [local |-> "absent", default |-> "good"]

GoodFiles == {[inputs |-> Good, transforms |-> Good, props |-> Good]}

-----------------------------------------------------------------------------
Param(name, value) == [name |-> name, value |-> value]

Scripted(interval) ==
    [scheme |-> "script", params |-> <<Param("interval", interval)>>,
     resolves |-> TRUE, fits |-> TRUE]

Continuous == Scripted(0)
Periodic == Scripted(60)

AllInputs ==
    {Continuous, Periodic, Scripted(-1), Scripted(NotANumber),
     [Continuous EXCEPT !.resolves = FALSE]}
=============================================================================
