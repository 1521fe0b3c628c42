----------------------------- MODULE MCCollector -----------------------------
(* Lists of stanzas and states of the conf files for model checking          *)
(* Collector.                                                                *)
EXTENDS Collector

LowerCase == [s \in {"script", "", "monitor", "tcp", "udp", "WinEventLog"} |->
                IF s = "WinEventLog" THEN "wineventlog" ELSE s]

Input(scheme) ==
    [scheme |-> scheme, off |-> FALSE, builds |-> TRUE, starts |-> TRUE]

Script == Input("script")
Modular == Input("")
Monitor == Input("monitor")
Disabled == [Input("script") EXCEPT !.off = TRUE]
Misbuilt == [Input("tcp") EXCEPT !.builds = FALSE]   \* a transform without regex
Busy == [Input("udp") EXCEPT !.starts = FALSE]       \* a port that is taken

Stanzas == {Script, Monitor, Disabled, Misbuilt, Busy, Input("WinEventLog")}

Lists == {<<>>} \cup {<<a>> : a \in Stanzas} \cup {<<a, b>> : a, b \in Stanzas}
           \cup {<<Script, a, Monitor>> : a \in {Disabled, Busy, Modular}}

States == {"absent", "good", "bad"}

File(local, default) == [local |-> local, default |-> default]

\* Every state of inputs.conf, and the cases of the optional files.
SomeFiles ==
    {[inputs |-> File(l, d), transforms |-> File("good", "bad"),
      props |-> File("absent", "absent")] : l, d \in States}
      \cup {[inputs |-> File("good", "absent"), transforms |-> File("absent", "good"),
             props |-> File("bad", "good")]}
=============================================================================
