--------------------------- MODULE MCScriptedInput ---------------------------
(* Stanzas for model checking ScriptedInput: each outcome of Schedule, each  *)
(* order of the parameters that decide it, a script outside the base         *)
(* directory and a stanza too large for the stdin pipe.                      *)
EXTENDS ScriptedInput, Sequences

Param(name, value) == [name |-> name, value |-> value]

Stanza(scheme, params) ==
    [scheme |-> scheme, params |-> params, resolves |-> TRUE, fits |-> TRUE]

Continuous == Stanza("script", <<Param("interval", 0)>>)
Periodic == Stanza("", <<Param("sourcetype", NotANumber), Param("interval", 60)>>)
Hourly == Stanza("script", <<>>)
SwitchedOff == {Stanza("", <<Param("interval", -1)>>),
                Stanza("", <<Param("disabled", 1), Param("interval", NotANumber)>>)}
Rejected == {Stanza("", <<Param("interval", NotANumber), Param("disabled", 1)>>),
             Stanza("monitor", <<Param("interval", 0)>>)}

ScheduledInputs == {Continuous, Periodic}

AllInputs ==
    {Continuous, Periodic, Hourly} \cup SwitchedOff \cup Rejected
      \cup {[Continuous EXCEPT !.resolves = FALSE],
            [Periodic EXCEPT !.resolves = FALSE],
            [Periodic EXCEPT !.fits = FALSE]}
=============================================================================
