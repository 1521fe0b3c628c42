------------------------------ MODULE Receiver ------------------------------
(***************************************************************************)
(* From a stanza of inputs.conf to a receiver: the choice of createReceiver *)
(* (internal/collector/collector.go) and the InputConfig of each receiver  *)
(* (internal/receiver/*/receiver.go), which sets the source of the data    *)
(* and the attributes its entries start with.  The stanza library, which   *)
(* is external, builds the input from it, or refuses to.                   *)
(***************************************************************************)
EXTENDS Conf, ScriptPath

CONSTANTS
    Addresses,  \* hosts that can be listened at: with a port, and a name that resolves
    NoGlobs,    \* names of files that are no pattern, such as "[a"
    NoExprs     \* values with an EXPR(...) that does not compile

\* createReceivers passes over an input whose first parameter of that name is 1.
Disabled(input) == Has(input.params, "disabled") /\ Get(input.params, "disabled") = "1"

\* The scheme is compared after url.Parse has put it in lower case, so that no
\* stanza gets the receiver of Windows events.  "none" is an error: the name does not
\* parse or its scheme is not supported.
createReceiver(input) ==
    LET scheme == Lower[input.name.scheme]
    IN  IF input.name \notin StanzaNames THEN "none"
        ELSE CASE scheme \in {"script", ""} -> "script"
               [] scheme \in {"monitor", "WinEventLog", "tcp", "udp"} -> scheme
               [] OTHER -> "none"

Metadata == {"host", "index", "sourcetype", "source"}

\* The same in all receivers.
Attributes(params) ==
    [n \in {m \in Metadata : Has(params, m)} |-> Get(params, n)]

-----------------------------------------------------------------------------
(* InputConfig. *)

scriptInput(base, input) ==
    [command |-> DetermineCommandName(base, input.name), attributes |-> Attributes(input.params)]

\* The host of the name is dropped, and the lists are names below the path; the
\* name has been parsed before, so that no error is left to come.
monitorInput(base, input) ==
    LET path == DetermineCommandName(base, input.name).path
        Below(list) == Join(path, Get(input.params, list))
    IN  [include |-> IF Has(input.params, "whitelist") THEN Below("whitelist") ELSE path,
         exclude |-> IF Has(input.params, "blacklist") THEN <<Below("blacklist")>> ELSE <<>>,
         attributes |-> Attributes(input.params)]

\* Mutant: the path of the name is taken for its host.
listeningInputAtPath(input) ==
    [listen |-> input.name.path, attributes |-> Attributes(input.params)]

\* tcp and udp listen at the host of the name; the channel is all of the name.
listeningInput(input) ==
    [listen |-> input.name.host, attributes |-> Attributes(input.params)]

winInput(input) ==
    [channel |-> input.name, attributes |-> Attributes(input.params)]

InputConfig(kind, base, input) ==
    CASE kind = "script" -> scriptInput(base, input)
      [] kind = "monitor" -> monitorInput(base, input)
      [] kind \in {"tcp", "udp"} -> listeningInput(input)
      [] kind = "WinEventLog" -> winInput(input)

-----------------------------------------------------------------------------
(* The library: Build of the input's own operator, from its InputConfig. *)

Compiles(attributes) == \A n \in DOMAIN attributes : attributes[n] \notin NoExprs

IsGlob(path) == \A i \in DOMAIN path.elements : path.elements[i] \notin NoGlobs

\* The attributes of every input are compiled; tcp and udp resolve the address they will
\* listen at, and a monitor looks at its patterns, before anything is opened.
InputBuilds(kind, source) ==
    /\ Compiles(source.attributes)
    /\ kind \in {"tcp", "udp"} => source.listen \in Addresses
    /\ kind = "monitor" =>
          IsGlob(source.include) /\ \A i \in DOMAIN source.exclude : IsGlob(source.exclude[i])
=============================================================================
