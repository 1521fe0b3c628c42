------------------------------ MODULE Pipeline ------------------------------
(***************************************************************************)
(* From the conf files of a TA to an entry at the exporter, for one of its *)
(* inputs: the files are read (Conf), the input gets its receiver          *)
(* (Receiver), and BaseConfig of the receiver                              *)
(* (internal/receiver/*/receiver.go) lists its operators: the props, each  *)
(* turned into a chain by CreateOperatorConfigs (operator/prop/prop.go),   *)
(* between a first operator and the ones that rename the metadata.  The    *)
(* stanza library, which is external, connects the list and passes each    *)
(* entry from operator to operator.                                        *)
(* The body of an entry and the condition on a prop's first operator are   *)
(* left out: a skipped operator passes the entry on to the same output.    *)
(***************************************************************************)
EXTENDS Receiver

CONSTANTS
    Configs,  \* conf files, [inputs, transforms, props], with the gate "cook" and
              \* the base directory
    Groups    \* the named groups of each regex that compiles

\* What ini makes of a file: nothing is there twice.
WellFormed(file) ==
    /\ file \in Seq(Range(file)) /\ file # <<>>
    /\ file[1].name = DefaultSection
    /\ \A i \in DOMAIN file : file[i].keys \in Seq(Range(file[i].keys))
    /\ \A i, j \in DOMAIN file : i # j => file[i].name # file[j].name
    /\ \A i \in DOMAIN file : \A m, n \in DOMAIN file[i].keys :
          m # n => file[i].keys[m].name # file[i].keys[n].name

\* The name of a prop is one part, or "source::" or "host::" and the rest; names have an
\* order.  FIELDALIAS-<class> is two parts, and the value of TRANSFORMS-<class> is a list.
WellNamed(file) ==
    /\ \A i \in 2 .. Len(file) :
          LET name == file[i].name
          IN  \/ name = <<name[1]>>
              \/ name = <<name[1], name[2]>> /\ name[1] \in {"source::", "host::"}
    /\ \A i \in 2 .. Len(file) : Rank[file[i].name] \in Int
    /\ \A i, j \in 2 .. Len(file) : Rank[file[i].name] = Rank[file[j].name] => i = j
    /\ \A i \in 2 .. Len(file) : \A key \in Range(Prefixed(file[i], "TRANSFORMS-")) :
          key.value \in Seq(Range(key.value))
    /\ \A i \in 2 .. Len(file) : \A key \in Range(Prefixed(file[i], "FIELDALIAS-")) :
          key.name = <<key.name[1], key.name[2]>>

ASSUME PipelineAssumption ==
    \A c \in Configs :
        /\ c.cook \in BOOLEAN /\ c.base \in Paths
        /\ WellFormed(c.inputs) /\ WellFormed(c.transforms) /\ WellFormed(c.props)
        /\ WellNamed(c.props)

VARIABLES
    config,      \* never changes
    input,       \* the input of this receiver
    transforms,  \* transforms.conf as read
    props,       \* props.conf as read
    phase,       \* "read", "create", "start", "list", "build", "ready", "flow", or
                 \* "failed"
    next,        \* the index of the next prop in BaseConfig's loop
    operators,   \* the list of operators so far
    entry,       \* the attributes of the entry on its way
    at,          \* the index of the operator that has it
    path         \* the ids of the operators it has been through

read == <<config, input, transforms, props>>
vars == <<read, phase, next, operators, entry, at, path>>

Init ==
    /\ config \in Configs
    /\ input = <<>>
    /\ transforms = <<>>
    /\ props = <<>>
    /\ phase = "read"
    /\ next = 1
    /\ operators = <<>>
    /\ entry = <<>>
    /\ at = 1
    /\ path = <<>>

-----------------------------------------------------------------------------
(* Run and createReceivers: the files, and the receiver of one of the inputs. *)

ReadFiles ==
    /\ phase = "read"
    /\ ~PropsFail(config.props)
    /\ \E i \in DOMAIN ReadInput(config.inputs) :
          /\ input' = ReadInput(config.inputs)[i]
          /\ ~Disabled(input')
    /\ transforms' = ReadTransforms(config.transforms)
    /\ props' = ReadProps(config.props)
    /\ phase' = "create"
    /\ UNCHANGED <<config, next, operators, entry, at, path>>

\* A value of props.conf that does not parse, whether it is used or not.
ReadFails ==
    /\ phase = "read"
    /\ PropsFail(config.props)
    /\ phase' = "failed"
    /\ UNCHANGED <<read, next, operators, entry, at, path>>

Kind == createReceiver(input)

Source == InputConfig(Kind, config.base, input)

Create ==
    /\ phase = "create"
    /\ phase' = IF Kind = "none" THEN "failed" ELSE "start"
    /\ UNCHANGED <<read, next, operators, entry, at, path>>

-----------------------------------------------------------------------------
(* Operators and their ids.  An id has parts: <<"foo", "end">> is "foo-end". *)

\* out holds the ids of the operators that follow, at most one here.
Operator(id, does, args) == [id |-> id, does |-> does, args |-> args, out |-> {}]

Noop(id) == Operator(id, "noop", <<>>)
Move(id, from, to) == Operator(id, "move", <<from, to>>)
Copy(id, from, to) == Operator(id, "copy", <<from, to>>)

\* Mutant: two props that use one transform give it one id.
TransformUnscoped(p, t) ==
    Operator(<<"transforms", t.name>>, "transform", <<t.name, t.regex, t.format>>)

\* The id of a transform has its prop in it, the id of an alias has not.
Transform(p, t) ==
    Operator(<<"transforms", p.name, t.name>>, "transform", <<t.name, t.regex, t.format>>)

-----------------------------------------------------------------------------
(* prop.CreateOperatorConfigs *)

Defined(name) == {i \in DOMAIN transforms : transforms[i].name = name}

Definition(name) == transforms[CHOOSE i \in Defined(name) : \A j \in Defined(name) : i <= j]

\* The transforms of a prop that transforms.conf defines, in the order of its keys.
Used(p) ==
    Kept(FlattenSeq(Each(p.transforms, LAMBDA t : t.stanza)),
         {transforms[i].name : i \in DOMAIN transforms})

Transforms(p) == Each(Used(p), LAMBDA name : Transform(p, Definition(name)))

FieldAliases(p) ==
    Each(p.aliases, LAMBDA fa : Copy(Append(fa.name, "copy"), fa.from, fa.to))

\* The copy for a prop's sourcetype is given no fields.
SourceType(p) ==
    IF p.sourcetype # "" THEN <<Operator(Append(p.name, "sourcetype"), "copy", <<>>)>>
    ELSE <<>>

\* Mutant: the gate does not hold back the aliases.
CookedAliases(p) ==
    IF config.cook THEN Transforms(p) \o FieldAliases(p) \o SourceType(p)
                   ELSE FieldAliases(p)

Cooked(p) ==
    IF config.cook THEN Transforms(p) \o FieldAliases(p) \o SourceType(p) ELSE <<>>

\* Mutant: a copy does not become "previous".
LinkForgets(chain) ==
    [i \in DOMAIN chain |->
        IF i = Len(chain) THEN [chain[i] EXCEPT !.out = {<<"end">>}]
        ELSE IF chain[i].does = "copy" THEN chain[i]
        ELSE IF chain[i + 1].does = "copy" THEN [chain[i] EXCEPT !.out = {chain[Len(chain)].id}]
        ELSE [chain[i] EXCEPT !.out = {chain[i + 1].id}]]

\* Each operator outputs to the one after it, the last one to the receiver's "end".
Link(chain) ==
    [i \in DOMAIN chain |->
        [chain[i] EXCEPT !.out = {IF i = Len(chain) THEN <<"end">> ELSE chain[i + 1].id}]]

CreateOperatorConfigs(p) ==
    Link(<<Noop(Append(p.name, "start"))>> \o Cooked(p) \o <<Noop(Append(p.name, "end"))>>)

-----------------------------------------------------------------------------
(* BaseConfig *)

\* tcp and udp entries come from no file.
HasPath == Kind \in {"script", "monitor", "WinEventLog"}

createSetSourceOperator ==
    /\ phase = "start"
    /\ operators' = IF HasPath THEN <<Move(<<"start">>, "log.file.path", "source")>> ELSE <<>>
    /\ phase' = "list"
    /\ UNCHANGED <<read, next, entry, at, path>>

To(operator, id) == [operator EXCEPT !.out = {id}]

\* Mutant: end-sourcetype is passed over.
renameMetadataSkips ==
    << To(Move(<<"end", "source">>, "source", "com.splunk.source"), <<"end", "host">>),
       To(Move(<<"end", "sourcetype">>, "sourcetype", "com.splunk.sourcetype"), <<"end", "index">>),
       Move(<<"end", "host">>, "host", "com.splunk.host"),
       Move(<<"end", "index">>, "index", "com.splunk.index") >>

\* The output of end-sourcetype is set twice, the one of end-host is not set.
renameMetadata ==
    << To(Move(<<"end", "source">>, "source", "com.splunk.source"), <<"end", "sourcetype">>),
       To(Move(<<"end", "sourcetype">>, "sourcetype", "com.splunk.sourcetype"), <<"end", "index">>),
       Move(<<"end", "host">>, "host", "com.splunk.host"),
       Move(<<"end", "index">>, "index", "com.splunk.index") >>

\* Mutant: the loop over the props steps past every second one.
AddPropSkipping ==
    /\ phase = "list"
    /\ next \in DOMAIN props
    /\ operators' = operators \o CreateOperatorConfigs(props[next])
    /\ next' = next + 2
    /\ UNCHANGED <<read, phase, entry, at, path>>

AddProp ==
    /\ phase = "list"
    /\ next \in DOMAIN props
    /\ operators' = operators \o CreateOperatorConfigs(props[next])
    /\ next' = next + 1
    /\ UNCHANGED <<read, phase, entry, at, path>>

AddEnd ==
    /\ phase = "list"
    /\ next \notin DOMAIN props
    /\ operators' = operators \o <<To(Noop(<<"end">>), <<"end", "source">>)>> \o renameMetadata
    /\ phase' = "build"
    /\ UNCHANGED <<read, next, entry, at, path>>

-----------------------------------------------------------------------------
(* The library: pipeline.Config.Build. *)

\* An operator with no output is given the next one of the list.  The last one feeds the
\* exporter.
Connected ==
    [i \in DOMAIN operators |->
        IF operators[i].out # {} \/ i = Len(operators) THEN operators[i]
        ELSE To(operators[i], operators[i + 1].id)]

Ids(list) == {list[i].id : i \in DOMAIN list}

\* A transform needs a regex that compiles, and something to add to an entry.
Valid(regex, format) == regex \in DOMAIN Groups /\ (Groups[regex] # {} \/ format # "")

\* A copy needs its fields.
Misconfigured(o) ==
    \/ o.does = "copy" /\ o.args = <<>>
    \/ o.does = "transform" /\ ~Valid(o.args[2], o.args[3])

Duplicate(list) == Cardinality(Ids(list)) < Len(list)

Dangling(list) == \E i \in DOMAIN list : ~(list[i].out \subseteq Ids(list))

End(list) == Len(list) + 1

Target(list, i) ==
    IF i = End(list) \/ list[i].out = {} THEN End(list)
    ELSE CHOOSE j \in DOMAIN list : list[j].id \in list[i].out

Circular(list) ==
    \E i \in DOMAIN list :
        LET Hop[n \in 0 .. Len(list)] == IF n = 0 THEN i ELSE Target(list, Hop[n - 1])
        IN  Hop[Len(list)] # End(list)

\* What makes Build refuse the operators of a list.
Refused(list) ==
    \/ \E i \in DOMAIN list : Misconfigured(list[i])
    \/ Duplicate(list)
    \/ Dangling(list)
    \/ Circular(list)

\* The input's own operator is built too, as the first of the pipeline.
Builds == InputBuilds(Kind, Source) /\ ~Refused(Connected)

BuildFails ==
    /\ phase = "build"
    /\ ~Builds
    /\ phase' = "failed"
    /\ UNCHANGED <<read, next, operators, entry, at, path>>

Build ==
    /\ phase = "build"
    /\ Builds
    /\ operators' = Connected
    /\ phase' = "ready"
    /\ UNCHANGED <<read, next, entry, at, path>>

-----------------------------------------------------------------------------
(* The library: an entry of the input on its way through the operators. *)

Put(attributes, name, value) ==
    [n \in DOMAIN attributes \cup {name} |-> IF n = name THEN value ELSE attributes[n]]

Without(attributes, name) == [n \in DOMAIN attributes \ {name} |-> attributes[n]]

\* A script that is not found never runs; an excluded file is not read.
Emits ==
    CASE Kind = "script" -> Source.command.ok
      [] Kind = "monitor" -> Source.exclude # <<Source.include>>
      [] OTHER -> TRUE

\* Entries of a monitored file come with its path and its name.
Emit ==
    /\ phase = "ready"
    /\ Emits
    /\ entry' = IF Kind = "monitor"
                  THEN Put(Put(Source.attributes, "log.file.path", Source.include),
                           "log.file.name", "name")
                  ELSE Source.attributes
    /\ phase' = "flow"
    /\ UNCHANGED <<read, next, operators, at, path>>

\* A transform adds its named groups, and "body" if it has a format.  An entry whose
\* body does not match, or is no string, goes on as it is.
Transformed(name, regex, format) ==
    LET added == Groups[regex] \cup IF format = "" THEN {} ELSE {"body"}
    IN  {entry, [n \in DOMAIN entry \cup added |-> IF n \in added THEN name ELSE entry[n]]}

\* An attribute that is not there is neither moved nor copied, and the entry goes on.
Outcomes(o) ==
    CASE o.does = "noop" -> {entry}
      [] o.does = "transform" -> Transformed(o.args[1], o.args[2], o.args[3])
      [] o.does \in {"move", "copy"} /\ o.args[1] \notin DOMAIN entry -> {entry}
      [] o.does = "move" /\ o.args[1] \in DOMAIN entry ->
            {Put(Without(entry, o.args[1]), o.args[2], entry[o.args[1]])}
      [] o.does = "copy" /\ o.args[1] \in DOMAIN entry ->
            {Put(entry, o.args[2], entry[o.args[1]])}

Process ==
    /\ phase = "flow"
    /\ at # End(operators)
    /\ entry' \in Outcomes(operators[at])
    /\ at' = Target(operators, at)
    /\ path' = Append(path, operators[at].id)
    /\ UNCHANGED <<read, phase, next, operators>>

-----------------------------------------------------------------------------
Next ==
    \/ ReadFiles \/ ReadFails \/ Create
    \/ createSetSourceOperator \/ AddProp \/ AddEnd
    \/ Build \/ BuildFails
    \/ Emit \/ Process

Spec == Init /\ [][Next]_vars

-----------------------------------------------------------------------------
(* Properties. *)

Delivered == phase = "flow" /\ at = End(operators)

\* Every variable keeps to its type, and a built list has no loose end.
TypeOK ==
    /\ phase # "read" /\ phase # "failed" => ~Disabled(input)
    /\ Len(props) <= Len(config.props) - 1
    /\ phase \in {"read", "create", "start", "list", "build", "ready", "failed", "flow"}
    /\ next \in 1 .. Len(props) + 1
    /\ at \in 1 .. End(operators)
    /\ Len(path) < at
    /\ phase \in {"ready", "flow"} => ~Dangling(operators)

Doubled(list) == \E i, j \in DOMAIN list : i # j /\ list[i] = list[j]

\* What can be wrong with the props once they are cooked: a sourcetype, a transform
\* that is invalid or named twice by a prop, an alias class that two props share.
Flawed ==
    \/ \E i \in DOMAIN props : props[i].sourcetype # ""
    \/ \E i \in DOMAIN props : Doubled(Used(props[i]))
    \/ \E i \in DOMAIN props : \E j \in DOMAIN Used(props[i]) :
          LET t == Definition(Used(props[i])[j]) IN ~Valid(t.regex, t.format)
    \/ \E i, j \in DOMAIN props : i # j /\
          \E fa \in Range(props[i].aliases), fb \in Range(props[j].aliases) : fa.name = fb.name

\* What can be wrong with the input itself: a name that is no URL or has a scheme that is
\* not supported, an attribute that does not compile, an address that cannot be listened
\* at, a file to look for, or to leave out, that is no pattern.
Unusable ==
    LET scheme == Lower[input.name.scheme]
    IN  \/ input.name \notin StanzaNames
        \/ scheme \notin {"script", "", "monitor", "WinEventLog", "tcp", "udp"}
        \/ \E n \in Metadata : Has(input.params, n) /\ Get(input.params, n) \in NoExprs
        \/ scheme \in {"tcp", "udp"} /\ input.name.host \notin Addresses
        \/ /\ scheme = "monitor"
           /\ ~IsGlob(Source.include) \/ \E i \in DOMAIN Source.exclude : ~IsGlob(Source.exclude[i])

\* Of files that can be read, an input is refused if and only if something is wrong with
\* the input itself, a value of props.conf does not parse, or its props are flawed and
\* cooked.  Raw data is forwarded whatever else props.conf and transforms.conf say.
RefusedForCause ==
    LET cause == \/ PropsFail(config.props)
                 \/ input # <<>> /\ Unusable
                 \/ config.cook /\ Flawed
    IN  /\ phase = "failed" => cause
        /\ phase \in {"ready", "flow"} => ~cause

\* A script runs if and only if the file it names lies in the base directory (and not
\* in a directory there whose name begins with dots), and it is that file that runs.
CommandInside ==
    phase \in {"ready", "flow"} /\ Kind = "script" =>
        LET place == Named(config.base, input.name)
        IN  /\ Source.command.ok <=> Inside(BaseDir(config.base), place)
            /\ Source.command.ok => Source.command.path = Absolute(place)

Tags == [source |-> "com.splunk.source", sourcetype |-> "com.splunk.sourcetype",
         host |-> "com.splunk.host", index |-> "com.splunk.index"]

Renamed == {Tags[x] : x \in DOMAIN Tags}

\* What the stanza says of the data: its parameters, and of a file that its path is
\* the source.
Original ==
    LET given == [n \in {x \in DOMAIN Tags : Has(input.params, x)} |-> Get(input.params, n)]
    IN  IF Kind = "monitor" THEN Put(given, "source", Source.include) ELSE given

\* Raw data reaches the exporter with nothing but the attributes of its input: other
\* than the metadata, nothing is added, and the name of a file is not lost.
RawUntouched ==
    Delivered /\ ~config.cook =>
        DOMAIN entry \ (Renamed \cup DOMAIN Tags)
          = IF Kind = "monitor" THEN {"log.file.name"} ELSE {}

Mapped(x) ==
    /\ x \in DOMAIN Original <=> Tags[x] \in DOMAIN entry
    /\ x \in DOMAIN Original => entry[Tags[x]] = Original[x]
    /\ x \notin DOMAIN entry

\* Raw data is tagged with the source, the sourcetype and the index of its input.
MetadataMapped ==
    Delivered /\ ~config.cook => \A x \in {"source", "sourcetype", "index"} : Mapped(x)

\* The ids of the operators that carry out a prop, in the order of its keys.
Settings(p) ==
    Each(Used(p), LAMBDA name : <<"transforms", p.name, name>>)
      \o Each(p.aliases, LAMBDA fa : Append(fa.name, "copy"))

Done(p) == Kept(path, Range(Settings(p)))

\* A prop is carried out whole, once and in its own order, or not at all.
PropsWhole ==
    Delivered /\ config.cook =>
        \A i \in DOMAIN props : Done(props[i]) \in {<<>>, Settings(props[i])}

Overrides == {<<"source", "host">>, <<"source", "sourcetype">>, <<"source", "default">>,
              <<"host", "sourcetype">>, <<"host", "default">>, <<"sourcetype", "default">>}

\* No prop is carried out where one that overrides it is passed over, whatever their
\* order in the file.
SpecificFirst ==
    Delivered /\ config.cook =>
        \A i, j \in DOMAIN props :
            <<Type(props[i].name), Type(props[j].name)>> \in Overrides /\ Done(props[j]) # <<>>
              => Done(props[i]) = Settings(props[i])

\* The host of an input, too, tags its data.
HostMapped == Delivered /\ ~config.cook => Mapped("host")

\* A stanza of Windows events, with nothing wrong in its attributes, is not refused, and
\* it is the receiver of Windows events that its raw data comes from.
WindowsReceived ==
    /\ input # <<>> /\ input.name \in StanzaNames /\ input.name.scheme = "WinEventLog"
    /\ Compiles(Attributes(input.params)) /\ ~config.cook
    => /\ phase # "failed"
       /\ phase \in {"ready", "flow"} => Kind = "WinEventLog"

\* Cooking runs all props.
AllPropsRun ==
    Delivered /\ config.cook => \A i \in DOMAIN props : Done(props[i]) = Settings(props[i])
=============================================================================
