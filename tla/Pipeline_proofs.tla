--------------------------- MODULE Pipeline_proofs ---------------------------
(***************************************************************************)
(* Proofs about Pipeline for all conf files: RawUntouched, CommandInside   *)
(* and MetadataMapped.                                                     *)
(*                                                                         *)
(* The list of operators of raw data holds noops and the moves of metadata *)
(* only.  It is a front, in which every operator outputs to a later one    *)
(* and the first one takes the path of a file out of the entry, and five   *)
(* operators at its end, whose outputs lead an entry past source,          *)
(* sourcetype and index, and never to host.                                *)
(***************************************************************************)
EXTENDS Pipeline, ScriptPath_proofs, FiniteSetTheorems

-----------------------------------------------------------------------------
(* Lists of operators that only move metadata. *)

Moves == {<<"log.file.path", "source">>} \cup {<<x, Tags[x]>> : x \in DOMAIN Tags}

RawOperator(o) ==
    /\ o = [id |-> o.id, does |-> o.does, args |-> o.args, out |-> o.out]
    /\ o.does = "noop" \/ (o.does = "move" /\ o.args \in Moves)

RawList(list) == \E S : list \in Seq(S) /\ \A o \in S : RawOperator(o)

\* The empty list.
LEMMA RawEmpty == RawList(<<>>)
<1> DEFINE list == <<>>
           S == {}
<1>1. list \in Seq(S) /\ \A o \in S : RawOperator(o)
  OBVIOUS
<1> HIDE DEF list, S
<1>2. RawList(list)
  BY <1>1 DEF RawList
<1> QED
  BY <1>2 DEF list

\* Two lists of noops and moves make one.
LEMMA RawConcat ==
  ASSUME NEW s, NEW t, RawList(s), RawList(t)
  PROVE  RawList(s \o t)
<1>1. PICK S : s \in Seq(S) /\ \A o \in S : RawOperator(o)
  BY DEF RawList
<1>2. PICK T : t \in Seq(T) /\ \A o \in T : RawOperator(o)
  BY DEF RawList
<1>3. s \o t \in Seq(S \cup T)
  BY <1>1, <1>2
<1> QED
  BY <1>1, <1>2, <1>3 DEF RawList

\* Concatenations of such lists may be grouped either way.
LEMMA RawAssoc ==
  ASSUME NEW s, NEW t, NEW u, RawList(s), RawList(t), RawList(u)
  PROVE  (s \o t) \o u = s \o (t \o u)
<1>1. PICK S, T, U : s \in Seq(S) /\ t \in Seq(T) /\ u \in Seq(U)
  BY DEF RawList
<1> QED
  BY <1>1

\* A noop is raw.
LEMMA RawNoop == ASSUME NEW id PROVE RawOperator(Noop(id))
  BY DEF RawOperator, Noop, Operator

\* A move of metadata is raw.
LEMMA RawMove ==
  ASSUME NEW id, NEW from, NEW to, <<from, to>> \in Moves
  PROVE  RawOperator(Move(id, from, to))
  BY DEF RawOperator, Move, Operator

\* Setting its output leaves an operator raw.
LEMMA RawTo ==
  ASSUME NEW o, NEW id, RawOperator(o)
  PROVE  /\ RawOperator(To(o, id)) /\ To(o, id).out = {id}
         /\ To(o, id).id = o.id /\ To(o, id).does = o.does /\ To(o, id).args = o.args
<1>1. PICK i, d, a, x : o = [id |-> i, does |-> d, args |-> a, out |-> x]
  BY DEF RawOperator
<1>2. To(o, id) = [id |-> i, does |-> d, args |-> a, out |-> {id}]
  BY <1>1 DEF To
<1> QED
  BY <1>1, <1>2 DEF RawOperator

\* A list of one operator.
LEMMA RawSingle == ASSUME NEW o, RawOperator(o) PROVE RawList(<<o>>)
<1> DEFINE list == <<o>>
           S == {o}
<1>1. list \in Seq(S) /\ \A x \in S : RawOperator(x)
  OBVIOUS
<1> HIDE DEF list, S
<1>2. RawList(list)
  BY <1>1 DEF RawList
<1> QED
  BY <1>2 DEF list

\* Every element of a raw list is a noop or a move.
LEMMA RawElement ==
  ASSUME NEW list, RawList(list)
  PROVE  /\ Len(list) \in Nat /\ DOMAIN list = 1 .. Len(list)
         /\ \A i \in DOMAIN list : RawOperator(list[i])
<1>1. PICK S : list \in Seq(S) /\ \A o \in S : RawOperator(o)
  BY DEF RawList
<1> QED
  BY <1>1

\* A list of the same length, of raw operators too.
LEMMA RawMapped ==
  ASSUME NEW list, RawList(list), NEW g, g = [i \in DOMAIN list |-> g[i]],
         \A i \in DOMAIN list : RawOperator(g[i])
  PROVE  RawList(g)
<1> DEFINE S == {g[i] : i \in DOMAIN list}
<1>1. Len(list) \in Nat /\ DOMAIN list = 1 .. Len(list)
  BY RawElement
<1>2. g \in Seq(S)
  BY <1>1
<1>3. \A o \in S : RawOperator(o)
  OBVIOUS
<1> QED
  BY <1>2, <1>3 DEF RawList

\* The operators of renameMetadata are four moves.
LEMMA RawRename == RawList(renameMetadata)
<1> DEFINE source == To(Move(<<"end", "source">>, "source", "com.splunk.source"), <<"end", "sourcetype">>)
           sourcetype == To(Move(<<"end", "sourcetype">>, "sourcetype", "com.splunk.sourcetype"), <<"end", "index">>)
           host == Move(<<"end", "host">>, "host", "com.splunk.host")
           index == Move(<<"end", "index">>, "index", "com.splunk.index")
<1>1. /\ <<"source", "com.splunk.source">> \in Moves
      /\ <<"sourcetype", "com.splunk.sourcetype">> \in Moves
      /\ <<"host", "com.splunk.host">> \in Moves
      /\ <<"index", "com.splunk.index">> \in Moves
  BY DEF Moves, Tags
<1>2. RawOperator(source) /\ RawOperator(sourcetype) /\ RawOperator(host) /\ RawOperator(index)
  BY <1>1, RawMove, RawTo
<1>3. renameMetadata = <<source, sourcetype, host, index>>
  BY DEF renameMetadata
<1> HIDE DEF source, sourcetype, host, index
<1> DEFINE list == <<source, sourcetype, host, index>>
           S == {source, sourcetype, host, index}
<1>4. list \in Seq(S) /\ \A o \in S : RawOperator(o)
  BY <1>2
<1> HIDE DEF list, S
<1>5. RawList(list)
  BY <1>4 DEF RawList
<1> QED
  BY <1>3, <1>5 DEF list

\* Raw, a prop is two noops.
LEMMA RawProp == ASSUME NEW p, ~config.cook PROVE RawList(CreateOperatorConfigs(p))
<1> DEFINE chain == <<Noop(Append(p.name, "start"))>> \o Cooked(p) \o <<Noop(Append(p.name, "end"))>>
<1>1. Cooked(p) = <<>>
  BY DEF Cooked
<1>2. RawList(chain)
  BY <1>1, RawEmpty, RawConcat, RawSingle, RawNoop
<1> HIDE DEF chain
<1>3. Link(chain) = [i \in DOMAIN chain |-> Link(chain)[i]]
  BY DEF Link
<1>4. ASSUME NEW i \in DOMAIN chain PROVE RawOperator(Link(chain)[i])
  <2> DEFINE out == IF i = Len(chain) THEN <<"end">> ELSE chain[i + 1].id
  <2>1. Link(chain)[i] = To(chain[i], out)
    BY DEF Link, To
  <2> HIDE DEF out
  <2> QED
    BY <1>2, <2>1, RawElement, RawTo
<1>5. RawList(Link(chain))
  BY <1>2, <1>3, <1>4, RawMapped
<1> QED
  BY <1>5 DEF CreateOperatorConfigs, chain

-----------------------------------------------------------------------------
(* The list as BaseConfig makes it, and as the library connects it. *)

\* The first operator of an input with files.
Starts == /\ Len(operators) >= 1
          /\ operators[1].does = "move"
          /\ operators[1].args = <<"log.file.path", "source">>

FileAttributes == {"log.file.path", "log.file.name"}

\* What an entry carries: the name of its file all the way, the path until the first
\* operator has moved it.
EntryInv ==
    /\ at \in 1 .. Len(operators) + 1
    /\ DOMAIN entry \subseteq FileAttributes \cup DOMAIN Tags \cup Renamed
    /\ "log.file.name" \in DOMAIN entry <=> Kind = "monitor"
    /\ "log.file.path" \in DOMAIN entry => Kind = "monitor" /\ at = 1

RawInv ==
    /\ phase \in {"start", "list", "build", "ready", "flow"} => Kind # "none"
    /\ phase # "flow" => at = 1
    /\ RawList(operators)
    /\ phase \in {"list", "build", "ready", "flow"} /\ Kind = "monitor" => Starts
    /\ phase \in {"ready", "flow"} => ~Dangling(operators)
    /\ phase = "flow" => EntryInv

\* The first operator stays the first when the list grows.
LEMMA StartsStay ==
  ASSUME RawList(operators), Starts, NEW list, RawList(list), operators' = operators \o list
  PROVE  Starts'
<1>1. PICK S : operators \in Seq(S) /\ \A o \in S : RawOperator(o)
  BY DEF RawList
<1>2. PICK T : list \in Seq(T) /\ \A o \in T : RawOperator(o)
  BY DEF RawList
<1>3. Len(operators \o list) = Len(operators) + Len(list) /\ (operators \o list)[1] = operators[1]
  BY <1>1, <1>2 DEF Starts
<1> QED
  BY <1>1, <1>2, <1>3 DEF Starts

\* Connecting a list sets outputs and nothing else.
LEMMA RawConnected ==
  ASSUME RawList(operators)
  PROVE  /\ RawList(Connected) /\ Len(Connected) = Len(operators)
         /\ \A i \in DOMAIN operators :
               /\ Connected[i].id = operators[i].id
               /\ Connected[i].does = operators[i].does /\ Connected[i].args = operators[i].args
               /\ Connected[i].out = IF operators[i].out # {} \/ i = Len(operators)
                                       THEN operators[i].out ELSE {operators[i + 1].id}
         /\ operators' = Connected /\ Starts => Starts'
<1>1. Len(operators) \in Nat /\ DOMAIN operators = 1 .. Len(operators)
  BY RawElement
<1>2. /\ Connected = [i \in DOMAIN operators |-> Connected[i]]
      /\ DOMAIN Connected = DOMAIN operators
  BY DEF Connected
<1>3. ASSUME NEW i \in DOMAIN operators
      PROVE  /\ RawOperator(Connected[i])
             /\ Connected[i].id = operators[i].id
             /\ Connected[i].does = operators[i].does /\ Connected[i].args = operators[i].args
             /\ Connected[i].out = IF operators[i].out # {} \/ i = Len(operators)
                                     THEN operators[i].out ELSE {operators[i + 1].id}
  <2>1. RawOperator(operators[i])
    BY RawElement
  <2>2. CASE operators[i].out # {} \/ i = Len(operators)
    BY <2>1, <2>2 DEF Connected
  <2>3. CASE ~(operators[i].out # {} \/ i = Len(operators))
    <3>1. Connected[i] = To(operators[i], operators[i + 1].id)
      BY <2>3 DEF Connected
    <3> QED
      BY <2>1, <2>3, <3>1, RawTo
  <2> QED
    BY <2>2, <2>3
<1>4. RawList(Connected)
  BY <1>2, <1>3, RawMapped
<1>5. Len(Connected) = Len(operators)
  BY <1>1, <1>2, <1>4, RawElement
<1>6. operators' = Connected /\ Starts => Starts'
  <2>1. Starts => 1 \in DOMAIN operators
    BY <1>1 DEF Starts
  <2>2. 1 \in DOMAIN operators =>
            Connected[1].does = operators[1].does /\ Connected[1].args = operators[1].args
    BY <1>3
  <2> QED
    BY <1>5, <2>1, <2>2 DEF Starts
<1> QED
  BY <1>3, <1>4, <1>5, <1>6

\* Without loose ends, an operator's output is one of the list or its end.
LEMMA TargetThere ==
  ASSUME NEW list, RawList(list), ~Dangling(list), NEW i \in DOMAIN list
  PROVE  Target(list, i) \in 1 .. Len(list) + 1
<1>1. Len(list) \in Nat /\ DOMAIN list = 1 .. Len(list)
  BY RawElement
<1>2. CASE list[i].out = {}
  BY <1>1, <1>2 DEF Target, End
<1>3. CASE list[i].out # {}
  <2>1. \E j \in DOMAIN list : list[j].id \in list[i].out
    BY <1>3 DEF Dangling, Ids
  <2> QED
    BY <1>1, <1>3, <2>1 DEF Target, End
<1> QED
  BY <1>2, <1>3

-----------------------------------------------------------------------------
(* What a raw operator does to an entry. *)

\* The attributes after one is put.
LEMMA PutDomain == ASSUME NEW f, NEW n, NEW v PROVE DOMAIN Put(f, n, v) = DOMAIN f \cup {n}
  BY DEF Put

\* An input tags its entries with metadata only.
LEMMA AttributesDomain == ASSUME Kind # "none" PROVE DOMAIN Source.attributes \subseteq DOMAIN Tags
<1>1. Kind \in {"script", "monitor", "tcp", "udp", "WinEventLog"}
  BY DEF Kind, createReceiver
<1>2. Source.attributes = Attributes(input.params)
  BY <1>1 DEF Source, InputConfig, scriptInput, monitorInput, listeningInput, winInput
<1> QED
  BY <1>2 DEF Attributes, Metadata, Tags

\* A noop or a move adds no name but the one it moves to.
LEMMA RawOutcome ==
  ASSUME NEW o, RawOperator(o), NEW e \in Outcomes(o)
  PROVE  \/ e = entry /\ (o.does = "move" => o.args[1] \notin DOMAIN entry)
         \/ o.does = "move" /\ DOMAIN e = (DOMAIN entry \ {o.args[1]}) \cup {o.args[2]}
<1>1. CASE o.does = "noop"
  BY <1>1 DEF Outcomes
<1>2. CASE o.does = "move" /\ o.args[1] \notin DOMAIN entry
  BY <1>2 DEF Outcomes
<1>3. CASE o.does = "move" /\ o.args[1] \in DOMAIN entry
  <2>1. e = Put(Without(entry, o.args[1]), o.args[2], entry[o.args[1]])
    BY <1>3 DEF Outcomes
  <2>2. DOMAIN Without(entry, o.args[1]) = DOMAIN entry \ {o.args[1]}
    BY DEF Without
  <2> QED
    BY <1>3, <2>1, <2>2, PutDomain
<1> QED
  BY <1>1, <1>2, <1>3 DEF RawOperator

-----------------------------------------------------------------------------
(* Every step, while data is raw. *)

\* The list is empty at first.
LEMMA RawStart == Init => RawInv
  BY RawEmpty DEF Init, RawInv

\* Until an entry is emitted only the list grows.
LEMMA RawListStep ==
  ASSUME RawInv, ~config.cook,
         ReadFiles \/ ReadFails \/ Create \/ createSetSourceOperator \/ AddProp \/ AddEnd
  PROVE  RawInv'
<1> USE DEF RawInv
<1>1. CASE ReadFiles
  BY <1>1 DEF ReadFiles
<1>2. CASE ReadFails
  BY <1>2 DEF ReadFails
<1>3. CASE Create
  BY <1>3 DEF Create, read, Kind
<1>4. CASE createSetSourceOperator
  <2> DEFINE start == Move(<<"start">>, "log.file.path", "source")
  <2>1. RawOperator(start)
    BY RawMove DEF Moves
  <2>2. operators' = <<start>> \/ (operators' = <<>> /\ Kind # "monitor")
    <3>1. HasPath => operators' = <<start>>
      BY <1>4 DEF createSetSourceOperator
    <3>2. ~HasPath => operators' = <<>>
      BY <1>4 DEF createSetSourceOperator
    <3>3. ~HasPath => Kind # "monitor"
      BY DEF HasPath
    <3> HIDE DEF start, RawInv
    <3> QED
      BY <3>1, <3>2, <3>3, Zenon
  <2>3. RawList(<<start>>) /\ RawList(operators')
    BY <2>1, <2>2, RawSingle, RawEmpty
  <2>4. start.does = "move" /\ start.args = <<"log.file.path", "source">>
    BY DEF Move, Operator
  <2> HIDE DEF start
  <2>5. Kind = "monitor" => Starts'
    BY <2>2, <2>4 DEF Starts
  <2> QED
    BY <1>4, <2>3, <2>5 DEF createSetSourceOperator, read, Kind
<1>5. CASE AddProp
  <2>1. RawList(CreateOperatorConfigs(props[next]))
    BY RawProp
  <2>2. RawList(operators') /\ (Starts => Starts')
    BY <1>5, <2>1, RawConcat, StartsStay DEF AddProp
  <2> QED
    BY <1>5, <2>2 DEF AddProp, read, Kind
<1>6. CASE AddEnd
  <2> DEFINE list == <<To(Noop(<<"end">>), <<"end", "source">>)>> \o renameMetadata
  <2>1. RawList(list)
    BY RawNoop, RawTo, RawSingle, RawRename, RawConcat
  <2> HIDE DEF list
  <2>2. operators' = operators \o list
    <3>1. operators' = operators \o <<To(Noop(<<"end">>), <<"end", "source">>)>> \o renameMetadata
      BY <1>6 DEF AddEnd
    <3> QED
      BY <3>1, RawAssoc, RawNoop, RawTo, RawSingle, RawRename DEF list
  <2>3. RawList(operators') /\ (Starts => Starts')
    BY <2>1, <2>2, RawConcat, StartsStay
  <2> QED
    BY <1>6, <2>3 DEF AddEnd, read, Kind
<1> QED
  BY <1>1, <1>2, <1>3, <1>4, <1>5, <1>6

\* An entry starts out with metadata only.
LEMMA RawEmit == ASSUME RawInv, Emit PROVE RawInv'
<1>1. DOMAIN Source.attributes \subseteq DOMAIN Tags
  BY AttributesDomain DEF RawInv, Emit
<1>2. DOMAIN entry' = DOMAIN Source.attributes \cup IF Kind = "monitor" THEN FileAttributes ELSE {}
  <2>1. CASE Kind = "monitor"
    <3> DEFINE located == Put(Source.attributes, "log.file.path", Source.include)
    <3>1. DOMAIN located = DOMAIN Source.attributes \cup {"log.file.path"}
      BY PutDomain
    <3>2. entry' = Put(located, "log.file.name", "name")
      BY <2>1 DEF Emit
    <3> HIDE DEF located
    <3>3. DOMAIN entry' = DOMAIN located \cup {"log.file.name"}
      BY <3>2, PutDomain
    <3> QED
      BY <2>1, <3>1, <3>3 DEF FileAttributes
  <2>2. CASE Kind # "monitor"
    BY <2>2 DEF Emit
  <2> QED
    BY <2>1, <2>2
<1>3. UNCHANGED <<operators, at, Kind>> /\ phase = "ready" /\ phase' = "flow"
  BY DEF Emit, read, Kind
<1>4. Len(operators) \in Nat
  BY RawElement DEF RawInv
<1>5. EntryInv'
  BY <1>1, <1>2, <1>3, <1>4 DEF EntryInv, RawInv, FileAttributes, Tags
<1> QED
  BY <1>3, <1>5 DEF RawInv, Starts, Dangling, Ids

\* An entry goes through one operator.
LEMMA RawProcess == ASSUME RawInv, Process PROVE RawInv'
<1>1. UNCHANGED <<operators, phase, Kind>> /\ phase = "flow" /\ EntryInv /\ at # End(operators)
  BY DEF Process, read, Kind, RawInv
<1>2. at \in DOMAIN operators /\ RawOperator(operators[at]) /\ Len(operators) \in Nat
  BY <1>1, RawElement DEF RawInv, EntryInv, End
<1>3. at' \in 1 .. Len(operators) + 1
  BY <1>1, <1>2, TargetThere DEF Process, RawInv
<1> DEFINE o == operators[at]
<1>4. \/ entry' = entry /\ (o.does = "move" => o.args[1] \notin DOMAIN entry)
      \/ o.does = "move" /\ DOMAIN entry' = (DOMAIN entry \ {o.args[1]}) \cup {o.args[2]}
  BY <1>2, RawOutcome DEF Process
<1>5. o.does = "move" => /\ o.args[1] \in {"log.file.path"} \cup DOMAIN Tags
                         /\ o.args[2] \in {"source"} \cup Renamed
  BY <1>2 DEF RawOperator, Moves, Renamed
<1>6. at = 1 /\ Kind = "monitor" => o.does = "move" /\ o.args[1] = "log.file.path"
  BY <1>1 DEF RawInv, Starts
<1> HIDE DEF o
<1>7. "log.file.path" \notin DOMAIN entry'
  BY <1>1, <1>4, <1>5, <1>6 DEF EntryInv, Tags, Renamed
<1>8. EntryInv'
  BY <1>1, <1>3, <1>4, <1>5, <1>7 DEF EntryInv, FileAttributes, Tags, Renamed
<1> QED
  BY <1>1, <1>8 DEF RawInv, Starts, Dangling, Ids

\* Every step of raw data keeps the invariant.
LEMMA RawStep == RawInv /\ ~config.cook /\ [Next]_vars => RawInv'
<1> SUFFICES ASSUME RawInv, ~config.cook, [Next]_vars PROVE RawInv'
  OBVIOUS
<1>1. CASE BuildFails
  BY <1>1 DEF BuildFails, RawInv
<1>2. CASE Build
  BY <1>2, RawConnected DEF Build, Builds, RawInv, Refused, read, Kind
<1>3. CASE UNCHANGED vars
  BY <1>3 DEF vars, read, RawInv, EntryInv, Starts, Dangling, Ids, Kind
<1> QED
  BY <1>1, <1>2, <1>3, RawListStep, RawEmit, RawProcess DEF Next

\* Raw data reaches the exporter with nothing but the attributes of its input
\* (RawUntouched), for all conf files: whatever props and transforms there are, the
\* list holds nothing but noops and the moves of metadata.
THEOREM RawStaysUntouched == Spec => []RawUntouched
<1>1. Init => (~config.cook => RawInv)
  BY RawStart
<1>2. (~config.cook => RawInv) /\ [Next]_vars => (~config.cook => RawInv)'
  <2>1. [Next]_vars => UNCHANGED config
    BY DEF Next, vars, read, ReadFiles, ReadFails, Create, createSetSourceOperator, AddProp,
       AddEnd, Build, BuildFails, Emit, Process
  <2> QED
    BY <2>1, RawStep
<1>3. (~config.cook => RawInv) => RawUntouched
  <2> SUFFICES ASSUME RawInv, Delivered
               PROVE  DOMAIN entry \ (Renamed \cup DOMAIN Tags)
                        = IF Kind = "monitor" THEN {"log.file.name"} ELSE {}
    BY DEF RawUntouched
  <2>1. EntryInv /\ at = Len(operators) + 1 /\ Len(operators) \in Nat
    BY RawElement DEF RawInv, Delivered, End
  <2>2. "log.file.path" \notin DOMAIN entry
    BY <2>1 DEF RawInv, Delivered, EntryInv, Starts
  <2>3. "log.file.name" \notin Renamed \cup DOMAIN Tags
    BY DEF Renamed, Tags
  <2> QED
    BY <2>1, <2>2, <2>3 DEF EntryInv, FileAttributes
<1> QED
  BY <1>1, <1>2, <1>3, PTL DEF Spec

-----------------------------------------------------------------------------
(* The command of a script. *)

\* Once there is a receiver, its input is one that the conf file has.
InputInv ==
    /\ config \in Configs
    /\ phase \notin {"read", "failed"} =>
          \E i \in DOMAIN ReadInput(config.inputs) : input = ReadInput(config.inputs)[i]

\* There is no input yet.
LEMMA InputStart == Init => InputInv
  BY DEF Init, InputInv

\* The input stays the one that was read from the file.
LEMMA InputStep == InputInv /\ [Next]_vars => InputInv'
<1> SUFFICES ASSUME InputInv, [Next]_vars PROVE InputInv'
  OBVIOUS
<1>1. CASE ReadFiles
  BY <1>1 DEF ReadFiles, InputInv
<1>2. CASE ReadFails
  BY <1>2 DEF ReadFails, read, InputInv
<1>3. CASE /\ UNCHANGED <<config, input>>
           /\ phase' \in {"read", "failed"} \/ phase \notin {"read", "failed"}
  BY <1>3 DEF InputInv
<1>4. \/ ReadFiles \/ ReadFails
      \/ /\ UNCHANGED <<config, input>>
         /\ phase' \in {"read", "failed"} \/ phase \notin {"read", "failed"}
  <2>1. CASE UNCHANGED vars
    BY <2>1 DEF vars, read
  <2>2. CASE Next
    BY <2>2 DEF Next, read, Create, createSetSourceOperator, AddProp, AddEnd, Build, BuildFails,
       Emit, Process
  <2> QED
    BY <2>1, <2>2
<1> QED
  BY <1>1, <1>2, <1>3, <1>4

\* The name of an input with a receiver is one that url.Parse gives.
LEMMA InputName ==
  ASSUME Kind # "none"
  PROVE  input.name \in StanzaNames
<1> SUFFICES ASSUME input.name \notin StanzaNames PROVE FALSE
  OBVIOUS
<1>1. Kind = "none"
  BY Zenon DEF Kind, createReceiver
<1> QED
  BY <1>1

\* The script that a receiver runs lies in the base directory of the TA, and a script
\* that lies there is run (CommandInside), whatever the conf files, the base directory
\* and the working directory are.
THEOREM CommandStaysInside == Spec => []CommandInside
<1>1. InputInv => CommandInside
  <2> DEFINE place == Named(config.base, input.name)
             command == DetermineCommandName(config.base, input.name)
  <2> SUFFICES ASSUME InputInv, phase \in {"ready", "flow"}, Kind = "script"
               PROVE  /\ Source.command.ok <=> Inside(BaseDir(config.base), place)
                      /\ Source.command.ok => Source.command.path = Absolute(place)
    BY DEF CommandInside
  <2>1. config.base \in Paths /\ input.name \in StanzaNames
    BY PipelineAssumption, InputName DEF InputInv
  <2>2. Lower[input.name.scheme] \in {"script", ""}
    <3>1. CASE Lower[input.name.scheme] \in {"monitor", "WinEventLog", "tcp", "udp"}
      <4>1. Kind = Lower[input.name.scheme]
        BY <2>1, <3>1, Zenon DEF Kind, createReceiver
      <4> QED
        BY <3>1, <4>1
    <3>2. CASE Lower[input.name.scheme] \notin {"script", "", "monitor", "WinEventLog", "tcp", "udp"}
      <4>1. Kind = "none"
        BY <2>1, <3>2, Zenon DEF Kind, createReceiver
      <4> QED
        BY <4>1
    <3> QED
      BY <3>1, <3>2
  <2>3. Source.command = command
    <3>1. Source = scriptInput(config.base, input)
      BY Zenon DEF Source, InputConfig
    <3> QED
      BY <3>1 DEF scriptInput
  <2>4. command = IF Inside(BaseDir(config.base), place) THEN Accepted(Absolute(place)) ELSE Rejected
    BY <2>1, <2>2, CommandIsInside
  <2> HIDE DEF command, place
  <2> QED
    BY <2>3, <2>4 DEF Accepted, Rejected
<1> QED
  BY <1>1, InputStart, InputStep, PTL DEF Spec

-----------------------------------------------------------------------------
(* The list of operators, front and end. *)

\* An operator of the front does nothing, or is the first and moves the path of a file.
\* It has no output yet, or outputs to the operator after it or to "end".
Opening(list, m) ==
    \A i \in 1 .. m :
        /\ \/ list[i].does = "noop"
           \/ i = 1 /\ list[i].does = "move" /\ list[i].args = <<"log.file.path", "source">>
        /\ \/ list[i].out \in {{}, {<<"end">>}}
           \/ i < m /\ list[i].out = {list[i + 1].id}

\* The five operators after the first m.
Ending(list, m) ==
    /\ list[m + 1].does = "noop" /\ list[m + 1].id = <<"end">>
    /\ list[m + 2].does = "move" /\ list[m + 2].id = <<"end", "source">>
    /\ list[m + 2].args = <<"source", "com.splunk.source">>
    /\ list[m + 3].does = "move" /\ list[m + 3].id = <<"end", "sourcetype">>
    /\ list[m + 3].args = <<"sourcetype", "com.splunk.sourcetype">>
    /\ list[m + 5].does = "move" /\ list[m + 5].id = <<"end", "index">>
    /\ list[m + 5].args = <<"index", "com.splunk.index">>
    /\ list[m + 1].out = {<<"end", "source">>} /\ list[m + 2].out = {<<"end", "sourcetype">>}
    /\ list[m + 3].out = {<<"end", "index">>} /\ list[m + 5].out = {}

M == Len(operators) - 5

\* A built list: every operator of the front has its output further down.
Wired ==
    /\ Ending(operators, M)
    /\ \A i \in 1 .. M :
        /\ \/ operators[i].does = "noop"
           \/ i = 1 /\ operators[i].does = "move" /\ operators[i].args = <<"log.file.path", "source">>
        /\ \E j \in i + 1 .. M + 1 : operators[i].out = {operators[j].id}
    /\ \A i, j \in DOMAIN operators : operators[i].id = operators[j].id => i = j

ListInv ==
    /\ phase \in {"read", "create", "start"} => operators = <<>>
    /\ phase = "list" => Opening(operators, Len(operators))
    /\ phase = "build" => M \in Nat /\ Opening(operators, M) /\ Ending(operators, M)
    /\ phase \in {"ready", "flow"} => M \in Nat /\ Wired

-----------------------------------------------------------------------------
(* The metadata of an entry. *)

\* The attribute x still has its first name.
Pending(x) ==
    /\ x \in DOMAIN Original <=> x \in DOMAIN entry
    /\ x \in DOMAIN Original => entry[x] = Original[x]
    /\ Tags[x] \notin DOMAIN entry

\* The source of a file is its path until the first operator has moved it.
Unread ==
    /\ "log.file.path" \in DOMAIN entry
    /\ entry["log.file.path"] = Source.include
    /\ Tags["source"] \notin DOMAIN entry

MetaInv ==
    /\ at \in 1 .. M + 3 \cup {M + 5, M + 6}
    /\ at <= M + 2 => IF Kind = "monitor" /\ at = 1 THEN Unread ELSE Pending("source")
    /\ at > M + 2 => Mapped("source")
    /\ at <= M + 3 => Pending("sourcetype")
    /\ at > M + 3 => Mapped("sourcetype")
    /\ at <= M + 5 => Pending("index")
    /\ at > M + 5 => Mapped("index")

-----------------------------------------------------------------------------
(* How the list is made. *)

\* A concatenation of lists of operators, element by element.
LEMMA ConcatFacts ==
  ASSUME NEW s, NEW t, RawList(s), RawList(t)
  PROVE  /\ Len(s) \in Nat /\ Len(t) \in Nat /\ Len(s \o t) = Len(s) + Len(t)
         /\ \A i \in 1 .. Len(s) : (s \o t)[i] = s[i]
         /\ \A i \in 1 .. Len(t) : (s \o t)[Len(s) + i] = t[i]
         /\ \A i \in Len(s) + 1 .. Len(s) + Len(t) : (s \o t)[i] = t[i - Len(s)]
<1>1. PICK S : s \in Seq(S)
  BY DEF RawList
<1>2. PICK T : t \in Seq(T)
  BY DEF RawList
<1> QED
  BY <1>1, <1>2

\* Raw, a prop is a noop before another one, which outputs to "end".
LEMMA RawChain ==
  ASSUME NEW p, ~config.cook, NEW c, c = CreateOperatorConfigs(p)
  PROVE  /\ Len(c) = 2
         /\ c[1].does = "noop" /\ c[1].out = {c[2].id}
         /\ c[2].does = "noop" /\ c[2].out = {<<"end">>}
<1> DEFINE a == Noop(Append(p.name, "start"))
           b == Noop(Append(p.name, "end"))
<1>1. RawOperator(a) /\ RawOperator(b) /\ a.does = "noop" /\ b.does = "noop"
  BY RawNoop DEF Noop, Operator
<1>2. c = Link((<<a>> \o <<>>) \o <<b>>)
  BY DEF CreateOperatorConfigs, Cooked
<1> HIDE DEF a, b
<1> DEFINE chain == (<<a>> \o <<>>) \o <<b>>
<1>3. RawList(chain) /\ Len(chain) = 2 /\ chain[1] = a /\ chain[2] = b
  <2>1. RawList(<<a>>) /\ RawList(<<b>>) /\ RawList(<<>>) /\ RawList(<<a>> \o <<>>)
    BY <1>1, RawSingle, RawEmpty, RawConcat
  <2>2. Len(<<a>> \o <<>>) = 1 /\ (<<a>> \o <<>>)[1] = a
    BY <2>1, ConcatFacts
  <2> DEFINE s == <<a>> \o <<>>
             t == <<b>>
             u == s \o t
  <2>3. Len(s) = 1 /\ s[1] = a /\ RawList(s)
    BY <2>1, <2>2
  <2>4. Len(t) = 1 /\ t[1] = b /\ RawList(t)
    BY <2>1
  <2> HIDE DEF s, t
  <2>5. /\ RawList(u) /\ Len(u) = Len(s) + Len(t)
        /\ \A i \in 1 .. Len(s) : u[i] = s[i]
        /\ \A i \in Len(s) + 1 .. Len(s) + Len(t) : u[i] = t[i - Len(s)]
    BY <2>3, <2>4, ConcatFacts, RawConcat
  <2> HIDE DEF u
  <2>6. RawList(u) /\ Len(u) = 2 /\ u[1] = a /\ u[2] = b
    <3>1. 1 \in 1 .. Len(s) /\ 2 \in Len(s) + 1 .. Len(s) + Len(t) /\ 2 - Len(s) = 1
      BY <2>3, <2>4
    <3> QED
      BY <2>3, <2>4, <2>5, <3>1
  <2> QED
    BY <2>6 DEF s, t, u
<1>4. DOMAIN chain = 1 .. 2
  BY <1>3, RawElement
<1>5. c = [i \in DOMAIN chain |-> To(chain[i], IF i = Len(chain) THEN <<"end">> ELSE chain[i + 1].id)]
  BY <1>2 DEF Link, To
<1> HIDE DEF chain
<1>6. c[1] = To(a, b.id) /\ c[2] = To(b, <<"end">>)
  BY <1>3, <1>4, <1>5
<1>7. RawList(c) /\ DOMAIN c = 1 .. 2
  BY <1>4, <1>5, RawProp
<1>8. Len(c) = 2
  BY <1>7, RawElement
<1> QED
  BY <1>1, <1>6, <1>8, RawTo

\* The operators of AddEnd.
LEMMA RawEnding ==
  ASSUME NEW list, list = <<To(Noop(<<"end">>), <<"end", "source">>)>> \o renameMetadata
  PROVE  RawList(list) /\ Len(list) = 5 /\ Ending(list, 0)
<1> DEFINE end == To(Noop(<<"end">>), <<"end", "source">>)
<1>1. RawOperator(end) /\ RawList(<<end>>) /\ RawList(renameMetadata)
  BY RawNoop, RawTo, RawSingle, RawRename
<1>2. end.does = "noop" /\ end.id = <<"end">> /\ end.out = {<<"end", "source">>}
  BY DEF Noop, To, Operator
<1> HIDE DEF end
<1>3. list = <<end>> \o renameMetadata
  BY DEF end
<1>4. Len(renameMetadata) = 4
  BY DEF renameMetadata
<1>5. /\ Len(list) = 5 /\ list[1] = end
      /\ list[2] = renameMetadata[1] /\ list[3] = renameMetadata[2] /\ list[5] = renameMetadata[4]
  <2> DEFINE s == <<end>>
             t == renameMetadata
             u == s \o t
  <2>1. Len(s) = 1 /\ s[1] = end /\ RawList(s) /\ RawList(t) /\ Len(t) = 4
    BY <1>1, <1>4
  <2> HIDE DEF s, t
  <2>2. /\ Len(u) = Len(s) + Len(t)
        /\ \A i \in 1 .. Len(s) : u[i] = s[i]
        /\ \A i \in Len(s) + 1 .. Len(s) + Len(t) : u[i] = t[i - Len(s)]
    <3>1. RawList(s) /\ RawList(t)
      BY <2>1
    <3> QED
      BY ONLY <3>1, ConcatFacts DEF u
  <2> HIDE DEF u
  <2>3. Len(u) = 5 /\ u[1] = end /\ u[2] = t[1] /\ u[3] = t[2] /\ u[5] = t[4]
    <3>1. /\ 1 \in 1 .. Len(s) /\ {2, 3, 5} \subseteq Len(s) + 1 .. Len(s) + Len(t)
          /\ 2 - Len(s) = 1 /\ 3 - Len(s) = 2 /\ 5 - Len(s) = 4
      BY <2>1
    <3> QED
      BY <2>1, <2>2, <3>1
  <2> QED
    BY <1>3, <2>3 DEF s, t, u
<1>6. /\ renameMetadata[1].does = "move" /\ renameMetadata[1].id = <<"end", "source">>
      /\ renameMetadata[1].args = <<"source", "com.splunk.source">>
      /\ renameMetadata[1].out = {<<"end", "sourcetype">>}
  BY DEF renameMetadata, Move, Operator, To
<1>7. /\ renameMetadata[2].does = "move" /\ renameMetadata[2].id = <<"end", "sourcetype">>
      /\ renameMetadata[2].args = <<"sourcetype", "com.splunk.sourcetype">>
      /\ renameMetadata[2].out = {<<"end", "index">>}
  BY DEF renameMetadata, Move, Operator, To
<1>8. /\ renameMetadata[4].does = "move" /\ renameMetadata[4].id = <<"end", "index">>
      /\ renameMetadata[4].args = <<"index", "com.splunk.index">>
      /\ renameMetadata[4].out = {}
  BY DEF renameMetadata, Move, Operator, To
<1>9. RawList(list)
  BY <1>1, <1>3, RawConcat
<1> QED
  BY <1>2, <1>5, <1>6, <1>7, <1>8, <1>9 DEF Ending

\* The list grows by what does not touch its front.
LEMMA OpeningGrows ==
  ASSUME NEW s, NEW t, RawList(s), RawList(t), Opening(s, Len(s)),
         \A i \in 1 .. Len(t) :
            /\ t[i].does = "noop"
            /\ t[i].out \in {{}, {<<"end">>}} \/ (i < Len(t) /\ t[i].out = {t[i + 1].id})
  PROVE  Opening(s \o t, Len(s \o t))
<1> DEFINE u == s \o t
           m == Len(s)
           n == Len(t)
<1>1. /\ m \in Nat /\ n \in Nat /\ Len(u) = m + n
      /\ \A i \in 1 .. m : u[i] = s[i]
      /\ \A i \in 1 .. n : u[m + i] = t[i]
  BY ConcatFacts
<1> HIDE DEF u
<1>2. ASSUME NEW i \in 1 .. m + n
      PROVE  /\ \/ u[i].does = "noop"
                \/ i = 1 /\ u[i].does = "move" /\ u[i].args = <<"log.file.path", "source">>
             /\ \/ u[i].out \in {{}, {<<"end">>}}
                \/ i < m + n /\ u[i].out = {u[i + 1].id}
  <2>1. CASE i \in 1 .. m
    <3>1. /\ \/ s[i].does = "noop"
             \/ i = 1 /\ s[i].does = "move" /\ s[i].args = <<"log.file.path", "source">>
          /\ \/ s[i].out \in {{}, {<<"end">>}}
             \/ i < m /\ s[i].out = {s[i + 1].id}
      BY <2>1 DEF Opening
    <3>2. u[i] = s[i] /\ (i < m => u[i + 1] = s[i + 1])
      BY <1>1, <2>1
    <3> QED
      BY <1>1, <3>1, <3>2
  <2>2. CASE i \notin 1 .. m
    <3>1. PICK k \in 1 .. n : i = m + k
      <4>1. i - m \in 1 .. n /\ i = m + (i - m)
        BY <1>1, <2>2
      <4> QED
        BY <4>1
    <3>2. u[i] = t[k] /\ (k < n => u[i + 1] = t[k + 1])
      <4>1. k < n => k + 1 \in 1 .. n /\ i + 1 = m + (k + 1)
        BY <1>1, <3>1
      <4>2. u[i] = t[k]
        BY <1>1, <3>1
      <4>3. k < n => u[m + (k + 1)] = t[k + 1]
        BY <1>1, <4>1
      <4> QED
        BY <4>1, <4>2, <4>3
    <3>3. /\ t[k].does = "noop"
          /\ t[k].out \in {{}, {<<"end">>}} \/ (k < n /\ t[k].out = {t[k + 1].id})
      OBVIOUS
    <3>4. k < n => i < m + n
      BY <1>1, <3>1
    <3> QED
      BY <3>2, <3>3, <3>4, Zenon
  <2> QED
    BY <2>1, <2>2
<1>3. Opening(u, Len(u))
  BY <1>1, <1>2 DEF Opening
<1> QED
  BY <1>3 DEF u

\* The output of an operator leads to the one that has that id.
LEMMA TargetIs ==
  ASSUME NEW list, \A i, j \in DOMAIN list : list[i].id = list[j].id => i = j,
         NEW i \in DOMAIN list, NEW j \in DOMAIN list, list[i].out = {list[j].id}, i # End(list)
  PROVE  Target(list, i) = j
<1>1. Target(list, i) = CHOOSE k \in DOMAIN list : list[k].id \in list[i].out
  BY DEF Target
<1>2. \A k \in DOMAIN list : list[k].id \in list[i].out => k = j
  OBVIOUS
<1>3. list[j].id \in list[i].out
  OBVIOUS
<1> QED
  BY <1>1, <1>2, <1>3

\* A list that is not refused as Duplicate has every id once.
LEMMA Distinct ==
  ASSUME NEW list, Len(list) \in Nat, DOMAIN list = 1 .. Len(list), ~Duplicate(list)
  PROVE  \A i, j \in DOMAIN list : list[i].id = list[j].id => i = j
<1>1. Len(list) \in Nat /\ DOMAIN list = 1 .. Len(list)
  OBVIOUS
<1> DEFINE S == 1 .. Len(list)
           f == [i \in S |-> list[i].id]
<1>2. IsFiniteSet(S) /\ Cardinality(S) = Len(list)
  <2>1. /\ IsFiniteSet(1 .. Len(list))
        /\ Cardinality(1 .. Len(list)) = IF 1 > Len(list) THEN 0 ELSE Len(list) - 1 + 1
    BY <1>1, 1 \in Int, Len(list) \in Int, FS_Interval
  <2> QED
    BY <1>1, <2>1
<1>3. f \in Surjection(S, Ids(list))
  BY <1>1 DEF Ids, Surjection
<1>4. /\ Cardinality(Ids(list)) <= Cardinality(S)
      /\ Cardinality(Ids(list)) = Cardinality(S) <=> f \in Injection(S, Ids(list))
  BY <1>2, <1>3, FS_Surjection
<1>5. IsFiniteSet(Ids(list)) /\ Cardinality(Ids(list)) \in Nat
  BY <1>2, <1>3, FS_Surjection, FS_CardinalityType
<1>6. f \in Injection(S, Ids(list))
  BY <1>1, <1>2, <1>4, <1>5 DEF Duplicate
<1>7. \A i, j \in S : f[i] = f[j] => i = j
  BY <1>6 DEF Injection, IsInjective
<1> QED
  BY <1>1, <1>7

\* Connecting the list gives every operator of the front its output, and "end" is the
\* one after the front.
LEMMA BuildWires ==
  ASSUME RawInv, ListInv, Build
  PROVE  ListInv'
<1>1. /\ RawList(operators) /\ M \in Nat /\ Opening(operators, M) /\ Ending(operators, M)
      /\ operators' = Connected /\ phase' = "ready" /\ ~Duplicate(Connected)
  BY DEF RawInv, ListInv, Build, Builds, Refused
<1>2. Len(operators) = M + 5 /\ DOMAIN operators = 1 .. M + 5
  BY <1>1, RawElement DEF M
<1> DEFINE c == Connected
<1>3. /\ RawList(c) /\ Len(c) = M + 5 /\ DOMAIN c = 1 .. M + 5
      /\ \A i \in 1 .. M + 5 :
            /\ c[i].id = operators[i].id
            /\ c[i].does = operators[i].does /\ c[i].args = operators[i].args
            /\ c[i].out = IF operators[i].out # {} \/ i = M + 5
                            THEN operators[i].out ELSE {operators[i + 1].id}
  BY <1>1, <1>2, RawConnected, RawElement
<1>4. \A i, j \in 1 .. M + 5 : c[i].id = c[j].id => i = j
  <2>1. Len(c) \in Nat /\ DOMAIN c = 1 .. Len(c) /\ ~Duplicate(c)
    BY <1>1, <1>3, RawElement
  <2> QED
    BY <1>3, <2>1, Distinct
<1> HIDE DEF c
<1>5. M' = M
  BY <1>1, <1>2, <1>3 DEF M, c
<1>6. Ending(c, M)
  <2> DEFINE m == M
  <2>1. /\ m + 1 \in 1 .. m + 5 /\ m + 2 \in 1 .. m + 5 /\ m + 3 \in 1 .. m + 5
        /\ m + 5 \in 1 .. m + 5 /\ m \in Nat
    BY <1>1
  <2>2. Ending(operators, m)
    BY <1>1
  <2>3. /\ c[m + 1].id = operators[m + 1].id /\ c[m + 1].does = operators[m + 1].does
        /\ c[m + 2].id = operators[m + 2].id /\ c[m + 2].does = operators[m + 2].does
        /\ c[m + 3].id = operators[m + 3].id /\ c[m + 3].does = operators[m + 3].does
        /\ c[m + 5].id = operators[m + 5].id /\ c[m + 5].does = operators[m + 5].does
        /\ c[m + 2].args = operators[m + 2].args /\ c[m + 3].args = operators[m + 3].args
        /\ c[m + 5].args = operators[m + 5].args /\ c[m + 5].out = operators[m + 5].out
    BY <1>3, <2>1
  <2>4. /\ operators[m + 1].out # {} /\ operators[m + 2].out # {} /\ operators[m + 3].out # {}
    BY <2>2 DEF Ending
  <2>5. /\ c[m + 1].out = operators[m + 1].out /\ c[m + 2].out = operators[m + 2].out
        /\ c[m + 3].out = operators[m + 3].out
    BY <1>3, <2>1, <2>4
  <2> HIDE DEF m
  <2>6. Ending(c, m)
    BY <2>2, <2>3, <2>5 DEF Ending
  <2> QED
    BY <2>6 DEF m
<1>7. ASSUME NEW i \in 1 .. M
      PROVE  /\ \/ c[i].does = "noop"
                \/ i = 1 /\ c[i].does = "move" /\ c[i].args = <<"log.file.path", "source">>
             /\ \E j \in i + 1 .. M + 1 : c[i].out = {c[j].id}
  <2>1. i \in 1 .. M + 5 /\ i + 1 \in 1 .. M + 5 /\ i + 1 \in i + 1 .. M + 1 /\ i # M + 5
        /\ M + 1 \in i + 1 .. M + 1 /\ M + 1 \in 1 .. M + 5
    BY <1>1
  <2>2. /\ c[i].does = operators[i].does /\ c[i].args = operators[i].args
        /\ c[i].out = IF operators[i].out # {} THEN operators[i].out ELSE {operators[i + 1].id}
        /\ c[i + 1].id = operators[i + 1].id
    BY <1>3, <2>1
  <2>3. /\ \/ operators[i].does = "noop"
           \/ i = 1 /\ operators[i].does = "move" /\ operators[i].args = <<"log.file.path", "source">>
        /\ operators[i].out \in {{}, {<<"end">>}} \/ operators[i].out = {operators[i + 1].id}
    BY <1>1 DEF Opening
  <2>4. c[M + 1].id = <<"end">>
    BY <1>6 DEF Ending
  <2>5. c[i].out = {c[i + 1].id} \/ c[i].out = {c[M + 1].id}
    BY <2>2, <2>3, <2>4
  <2> QED
    BY <2>1, <2>2, <2>3, <2>5
<1>8. Wired'
  <2>1. Ending(operators', M') /\ operators' = c /\ DOMAIN operators' = 1 .. M + 5
    BY <1>1, <1>3, <1>5, <1>6 DEF c
  <2> QED
    BY <1>4, <1>5, <1>7, <2>1 DEF Wired
<1> QED
  BY <1>1, <1>5, <1>8 DEF ListInv

\* Every step keeps the shape of the list of raw data.
LEMMA ListStep ==
  ASSUME RawInv, ListInv, ~config.cook, [Next]_vars
  PROVE  ListInv'
<1>1. CASE ReadFiles
  BY <1>1 DEF ReadFiles, ListInv
<1>2. CASE ReadFails
  BY <1>2 DEF ReadFails, ListInv
<1>3. CASE Create
  BY <1>3 DEF Create, ListInv
<1>4. CASE createSetSourceOperator
  <2> DEFINE start == Move(<<"start">>, "log.file.path", "source")
  <2>1. /\ start.does = "move" /\ start.args = <<"log.file.path", "source">> /\ start.out = {}
        /\ phase' = "list"
    BY <1>4 DEF Move, Operator, createSetSourceOperator
  <2>2. operators' = <<start>> \/ operators' = <<>>
    BY <1>4 DEF createSetSourceOperator
  <2> HIDE DEF start
  <2>3. CASE operators' = <<>>
    <3>1. Len(operators') = 0
      BY <2>3
    <3> QED
      BY <2>1, <3>1 DEF ListInv, Opening
  <2>4. CASE operators' = <<start>>
    <3>1. Len(operators') = 1 /\ operators'[1] = start
      BY <2>4
    <3> QED
      BY <2>1, <3>1 DEF ListInv, Opening
  <2> QED
    BY <2>2, <2>3, <2>4
<1>5. CASE AddProp
  <2> DEFINE c == CreateOperatorConfigs(props[next])
  <2>1. /\ RawList(c) /\ Len(c) = 2
        /\ c[1].does = "noop" /\ c[1].out = {c[2].id}
        /\ c[2].does = "noop" /\ c[2].out = {<<"end">>}
    BY RawProp, RawChain
  <2>2. /\ operators' = operators \o c /\ phase' = "list"
        /\ RawList(operators) /\ Opening(operators, Len(operators))
    BY <1>5 DEF AddProp, RawInv, ListInv
  <2> HIDE DEF c
  <2>3. \A i \in 1 .. Len(c) :
            /\ c[i].does = "noop"
            /\ c[i].out \in {{}, {<<"end">>}} \/ (i < Len(c) /\ c[i].out = {c[i + 1].id})
    BY <2>1
  <2>4. Opening(operators', Len(operators'))
    BY <2>1, <2>2, <2>3, OpeningGrows
  <2> QED
    BY <2>2, <2>4 DEF ListInv
<1>6. CASE AddEnd
  <2> DEFINE end == <<To(Noop(<<"end">>), <<"end", "source">>)>>
             list == end \o renameMetadata
             m == Len(operators)
  <2>1. RawList(list) /\ Len(list) = 5 /\ Ending(list, 0)
    BY RawEnding
  <2>2. RawList(operators) /\ phase' = "build" /\ Opening(operators, m)
    BY <1>6 DEF AddEnd, RawInv, ListInv
  <2>3. operators' = operators \o list
    <3>1. operators' = (operators \o end) \o renameMetadata
      BY <1>6 DEF AddEnd
    <3> QED
      BY <2>2, <3>1, RawAssoc, RawNoop, RawTo, RawSingle, RawRename
  <2> HIDE DEF list
  <2>4. /\ m \in Nat /\ Len(operators') = m + 5
        /\ \A i \in 1 .. m : operators'[i] = operators[i]
        /\ \A i \in 1 .. 5 : operators'[m + i] = list[i]
    <3> DEFINE u == operators \o list
    <3>1. /\ m \in Nat /\ Len(u) = m + Len(list)
          /\ \A i \in 1 .. m : u[i] = operators[i]
          /\ \A i \in 1 .. Len(list) : u[m + i] = list[i]
      <4>1. RawList(operators) /\ RawList(list)
        BY <2>1, <2>2
      <4> HIDE DEF end
      <4> QED
        BY <4>1, ConcatFacts
    <3>2. operators' = u
      BY <2>3
    <3> HIDE DEF u, m
    <3> QED
      BY <2>1, <3>1, <3>2
  <2>5. M' = m
    BY <2>4 DEF M
  <2>6. Opening(operators', m)
    BY <2>2, <2>4 DEF Opening
  <2>7. Ending(operators', m)
    BY <2>1, <2>4 DEF Ending
  <2> QED
    BY <2>2, <2>4, <2>5, <2>6, <2>7 DEF ListInv
<1>7. CASE Build
  BY <1>7, BuildWires
<1>8. CASE BuildFails
  BY <1>8 DEF BuildFails, ListInv
<1>9. CASE Emit \/ Process
  <2>1. UNCHANGED operators /\ phase \in {"ready", "flow"} /\ phase' = "flow"
    BY <1>9 DEF Emit, Process
  <2> QED
    BY <2>1 DEF ListInv, Wired, M
<1>10. CASE UNCHANGED vars
  BY <1>10 DEF vars, ListInv, Wired, M
<1> QED
  BY <1>1, <1>2, <1>3, <1>4, <1>5, <1>6, <1>7, <1>8, <1>9, <1>10 DEF Next

-----------------------------------------------------------------------------
(* The entry on its way. *)

Moved == {"source", "sourcetype", "index"}

\* An input sets the attributes its stanza gives, and the path of its file.
LEMMA OriginalFacts ==
  ASSUME Kind # "none"
  PROVE  Original = IF Kind = "monitor" THEN Put(Source.attributes, "source", Source.include)
                                         ELSE Source.attributes
<1>1. Kind \in {"script", "monitor", "tcp", "udp", "WinEventLog"}
  BY DEF Kind, createReceiver
<1>2. Source.attributes = Attributes(input.params)
  BY <1>1 DEF Source, InputConfig, scriptInput, monitorInput, listeningInput, winInput
<1>3. Metadata = DOMAIN Tags
  BY DEF Metadata, Tags
<1>4. Source.attributes
        = [n \in {x \in DOMAIN Tags : Has(input.params, x)} |-> Get(input.params, n)]
  BY <1>2, <1>3 DEF Attributes
<1> QED
  BY <1>4 DEF Original

\* What a move makes of an entry that has the attribute.
LEMMA MoveFacts ==
  ASSUME NEW o, NEW a, NEW b, o.does = "move", o.args = <<a, b>>, a # b, entry' \in Outcomes(o)
  PROVE  /\ a \notin DOMAIN entry => entry' = entry
         /\ a \in DOMAIN entry =>
              /\ DOMAIN entry' = (DOMAIN entry \ {a}) \cup {b}
              /\ entry'[b] = entry[a]
              /\ \A x \in DOMAIN entry : x \notin {a, b} => entry'[x] = entry[x]
<1>1. CASE a \notin DOMAIN entry
  BY <1>1 DEF Outcomes
<1>2. CASE a \in DOMAIN entry
  <2>1. entry' = Put(Without(entry, a), b, entry[a])
    <3>1. o.args[1] = a /\ o.args[2] = b
      OBVIOUS
    <3>2. Outcomes(o) = {Put(Without(entry, o.args[1]), o.args[2], entry[o.args[1]])}
      BY <1>2, <3>1 DEF Outcomes
    <3> QED
      BY <3>1, <3>2
  <2> DEFINE w == Without(entry, a)
  <2>2. DOMAIN w = DOMAIN entry \ {a} /\ \A x \in DOMAIN entry : x # a => w[x] = entry[x]
    BY DEF Without
  <2> HIDE DEF w
  <2>3. /\ DOMAIN entry' = DOMAIN w \cup {b} /\ entry'[b] = entry[a]
        /\ \A x \in DOMAIN w : x # b => entry'[x] = w[x]
    BY <2>1 DEF Put, w
  <2> QED
    BY <1>2, <2>2, <2>3
<1> QED
  BY <1>1, <1>2

\* What the stanza says depends on the files and the input only.
LEMMA SameOriginal ==
  ASSUME UNCHANGED read
  PROVE  UNCHANGED <<Original, Kind, Source>>
  BY DEF read, Original, Kind, Source

\* The move of an attribute maps it and leaves the others as they are.
LEMMA MoveMaps ==
  ASSUME NEW x \in Moved, NEW o, o.does = "move", o.args = <<x, Tags[x]>>,
         entry' \in Outcomes(o), UNCHANGED read, Pending(x)
  PROVE  /\ Mapped(x)'
         /\ \A y \in Moved \ {x} : (Pending(y) => Pending(y)') /\ (Mapped(y) => Mapped(y)')
<1>1. UNCHANGED Original
  BY SameOriginal
<1>2. /\ \A y, z \in Moved : Tags[y] # z
      /\ \A y, z \in Moved : Tags[y] = Tags[z] => y = z
  BY DEF Moved, Tags
<1>3. /\ x \notin DOMAIN entry => entry' = entry
      /\ x \in DOMAIN entry =>
           /\ DOMAIN entry' = (DOMAIN entry \ {x}) \cup {Tags[x]}
           /\ entry'[Tags[x]] = entry[x]
           /\ \A z \in DOMAIN entry : z \notin {x, Tags[x]} => entry'[z] = entry[z]
  BY <1>2, MoveFacts
<1>4. Mapped(x)'
  BY <1>1, <1>2, <1>3 DEF Pending, Mapped
<1>5. ASSUME NEW y \in Moved \ {x}
      PROVE  (Pending(y) => Pending(y)') /\ (Mapped(y) => Mapped(y)')
  <2>1. y \in Moved /\ y # x /\ y # Tags[x] /\ Tags[y] # x /\ Tags[y] # Tags[x]
    BY <1>2
  <2> QED
    BY <1>1, <1>3, <2>1 DEF Pending, Mapped
<1> QED
  BY <1>4, <1>5

\* An entry starts with its metadata under their first names.
LEMMA EmitTags == ASSUME RawInv, ListInv, Emit PROVE MetaInv'
<1>1. /\ M \in Nat /\ UNCHANGED <<M, at, Original, Kind, Source>> /\ at = 1 /\ Kind # "none"
  BY SameOriginal DEF RawInv, ListInv, Emit, M
<1>2. DOMAIN Source.attributes \subseteq DOMAIN Tags
  BY <1>1, AttributesDomain
<1>3. \A x \in Moved : x \in DOMAIN Tags /\ Tags[x] \notin DOMAIN Tags \cup FileAttributes
                      /\ x \notin FileAttributes
  BY DEF Moved, Tags, FileAttributes
<1>4. \A x \in Moved : (Kind = "monitor" /\ x = "source") \/ Pending(x)'
  <2> SUFFICES ASSUME NEW x \in Moved, ~(Kind = "monitor" /\ x = "source")
               PROVE  Pending(x)'
    OBVIOUS
  <2>1. CASE Kind # "monitor"
    <3>1. Original' = entry' /\ entry' = Source.attributes
      BY <1>1, <2>1, OriginalFacts DEF Emit
    <3> QED
      BY <1>2, <1>3, <3>1 DEF Pending
  <2>2. CASE Kind = "monitor"
    <3> DEFINE a == Source.attributes
               f == Put(a, "log.file.path", Source.include)
    <3>1. Original' = Put(a, "source", Source.include)
      BY <1>1, <2>2, OriginalFacts
    <3>2. entry' = Put(f, "log.file.name", "name")
      BY <2>2 DEF Emit
    <3>3. /\ DOMAIN f = DOMAIN a \cup {"log.file.path"}
          /\ \A n \in DOMAIN a : n # "log.file.path" => f[n] = a[n]
      BY DEF Put
    <3> HIDE DEF f
    <3>4. /\ DOMAIN entry' = DOMAIN f \cup {"log.file.name"}
          /\ \A n \in DOMAIN f : n # "log.file.name" => entry'[n] = f[n]
      BY <3>2 DEF Put
    <3>5. /\ DOMAIN Original' = DOMAIN a \cup {"source"}
          /\ \A n \in DOMAIN a : n # "source" => Original'[n] = a[n]
      BY <3>1 DEF Put
    <3> HIDE DEF a
    <3>6. x # "source" /\ x # "log.file.path" /\ x # "log.file.name"
          /\ Tags[x] \notin DOMAIN a \cup {"log.file.path", "log.file.name"}
      BY <1>2, <1>3, <2>2 DEF FileAttributes, a
    <3> QED
      BY <3>3, <3>4, <3>5, <3>6 DEF Pending
  <2> QED
    BY <2>1, <2>2
<1>5. Kind = "monitor" => Unread'
  <2> SUFFICES ASSUME Kind = "monitor" PROVE Unread'
    OBVIOUS
  <2> DEFINE a == Source.attributes
             f == Put(a, "log.file.path", Source.include)
  <2>1. entry' = Put(f, "log.file.name", "name")
    BY DEF Emit
  <2>2. /\ DOMAIN f = DOMAIN a \cup {"log.file.path"} /\ f["log.file.path"] = Source.include
    BY DEF Put
  <2> HIDE DEF f
  <2>3. /\ DOMAIN entry' = DOMAIN f \cup {"log.file.name"}
        /\ \A n \in DOMAIN f : n # "log.file.name" => entry'[n] = f[n]
    BY <2>1 DEF Put
  <2>4. Tags["source"] \notin DOMAIN a \cup {"log.file.path", "log.file.name"}
    BY <1>2, <1>3 DEF FileAttributes, Moved
  <2> QED
    BY <1>1, <2>2, <2>3, <2>4 DEF Unread
<1> QED
  BY <1>1, <1>4, <1>5 DEF MetaInv, Moved

\* An operator of the front: all is pending, and the source of a file is read.
LEMMA OpeningTags ==
  ASSUME RawInv, ListInv, MetaInv, Process, at \in 1 .. M
  PROVE  MetaInv'
<1>1. /\ UNCHANGED <<operators, read, M, Original, Kind, Source>>
      /\ M \in Nat /\ Wired /\ EntryInv /\ (Kind = "monitor" => Starts) /\ Kind # "none"
      /\ entry' \in Outcomes(operators[at]) /\ at' = Target(operators, at)
  BY SameOriginal DEF Process, read, M, RawInv, ListInv
<1>2. Len(operators) = M + 5 /\ DOMAIN operators = 1 .. M + 5
  BY <1>1, RawElement DEF M, RawInv
<1> DEFINE o == operators[at]
<1>3. at' \in at + 1 .. M + 1
  <2>1. PICK j \in at + 1 .. M + 1 : operators[at].out = {operators[j].id}
    BY <1>1 DEF Wired
  <2>2. at \in DOMAIN operators /\ j \in DOMAIN operators /\ at # End(operators)
    BY <1>1, <1>2 DEF End
  <2>3. Target(operators, at) = j
    BY <1>1, <2>1, <2>2, TargetIs DEF Wired
  <2> QED
    BY <1>1, <2>1, <2>3
<1>4. Pending("sourcetype") /\ Pending("index")
  BY <1>1 DEF MetaInv
<1>5. \/ o.does = "noop"
      \/ at = 1 /\ o.does = "move" /\ o.args = <<"log.file.path", "source">>
  BY <1>1 DEF Wired
<1>6. Pending("source")' /\ Pending("sourcetype")' /\ Pending("index")'
  <2>1. CASE o.does = "noop"
    <3>1. entry' = entry
      BY <1>1, <2>1 DEF Outcomes
    <3>2. ~(Kind = "monitor" /\ at = 1)
      BY <1>1, <2>1 DEF Starts
    <3>3. Pending("source")
      BY <1>1, <3>2 DEF MetaInv
    <3> QED
      BY <1>1, <1>4, <3>1, <3>3 DEF Pending
  <2>2. CASE at = 1 /\ o.does = "move" /\ o.args = <<"log.file.path", "source">>
    <3>1. /\ "log.file.path" \notin DOMAIN entry => entry' = entry
          /\ "log.file.path" \in DOMAIN entry =>
               /\ DOMAIN entry' = (DOMAIN entry \ {"log.file.path"}) \cup {"source"}
               /\ entry'["source"] = entry["log.file.path"]
               /\ \A x \in DOMAIN entry : x \notin {"log.file.path", "source"} => entry'[x] = entry[x]
      <4>1. entry' \in Outcomes(o) /\ o.does = "move" /\ o.args = <<"log.file.path", "source">>
        BY <1>1, <2>2
      <4> HIDE DEF o
      <4> QED
        BY <4>1, MoveFacts
    <3>2. CASE Kind # "monitor"
      <4>1. "log.file.path" \notin DOMAIN entry /\ Pending("source")
        BY <1>1, <3>2 DEF EntryInv, MetaInv
      <4> QED
        BY <1>1, <1>4, <3>1, <4>1 DEF Pending
    <3>3. CASE Kind = "monitor"
      <4>1. Unread
        BY <1>1, <2>2, <3>3 DEF MetaInv
      <4>2. "source" \in DOMAIN Original /\ Original["source"] = Source.include
        BY <1>1, <3>3, OriginalFacts DEF Put
      <4>3. Pending("source")'
        BY <1>1, <3>1, <4>1, <4>2 DEF Pending, Unread, Tags
      <4>4. ASSUME NEW x \in {"sourcetype", "index"} PROVE Pending(x)'
        <5>1. Pending(x) /\ x \notin {"log.file.path", "source"}
              /\ Tags[x] \notin {"log.file.path", "source"}
          BY <1>4 DEF Tags
        <5> QED
          BY <1>1, <3>1, <4>1, <5>1 DEF Pending, Unread
      <4> QED
        BY <4>3, <4>4
    <3> QED
      BY <3>2, <3>3
  <2> QED
    BY <1>5, <2>1, <2>2
<1> QED
  BY <1>1, <1>3, <1>6 DEF MetaInv

\* From "end" on, every operator leads to the one that maps the next attribute.
LEMMA EndingTags ==
  ASSUME RawInv, ListInv, MetaInv, Process, at \in {M + 1, M + 2, M + 3, M + 5}
  PROVE  MetaInv'
<1>1. /\ UNCHANGED <<operators, read, M, Original, Kind, Source>>
      /\ M \in Nat /\ Wired /\ (Kind = "monitor" => Starts)
      /\ entry' \in Outcomes(operators[at]) /\ at' = Target(operators, at)
  BY SameOriginal DEF Process, read, M, RawInv, ListInv
<1>2. Len(operators) = M + 5 /\ DOMAIN operators = 1 .. M + 5
  BY <1>1, RawElement DEF M, RawInv
<1>3. Ending(operators, M)
  BY <1>1 DEF Wired
<1>4. \A i, j \in DOMAIN operators :
          operators[i].out = {operators[j].id} => Target(operators, i) = j
  <2> SUFFICES ASSUME NEW i \in DOMAIN operators, NEW j \in DOMAIN operators,
                      operators[i].out = {operators[j].id}
               PROVE  Target(operators, i) = j
    OBVIOUS
  <2>1. i # End(operators)
    BY <1>1, <1>2 DEF End
  <2> QED
    BY <1>1, <2>1, TargetIs DEF Wired
<1>5. M + 1 \in DOMAIN operators /\ M + 2 \in DOMAIN operators
      /\ M + 3 \in DOMAIN operators /\ M + 5 \in DOMAIN operators
  BY <1>1, <1>2
<1>6. CASE at = M + 1
  <2>1. at' = M + 2
    BY <1>1, <1>3, <1>4, <1>5, <1>6 DEF Ending
  <2>2. entry' = entry /\ operators[at].does = "noop"
    BY <1>1, <1>3, <1>6 DEF Ending, Outcomes
  <2>3. ~(Kind = "monitor" /\ at = 1)
    BY <1>1, <2>2 DEF Starts
  <2>4. Pending("source") /\ Pending("sourcetype") /\ Pending("index")
    BY <1>1, <1>6, <2>3 DEF MetaInv
  <2>5. Pending("source")' /\ Pending("sourcetype")' /\ Pending("index")'
    BY <1>1, <2>2, <2>4 DEF Pending
  <2> QED
    BY <1>1, <2>1, <2>5 DEF MetaInv
<1>7. CASE at = M + 2
  <2>1. at' = M + 3
    BY <1>1, <1>3, <1>4, <1>5, <1>7 DEF Ending
  <2>2. operators[at].does = "move" /\ operators[at].args = <<"source", Tags["source"]>>
    BY <1>3, <1>7 DEF Ending, Tags
  <2>3. Pending("source") /\ Pending("sourcetype") /\ Pending("index")
    BY <1>1, <1>7 DEF MetaInv
  <2>4. Mapped("source")' /\ Pending("sourcetype")' /\ Pending("index")'
    BY <1>1, <2>2, <2>3, MoveMaps DEF Moved
  <2> QED
    BY <1>1, <2>1, <2>4 DEF MetaInv
<1>8. CASE at = M + 3
  <2>1. at' = M + 5
    BY <1>1, <1>3, <1>4, <1>5, <1>8 DEF Ending
  <2>2. operators[at].does = "move" /\ operators[at].args = <<"sourcetype", Tags["sourcetype"]>>
    BY <1>3, <1>8 DEF Ending, Tags
  <2>3. Mapped("source") /\ Pending("sourcetype") /\ Pending("index")
    BY <1>1, <1>8 DEF MetaInv
  <2>4. Mapped("source")' /\ Mapped("sourcetype")' /\ Pending("index")'
    BY <1>1, <2>2, <2>3, MoveMaps DEF Moved
  <2> QED
    BY <1>1, <2>1, <2>4 DEF MetaInv
<1>9. CASE at = M + 5
  <2>1. at' = M + 6
    BY <1>1, <1>2, <1>3, <1>9 DEF Ending, Target, End
  <2>2. operators[at].does = "move" /\ operators[at].args = <<"index", Tags["index"]>>
    BY <1>3, <1>9 DEF Ending, Tags
  <2>3. Mapped("source") /\ Mapped("sourcetype") /\ Pending("index")
    BY <1>1, <1>9 DEF MetaInv
  <2>4. Mapped("source")' /\ Mapped("sourcetype")' /\ Mapped("index")'
    BY <1>1, <2>2, <2>3, MoveMaps DEF Moved
  <2> QED
    BY <1>1, <2>1, <2>4 DEF MetaInv
<1> QED
  BY <1>6, <1>7, <1>8, <1>9

-----------------------------------------------------------------------------
RawMetaInv == RawInv /\ ListInv /\ (phase = "flow" => MetaInv)

\* Every step keeps what is said of the metadata.
LEMMA MetaStep == RawMetaInv /\ ~config.cook /\ [Next]_vars => RawMetaInv'
<1> SUFFICES ASSUME RawMetaInv, ~config.cook, [Next]_vars PROVE RawMetaInv'
  OBVIOUS
<1>1. RawInv' /\ ListInv'
  BY RawStep, ListStep DEF RawMetaInv
<1>2. CASE Emit
  BY <1>1, <1>2, EmitTags DEF RawMetaInv
<1>3. CASE Process
  <2>1. RawInv /\ ListInv /\ MetaInv /\ M \in Nat /\ at # End(operators)
    BY <1>3 DEF RawMetaInv, Process, ListInv
  <2>2. End(operators) = M + 6
    BY <2>1, RawElement DEF End, M, RawInv
  <2>3. at \in 1 .. M \/ at \in {M + 1, M + 2, M + 3, M + 5}
    BY <2>1, <2>2 DEF MetaInv
  <2> QED
    BY <1>1, <1>3, <2>1, <2>3, OpeningTags, EndingTags DEF RawMetaInv
<1>4. CASE UNCHANGED vars
  BY <1>1, <1>4 DEF RawMetaInv, MetaInv, Mapped, Pending, Unread, Original, M, vars, read, Kind, Source
<1>5. CASE ReadFiles \/ ReadFails \/ Create \/ createSetSourceOperator \/ AddProp \/ AddEnd
           \/ Build \/ BuildFails
  <2>1. phase' # "flow"
    BY <1>5 DEF ReadFiles, ReadFails, Create, createSetSourceOperator, AddProp, AddEnd, Build, BuildFails
  <2> QED
    BY <1>1, <2>1 DEF RawMetaInv
<1> QED
  BY <1>2, <1>3, <1>4, <1>5 DEF Next

\* Raw data is tagged with the source, the sourcetype and the index of its input
\* (MetadataMapped), for all conf files: whatever ids the props have, the way through the
\* operators that are accepted leads past the three that rename (renameMetadata).
THEOREM MetadataIsMapped == Spec => []MetadataMapped
<1>1. Init => (~config.cook => RawMetaInv)
  BY RawStart DEF Init, RawMetaInv, ListInv
<1>2. (~config.cook => RawMetaInv) /\ [Next]_vars => (~config.cook => RawMetaInv)'
  <2>1. [Next]_vars => UNCHANGED config
    BY DEF Next, vars, read, ReadFiles, ReadFails, Create, createSetSourceOperator, AddProp,
       AddEnd, Build, BuildFails, Emit, Process
  <2> QED
    BY <2>1, MetaStep
<1>3. (~config.cook => RawMetaInv) => MetadataMapped
  <2> SUFFICES ASSUME RawMetaInv, Delivered
               PROVE  \A x \in {"source", "sourcetype", "index"} : Mapped(x)
    BY DEF MetadataMapped
  <2>1. MetaInv /\ M \in Nat /\ at = M + 6
    BY RawElement DEF RawMetaInv, RawInv, ListInv, Delivered, End, M
  <2> QED
    BY <2>1 DEF MetaInv
<1> QED
  BY <1>1, <1>2, <1>3, PTL DEF Spec
=============================================================================
