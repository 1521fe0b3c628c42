-------------------------------- MODULE Conf --------------------------------
(***************************************************************************)
(* What internal/conf makes of a TA's conf files.                          *)
(* A file is what the ini library (external) gives: sections, the default  *)
(* section first, each with its keys in order; names do not repeat.  What  *)
(* the code takes apart is given in parts: the names of props.conf are     *)
(* <<prefix, rest>> or <<name>>, an alias expression is its words, a list  *)
(* of transforms the names between its commas.                             *)
(***************************************************************************)
EXTENDS Integers, Sequences, SequencesExt

CONSTANTS
    DefaultSection,  \* ini.DefaultSection
    Integer,         \* the texts that Key.Int accepts
    Boolean,         \* the texts that Key.Bool accepts
    Rank             \* the place of a prop's name among all names

\* All sections but the default one, which is the first.
Stanzas(file) == IF file[1].name = DefaultSection THEN Tail(file) ELSE file

\* section.Key(name).String(): the empty text where there is no such key.
Str(section, name) ==
    LET at == {i \in DOMAIN section.keys : section.keys[i].name = name}
    IN  IF at = {} THEN "" ELSE section.keys[CHOOSE i \in at : TRUE].value

Each(list, Op(_)) == [i \in DOMAIN list |-> Op(list[i])]

\* The elements of a list that are in a set, in their order.
Kept(list, set) == FlattenSeq(Each(list, LAMBDA x : IF x \in set THEN <<x>> ELSE <<>>))

\* The keys of a section whose names begin with a prefix.
Prefixed(section, prefix) ==
    Kept(section.keys, {key \in Range(section.keys) : Len(key.name) > 1 /\ key.name[1] = prefix})

-----------------------------------------------------------------------------
(* inputs.conf and transforms.conf *)

ReadInput(file) ==
    Each(Stanzas(file), LAMBDA section : [name |-> section.name, params |-> section.keys])

\* Whether the stanza sets a parameter, and the value it sets first.
Has(params, name) == \E i \in DOMAIN params : params[i].name = name

Get(params, name) ==
    params[CHOOSE i \in DOMAIN params :
             /\ params[i].name = name
             /\ \A j \in 1 .. i - 1 : params[j].name # name].value

ReadTransforms(file) ==
    Each(Stanzas(file),
         LAMBDA section : [name |-> section.name, regex |-> Str(section, "REGEX"),
                           format |-> Str(section, "FORMAT")])

-----------------------------------------------------------------------------
(* props.conf *)

Type(name) ==
    CASE Len(name) > 1 /\ name[1] = "source::" -> "source"
      [] Len(name) > 1 /\ name[1] = "host::" -> "host"
      [] name = <<"default">> -> "default"
      [] OTHER -> "sourcetype"

\* The stanzas of all keys TRANSFORMS-<class>, each a list.
readPropsTransforms(section) ==
    Each(Prefixed(section, "TRANSFORMS-"),
         LAMBDA key : [class |-> key.name, stanza |-> key.value])

\* "x as y" wherever it is found first; anything else names no fields.
parseFieldAliasExpr(words) ==
    LET found == {i \in 1 .. Len(words) - 2 : words[i + 1] = "as"}
        first == CHOOSE i \in found : \A j \in found : i <= j
    IN  IF found = {} THEN <<"", "">> ELSE <<words[first], words[first + 2]>>

readFieldAliases(section) ==
    Each(Prefixed(section, "FIELDALIAS-"),
         LAMBDA key : [name |-> key.name, from |-> parseFieldAliasExpr(key.value)[1],
                       to |-> parseFieldAliasExpr(key.value)[2]])

\* A value that does not parse fails the file, unless it is empty.
Malformed(section) ==
    \/ Str(section, <<"MAX_TIMESTAMP_LOOKAHEAD">>) \notin Integer \cup {""}
    \/ Str(section, <<"NO_BINARY_CHECK">>) \notin Boolean \cup {""}
    \/ Str(section, <<"SHOULD_LINEMERGE">>) \notin Boolean \cup {""}

PropsFail(file) == \E i \in DOMAIN Stanzas(file) : Malformed(Stanzas(file)[i])

TypeRank == [source |-> 0, host |-> 1, sourcetype |-> 2, default |-> 3]

\* Mutant: the order is that of the names alone.
LessByName(p, q) == Rank[p.name] < Rank[q.name]

Less(p, q) ==
    IF Type(p.name) = Type(q.name) THEN Rank[p.name] < Rank[q.name]
    ELSE TypeRank[Type(p.name)] < TypeRank[Type(q.name)]

\* sort.Slice: the n-th prop has n - 1 before it.
orderProps(list) ==
    [n \in DOMAIN list |->
        CHOOSE p \in Range(list) : Cardinality({q \in Range(list) : Less(q, p)}) = n - 1]

\* The settings that only ReadProps itself looks at are left out.
ReadProps(file) ==
    orderProps(Each(Stanzas(file),
        LAMBDA section : [name |-> section.name,
                          sourcetype |-> Str(section, <<"sourcetype">>),
                          aliases |-> readFieldAliases(section),
                          transforms |-> readPropsTransforms(section)]))
=============================================================================
