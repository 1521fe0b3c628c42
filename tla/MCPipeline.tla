----------------------------- MODULE MCPipeline -----------------------------
(* Small conf files for model checking Pipeline.                             *)
EXTENDS Pipeline

Section(name, keys) == [name |-> name, keys |-> keys]

Key(name, value) == [name |-> name, value |-> value]

\* A file, with its default section.
File(sections) == <<Section(DefaultSection, <<Key("host", "web")>>)>> \o sections

-----------------------------------------------------------------------------
(* inputs.conf *)

CONSTANT NoUrl    \* a name that does not parse, such as "script://.\bin\foo.bat"

Schemes == {"script", "SCRIPT", "", "monitor", "tcp", "udp", "WinEventLog", "http"}

LowerCase == [s \in Schemes |->
    CASE s = "WinEventLog" -> "wineventlog"
      [] s = "SCRIPT" -> "script"
      [] OTHER -> s]

Name(scheme, host, file) == [scheme |-> scheme, host |-> host, path |-> file]

Here == Relative(<<".">>)
Above == Relative(<<"..">>)

Foo(dir) == Absolute(dir \o <<"foo">>)

Script == Name("script", Here, Foo(<<"bin">>))
Modular == Name("", Nowhere, Relative(<<"foo">>))
Monitor == Name("monitor", Nowhere, Absolute(<<"log">>))
Tcp == Name("tcp", Relative(<<":514">>), Absolute(<<>>))
Udp == Name("udp", Relative(<<":514">>), Absolute(<<>>))

Value(n) == "the " \o n

Params(names) == [i \in DOMAIN names |-> Key(names[i], Value(names[i]))]

SomeParams ==
    {<<>>, <<"host", "sourcetype">>, <<"index", "source">>,
     <<"sourcetype", "host", "index", "interval", "source">>}

Lists == {<<Key("whitelist", Relative(<<"a">>))>>,
          <<Key("whitelist", Relative(<<"..", "a">>)), Key("blacklist", Relative(<<"a">>))>>,
          <<Key("blacklist", Relative(<<"a">>)), Key("whitelist", Relative(<<"a">>))>>}

Switched == {<<Key("disabled", "0")>>, <<Key("host", "web"), Key("disabled", "1")>>}

\* "[a" is no pattern, but is gone when a join cleans it away.
Broken == Relative(<<"[a">>)
BrokenPath == Name("monitor", Nowhere, Absolute(<<"[a", "..", "log">>))

\* Inputs with something wrong, and the same put right.
Wrong ==
    {Section(NoUrl, <<>>),
     Section(Name("tcp", Relative(<<"9995">>), Absolute(<<>>)), <<>>),
     Section(Name("udp", Nowhere, Absolute(<<>>)), <<>>),
     Section(Udp, <<>>),
     Section(Script, <<Key("host", "EXPR(")>>),
     Section(Udp, <<Key("disabled", "0"), Key("source", "EXPR(")>>),
     Section(Monitor, <<Key("whitelist", Broken)>>),
     Section(Monitor, <<Key("blacklist", Broken)>>),
     Section(BrokenPath, <<>>),
     Section(BrokenPath, <<Key("whitelist", Relative(<<"a">>))>>)}

\* Every kind of input with every set of metadata, inputs that are switched off, and
\* inputs that have no receiver or cannot be built.
Inputs ==
    {<<Section(Script, Params(ps)), Section(Monitor, Params(ps)), Section(Tcp, Params(ps))>> :
        ps \in SomeParams}
      \cup {<<Section(Monitor, list)>> : list \in Lists}
      \cup {<<Section(Modular, ps), Section(Name(s, Nowhere, Foo(<<>>)), <<>>)>> :
                ps \in Switched, s \in {"WinEventLog", "http"}}
      \cup {<<stanza>> : stanza \in Wrong}

\* Scripts in every place there is, seen from the base directory <<"ta">>.
Steps == {"..", "ta", "..foo", "bin"}

Places == {<<a>> : a \in Steps} \cup {<<a, b>> : a, b \in Steps}
             \cup {<<"..", a, b, c>> : a, b, c \in {"..", "ta", "home"}}

Scripts ==
    {Section(Name("script", h, Absolute(e)), <<>>) : h \in {Here, Above, Nowhere}, e \in Places}
      \cup {Section(Name("script", Nowhere, Absolute(<<"home">> \o e)), <<>>) : e \in Places}
      \cup {Section(Name("", Nowhere, Relative(e)), <<>>) : e \in Places}
      \cup {Section(Name("SCRIPT", Above, Absolute(e)), <<>>) : e \in Places}

-----------------------------------------------------------------------------
(* transforms.conf and props.conf *)

NamedGroups == [groups |-> {"src", "code"}, any |-> {}]

\* "gone" is not defined, "broken" and "plain" are not valid.
SomeTransforms ==
    File(<<Section("groups", <<Key("REGEX", "groups")>>),
           Section("format", <<Key("FORMAT", "body"), Key("REGEX", "any")>>),
           Section("broken", <<Key("FORMAT", "body")>>),
           Section("plain", <<Key("REGEX", "any")>>)>>)

Alpha == <<"alpha">>
Beta == <<"beta">>
Default == <<"default">>
Web == <<"host::", "web">>
Log == <<"source::", "log">>

Names == <<Alpha, Beta, Default, Web, Log>>

Order == [name \in {Names[i] : i \in DOMAIN Names} |->
            CHOOSE i \in DOMAIN Names : Names[i] = name]

Use(class, list) == Key(<<"TRANSFORMS-", class>>, list)
Alias(class, words) == Key(<<"FIELDALIAS-", class>>, words)

SrcAlias == Alias("src", <<"code", "as", "src">>)
KindAlias == Alias("kind", <<"the", "sourcetype", "as", "kind", "as", "such">>)
UserAlias == Alias("user", <<"src", "AS", "user">>)
Plain(name, value) == Key(<<name>>, value)

AlphaProps ==
    {Section(Alpha, keys) : keys \in
        {<<Use("a", <<"groups", "gone">>), SrcAlias, Use("b", <<"format">>), UserAlias>>,
         <<Use("a", <<"groups">>), Use("b", <<"format", "groups">>)>>,
         <<Use("a", <<"broken">>)>>, <<Use("a", <<"plain">>)>>,
         <<SrcAlias, KindAlias>>,
         <<Plain("sourcetype", "beta")>>}}

OtherProps ==
    {Section(Beta, <<Use("a", <<"groups">>), KindAlias>>),
     Section(Web, <<Use("a", <<"format">>), UserAlias>>),
     Section(Log, <<SrcAlias>>),
     Section(Default, <<Use("c", <<"format">>), KindAlias>>)}

Numbers ==
    {Section(Beta, <<Plain("SHOULD_LINEMERGE", "true"), Plain("MAX_TIMESTAMP_LOOKAHEAD", t)>>) :
        t \in {"", "32", "many"}}

Props ==
    {<<>>} \cup {<<p>> : p \in AlphaProps \cup OtherProps}
      \cup {<<p, q>> : p \in AlphaProps, q \in OtherProps \cup Numbers}
      \cup {<<p, q>> : p, q \in OtherProps}

SomeProps == {l \in Props : \A i, j \in DOMAIN l : i # j => l[i].name # l[j].name}

Integers32 == {"32"}
Booleans == {"true", "false"}
Home == <<"home">>
NamesOfFiles ==
    {"home", "ta", "bin", "foo", "..foo", "linux_amd64", "log", "a", "[a", ":514", "9995"}
DotNames == {"..foo"}
GoodAddresses == {Relative(<<":514">>)}

-----------------------------------------------------------------------------
Config(stanzas, list, gate, base) ==
    [inputs |-> File(stanzas), props |-> File(list), transforms |-> SomeTransforms,
     cook |-> gate, base |-> base]

Ta == Relative(<<"ta">>)

Bases == {Ta, Nowhere, Absolute(<<"home", "..", "home", ".", "ta">>), Relative(<<"..">>)}

\* Every list of inputs with every list of props, and every place of a script.
SomeConfigs ==
    {Config(list, ps, gate, Ta) : list \in Inputs, ps \in SomeProps, gate \in BOOLEAN}
      \cup {Config(<<stanza>>, <<>>, FALSE, base) : stanza \in Scripts, base \in Bases}
=============================================================================
