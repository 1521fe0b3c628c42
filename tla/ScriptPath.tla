----------------------------- MODULE ScriptPath -----------------------------
(***************************************************************************)
(* internal/script/command.go: the command of a stanza, which has to lie   *)
(* in the base directory of the TA.  A path is its elements and whether it *)
(* is absolute; Clean, Join, Abs and Rel are those of path/filepath        *)
(* (external).                                                             *)
(***************************************************************************)
EXTENDS Integers, Sequences, SequencesExt

CONSTANTS
    Files,   \* names of files and directories
    Cwd,     \* the elements of the working directory
    Binary,  \* the directory of binaries for this system, "linux_amd64"
    Dotted,  \* names other than ".." that begin with ".."
    Lower    \* a scheme in lower case, as url.Parse gives it

ASSUME PathAssumption ==
    /\ Files \cap {"", ".", ".."} = {}
    /\ Cwd \in Seq(Files)
    /\ {"bin", Binary} \cup Dotted \subseteq Files

Elements == Files \cup {"", ".", ".."}

Paths == [abs : BOOLEAN, elements : Seq(Elements)]

Relative(elements) == [abs |-> FALSE, elements |-> elements]
Absolute(elements) == [abs |-> TRUE, elements |-> elements]

Nowhere == Relative(<<>>)    \* the empty path

\* done is what the elements before have come to.
Added(abs, done, element) ==
    IF element \in {"", "."} THEN done
    ELSE IF element # ".." THEN Append(done, element)
    ELSE IF done = <<>> THEN IF abs THEN done ELSE <<"..">>
    ELSE IF Last(done) = ".." THEN Append(done, "..") ELSE Front(done)

Cleaned(abs, elements) ==
    LET done[n \in 0 .. Len(elements)] ==
            IF n = 0 THEN <<>> ELSE Added(abs, done[n - 1], elements[n])
    IN  done[Len(elements)]

Clean(path) == [path EXCEPT !.elements = Cleaned(path.abs, @)]

\* Empty paths are left out of a join.
Join(path, more) ==
    IF path = Nowhere THEN Clean(more)
    ELSE Clean([path EXCEPT !.elements = @ \o more.elements])

Abs(path) == IF path.abs THEN Clean(path) ELSE Join(Absolute(Cwd), path)

Rel(base, target) ==
    LET common == LongestCommonPrefix({base.elements, target.elements})
        up == [i \in 1 .. Len(base.elements) - Len(common) |-> ".."]
    IN  up \o SubSeq(target.elements, Len(common) + 1, Len(target.elements))

Accepted(path) == [ok |-> TRUE, path |-> path]
Rejected == [ok |-> FALSE, path |-> Nowhere]

\* Mutant: absolute paths are taken as they are.
GetPathTrusting(base, path) ==
    LET resolved == IF path.abs THEN path ELSE Abs(Join(base, path))
        rel == Rel(Abs(base), resolved)
    IN  IF ~path.abs /\ (rel = <<>> \/ Head(rel) \in {".."} \cup Dotted) THEN Rejected
        ELSE Accepted(resolved)

\* The test is for a relative path that begins with "..", be it a name or not.
GetPath(base, path) ==
    LET resolved == IF path.abs THEN path ELSE Abs(Join(base, path))
        rel == Rel(Abs(base), resolved)
    IN  IF rel = <<>> \/ Head(rel) \in {".."} \cup Dotted THEN Rejected
        ELSE Accepted(resolved)

\* What url.Parse makes of a stanza's name: a host is no absolute path (it is one element
\* or none), and what has no scheme is all path.
StanzaNames ==
    {name \in [scheme : DOMAIN Lower, host : Paths, path : Paths] :
        /\ ~name.host.abs
        /\ Lower[name.scheme] = "" => name.host = Nowhere}

DetermineCommandName(base, name) ==
    LET scheme == Lower[name.scheme]
    IN  CASE scheme = "monitor" -> Accepted(name.path)
          [] scheme = "script" -> GetPath(base, Join(name.host, name.path))
          [] scheme = "" -> GetPath(base, Join(Relative(<<"bin", Binary>>), name.path))
          [] OTHER -> Rejected

-----------------------------------------------------------------------------
(* What GetPath promises, by another definition. *)

Step(place, element) ==
    IF element \in {"", "."} THEN place
    ELSE IF element # ".." THEN Append(place, element)
    ELSE IF place = <<>> THEN place ELSE Front(place)

\* Where a path leads from a directory, one element after the other.
Walk(from, elements) ==
    LET place[n \in 0 .. Len(elements)] ==
            IF n = 0 THEN from ELSE Step(place[n - 1], elements[n])
    IN  place[Len(elements)]

BaseDir(base) == Walk(IF base.abs THEN <<>> ELSE Cwd, base.elements)

\* The file a script or a modular input names.
Named(base, name) ==
    LET elements == name.host.elements \o name.path.elements
    IN  CASE Lower[name.scheme] = "" -> Walk(BaseDir(base), <<"bin", Binary>> \o elements)
          [] Lower[name.scheme] = "script" /\ name.host = Nowhere /\ name.path.abs ->
                Walk(<<>>, elements)
          [] OTHER -> Walk(BaseDir(base), elements)

\* Below a directory, in no directory there whose name begins with dots.
Inside(from, place) == IsStrictPrefix(from, place) /\ place[Len(from) + 1] \notin Dotted
=============================================================================
