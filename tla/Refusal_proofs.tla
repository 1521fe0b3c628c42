--------------------------- MODULE Refusal_proofs ---------------------------
(***************************************************************************)
(* A proof about Pipeline for all conf files, with the gate open or shut:  *)
(* RefusedForCause.                                                        *)
(*                                                                         *)
(* The argument.  The list that BaseConfig makes leads forward: an output  *)
(* is the id of an operator further down.  Of such a list the library      *)
(* refuses what has an id twice or an operator that is misconfigured, and  *)
(* nothing else: a list with no id twice has no duplicate, none of its     *)
(* outputs is unknown, and an entry on its way comes nearer to the end at  *)
(* every hop (RefusedIs).  All operators but those of the receiver are of  *)
(* the props' chains (SpreadInv), and the ids of a chain have the name of  *)
(* its prop in them, except for the copies of aliases.  So an id is there  *)
(* twice if a prop names a transform twice or two props share an alias     *)
(* class (OwnApart), and an operator is misconfigured if it is a transform *)
(* that is invalid or the copy for a sourcetype: the flaws that Flawed     *)
(* lists (FlawIs).                                                         *)
(***************************************************************************)
EXTENDS Props_proofs

-----------------------------------------------------------------------------
(* The ids of a list of operators. *)

Faulty(list) == \E i \in DOMAIN list : Misconfigured(list[i])

\* Two lists in one: their ids, whether an id is there twice, and what is misconfigured.
LEMMA JoinedIs ==
  ASSUME NEW s, NEW t, IsList(s), IsList(t), NEW u, u = s \o t
  PROVE  /\ IsList(u) /\ Ids(u) = Ids(s) \cup Ids(t)
         /\ Unique(u) <=> Unique(s) /\ Unique(t) /\ Ids(s) \cap Ids(t) = {}
         /\ Faulty(u) <=> Faulty(s) \/ Faulty(t)
<1> DEFINE m == Len(s)
           n == Len(t)
<1>1. /\ m \in Nat /\ n \in Nat /\ IsList(u) /\ DOMAIN s = 1 .. m /\ DOMAIN t = 1 .. n
      /\ DOMAIN u = 1 .. m + n
      /\ \A i \in 1 .. m : u[i] = s[i]
      /\ \A i \in 1 .. n : u[m + i] = t[i]
  BY ListConcat, ListFacts
<1> HIDE DEF m, n
<1>2. \A i \in 1 .. m : i \in 1 .. m + n
  BY <1>1
<1>3. \A i \in 1 .. n : m + i \in 1 .. m + n
  BY <1>1
<1>4. ASSUME NEW i \in 1 .. m + n PROVE i \in 1 .. m \/ \E k \in 1 .. n : i = m + k
  <2>1. i \notin 1 .. m => i - m \in 1 .. n /\ i = m + (i - m)
    BY <1>1
  <2> QED
    BY <2>1
<1>5. Ids(u) = Ids(s) \cup Ids(t)
  <2>1. \A x \in Ids(u) : x \in Ids(s) \cup Ids(t)
    BY <1>1, <1>4 DEF Ids
  <2>2. \A x \in Ids(s) : x \in Ids(u)
    BY <1>1, <1>2 DEF Ids
  <2>3. ASSUME NEW x \in Ids(t) PROVE x \in Ids(u)
    <3>1. PICK i \in 1 .. n : x = t[i].id
      BY <1>1 DEF Ids
    <3>2. m + i \in DOMAIN u /\ u[m + i] = t[i]
      BY <1>1, <1>3
    <3> QED
      BY <3>1, <3>2 DEF Ids
  <2> QED
    BY <2>1, <2>2, <2>3
<1>6. ASSUME Unique(u) PROVE Unique(s) /\ Unique(t) /\ Ids(s) \cap Ids(t) = {}
  <2>1. Unique(s)
    BY <1>1, <1>2, <1>6 DEF Unique
  <2>2. ASSUME NEW i \in 1 .. n, NEW j \in 1 .. n, t[i].id = t[j].id PROVE i = j
    <3>1. u[m + i].id = u[m + j].id /\ m + i \in 1 .. m + n /\ m + j \in 1 .. m + n
      BY <1>1, <1>3, <2>2
    <3>2. m + i = m + j
      BY <1>1, <1>6, <3>1 DEF Unique
    <3> QED
      BY <1>1, <3>2
  <2>3. ASSUME NEW i \in 1 .. m, NEW j \in 1 .. n PROVE s[i].id # t[j].id
    <3>1. i # m + j /\ i \in 1 .. m + n /\ m + j \in 1 .. m + n
      BY <1>1
    <3>2. u[i].id # u[m + j].id
      BY <1>1, <1>6, <3>1 DEF Unique
    <3> QED
      BY <1>1, <3>2
  <2>4. Unique(t) /\ Ids(s) \cap Ids(t) = {}
    BY <1>1, <2>2, <2>3 DEF Unique, Ids
  <2> QED
    BY <2>1, <2>4
<1>7. ASSUME Unique(s), Unique(t), Ids(s) \cap Ids(t) = {} PROVE Unique(u)
  <2>1. \A i \in 1 .. m, j \in 1 .. n : s[i].id # t[j].id
    BY <1>1, <1>7 DEF Ids
  <2>2. ASSUME NEW i \in 1 .. m + n, NEW j \in 1 .. m + n, u[i].id = u[j].id PROVE i = j
    <3>1. CASE i \in 1 .. m /\ j \in 1 .. m
      BY <1>1, <1>7, <2>2, <3>1 DEF Unique
    <3>2. CASE i \in 1 .. m /\ j \notin 1 .. m
      <4>1. PICK l \in 1 .. n : j = m + l
        BY <1>4, <3>2
      <4> QED
        BY <1>1, <2>1, <2>2, <3>2, <4>1
    <3>3. CASE i \notin 1 .. m /\ j \in 1 .. m
      <4>1. PICK l \in 1 .. n : i = m + l
        BY <1>4, <3>3
      <4> QED
        BY <1>1, <2>1, <2>2, <3>3, <4>1
    <3>4. CASE i \notin 1 .. m /\ j \notin 1 .. m
      <4>1. PICK k \in 1 .. n : i = m + k
        BY <1>4, <3>4
      <4>2. PICK l \in 1 .. n : j = m + l
        BY <1>4, <3>4
      <4>3. t[k].id = t[l].id
        BY <1>1, <2>2, <4>1, <4>2
      <4>4. k = l
        BY <1>1, <1>7, <4>3 DEF Unique
      <4> QED
        BY <4>1, <4>2, <4>4
    <3> QED
      BY <3>1, <3>2, <3>3, <3>4
  <2> QED
    BY <1>1, <2>2 DEF Unique
<1>8. Faulty(u) <=> Faulty(s) \/ Faulty(t)
  <2>1. Faulty(u) => Faulty(s) \/ Faulty(t)
    BY <1>1, <1>4 DEF Faulty
  <2>2. Faulty(s) => Faulty(u)
    BY <1>1, <1>2 DEF Faulty
  <2>3. Faulty(t) => Faulty(u)
    BY <1>1, <1>3 DEF Faulty
  <2> QED
    BY <2>1, <2>2, <2>3
<1> QED
  BY <1>1, <1>5, <1>6, <1>7, <1>8

\* A list of one operator.
LEMMA OneIs ==
  ASSUME NEW o, NEW s, s = <<o>>
  PROVE  IsList(s) /\ Ids(s) = {o.id} /\ Unique(s) /\ (Faulty(s) <=> Misconfigured(o))
<1>1. IsList(s) /\ DOMAIN s = {1} /\ s[1] = o
  <2>1. IsList(s) /\ Len(s) = 1 /\ s[1] = o
    BY ListSingle
  <2>2. DOMAIN s = 1 .. 1
    BY <2>1, ListFacts
  <2> QED
    BY <2>1, <2>2
<1> QED
  BY ONLY <1>1 DEF Ids, Unique, Faulty

\* An empty list.
LEMMA NoneIs ==
  ASSUME NEW s, s = <<>>
  PROVE  IsList(s) /\ Ids(s) = {} /\ Unique(s) /\ ~Faulty(s)
<1>1. IsList(s) /\ DOMAIN s = {}
  BY ListEmpty
<1> QED
  BY ONLY <1>1 DEF Ids, Unique, Faulty

\* Lists that differ in the outputs only.
LEMMA OutputsAside ==
  ASSUME NEW s, NEW t, DOMAIN s = DOMAIN t,
         \A i \in DOMAIN s : s[i].id = t[i].id /\ s[i].does = t[i].does /\ s[i].args = t[i].args
  PROVE  Ids(s) = Ids(t) /\ (Unique(s) <=> Unique(t)) /\ (Faulty(s) <=> Faulty(t))
<1>1. \A i \in DOMAIN s : Misconfigured(s[i]) <=> Misconfigured(t[i])
  BY DEF Misconfigured
<1>2. Faulty(s) <=> Faulty(t)
  BY <1>1 DEF Faulty
<1>3. Unique(s) <=> Unique(t)
  BY DEF Unique
<1>4. Ids(s) = Ids(t)
  BY DEF Ids
<1> QED
  BY <1>2, <1>3, <1>4

-----------------------------------------------------------------------------
(* What the library refuses. *)

\* Every output is the id of an operator further down the list.
Forward(list) ==
    \A i \in DOMAIN list :
        list[i].out = {} \/ \E j \in i + 1 .. Len(list) : list[i].out = {list[j].id}

\* A list in which every id is there once has as many ids as operators.
LEMMA NotDuplicate == ASSUME NEW list, IsList(list), Unique(list) PROVE ~Duplicate(list)
<1>1. Len(list) \in Nat /\ DOMAIN list = 1 .. Len(list)
  BY ListFacts
<1> DEFINE S == 1 .. Len(list)
           f == [i \in S |-> list[i].id]
<1>2. IsFiniteSet(S) /\ Cardinality(S) = Len(list)
  <2>1. /\ IsFiniteSet(1 .. Len(list))
        /\ Cardinality(1 .. Len(list)) = IF 1 > Len(list) THEN 0 ELSE Len(list) - 1 + 1
    BY <1>1, 1 \in Int, Len(list) \in Int, FS_Interval
  <2> QED
    BY <1>1, <2>1
<1>3. f \in Surjection(S, Ids(list))
  BY <1>1 DEF Ids, Surjection
<1>4. f \in Injection(S, Ids(list))
  BY <1>1, <1>3 DEF Injection, IsInjective, Surjection, Unique
<1>5. Cardinality(Ids(list)) = Len(list)
  <2> HIDE DEF f, S
  <2> QED
    BY <1>2, <1>3, <1>4, FS_Surjection
<1> QED
  BY <1>1, <1>5 DEF Duplicate

\* An entry that goes on hopping comes to the end.
LEMMA NotCircular ==
  ASSUME NEW list, IsList(list), Unique(list), Forward(list)
  PROVE  ~Circular(list)
<1> DEFINE N == Len(list)
           E == End(list)
           S == 1 .. E
<1>1. N \in Nat /\ DOMAIN list = 1 .. N /\ E = N + 1
  BY ListFacts DEF End
<1>2. ASSUME NEW j \in S PROVE Target(list, j) \in S /\ (j # E => Target(list, j) > j) /\ (j = E => Target(list, j) = E)
  <2>1. CASE j = E
    BY <1>1, <2>1 DEF Target
  <2>2. CASE j # E /\ list[j].out = {}
    <3>1. Target(list, j) = E
      BY <2>2 DEF Target
    <3> QED
      BY <1>1, <2>2, <3>1
  <2>3. CASE j # E /\ list[j].out # {}
    <3>1. j \in DOMAIN list
      BY <1>1, <2>3
    <3>2. PICK k \in j + 1 .. N : list[j].out = {list[k].id}
      BY <2>3, <3>1 DEF Forward
    <3>3. k \in DOMAIN list /\ k \in S /\ k > j
      BY <1>1
    <3>4. Target(list, j) = k
      BY <2>3, <3>1, <3>2, <3>3, TargetIs DEF Unique
    <3> QED
      BY <2>3, <3>3, <3>4
  <2> QED
    BY <2>1, <2>2, <2>3
<1> DEFINE Is(i, f) == f = [n \in 0 .. N |-> IF n = 0 THEN i ELSE Target(list, f[n - 1])]
           Hop(i) == CHOOSE f : Is(i, f)
<1>3. Circular(list) => \E i \in DOMAIN list : Hop(i)[N] # E
  BY DEF Circular
<1> HIDE DEF N, E, S, Is, Hop
<1>4. ASSUME NEW i \in S PROVE Hop(i)[N] = E
  <2> DEFINE F == [n \in 1 .. N |-> [j \in S |-> Target(list, j)]]
  <2>1. F \in [1 .. N -> [S -> S]] /\ \A n \in 1 .. N : \A j \in S : F[n][j] = Target(list, j)
    BY <1>2
  <2> HIDE DEF F
  <2>2. PICK f : Recursive(S, i, N, F, f)
    BY <1>1, <2>1, Recursion
  <2>3. f \in [0 .. N -> S] /\ f[0] = i /\ \A n \in 1 .. N : f[n] = F[n][f[n - 1]]
    BY <2>2 DEF Recursive
  <2>4. ASSUME NEW n \in 1 .. N PROVE f[n] = Target(list, f[n - 1])
    <3>1. n - 1 \in 0 .. N
      BY <1>1
    <3> QED
      BY <2>1, <2>3, <3>1
  <2>5. Is(i, f)
    BY <1>1, <2>3, <2>4 DEF Is
  <2> DEFINE c == Hop(i)
  <2>6. Is(i, c)
    BY <2>5 DEF Hop
  <2> HIDE DEF c
  <2>7. c[0] = i /\ \A n \in 1 .. N : c[n] = Target(list, c[n - 1])
    <3>1. c = [n \in 0 .. N |-> IF n = 0 THEN i ELSE Target(list, c[n - 1])]
      BY <2>6 DEF Is
    <3>2. \A n \in 1 .. N : n \in 0 .. N /\ n # 0
      BY <1>1
    <3>3. 0 \in 0 .. N
      BY <1>1
    <3> QED
      BY <3>1, <3>2, <3>3
  <2> DEFINE P == {n \in Nat : n <= N => c[n] \in S /\ (c[n] = E \/ c[n] >= n + 1)}
  <2>8. 0 \in P
    BY <1>1, <2>7 DEF S
  <2>9. ASSUME NEW n \in Nat, n \in P PROVE n + 1 \in P
    <3> SUFFICES ASSUME n + 1 <= N
                 PROVE  c[n + 1] \in S /\ (c[n + 1] = E \/ c[n + 1] >= (n + 1) + 1)
      OBVIOUS
    <3>1. n + 1 \in 1 .. N /\ (n + 1) - 1 = n /\ n <= N
      BY <1>1
    <3>2. c[n + 1] = Target(list, c[n]) /\ c[n] \in S /\ (c[n] = E \/ c[n] >= n + 1)
      BY <2>7, <2>9, <3>1
    <3> DEFINE x == c[n]
               y == Target(list, x)
    <3>3. y \in S /\ (x # E => y > x) /\ (x = E => y = E) /\ x \in S /\ (x = E \/ x >= n + 1)
      BY <1>2, <3>2
    <3> HIDE DEF x, y
    <3>4. y \in S /\ (y = E \/ y >= (n + 1) + 1)
      BY <1>1, <3>3 DEF S
    <3> QED
      BY <3>2, <3>4 DEF x, y
  <2> HIDE DEF P
  <2>10. Nat \subseteq P
    BY <2>8, <2>9, Induction
  <2>11. c[N] \in S /\ (c[N] = E \/ c[N] >= N + 1)
    BY <1>1, <2>10 DEF P
  <2>12. c[N] = E
    BY <1>1, <2>11 DEF S
  <2> QED
    BY <2>12 DEF c
<1>5. \A i \in DOMAIN list : i \in S
  BY <1>1 DEF S
<1> QED
  BY <1>3, <1>4, <1>5

\* A list that leads forward is refused for an id that is there twice or for an operator
\* that is misconfigured.
LEMMA RefusedIs ==
  ASSUME NEW list, IsList(list), Forward(list)
  PROVE  Refused(list) <=> ~Unique(list) \/ Faulty(list)
<1>1. Len(list) \in Nat /\ DOMAIN list = 1 .. Len(list)
  BY ListFacts
<1>2. ~Dangling(list)
  <2> SUFFICES ASSUME NEW i \in DOMAIN list PROVE list[i].out \subseteq Ids(list)
    BY DEF Dangling
  <2>1. CASE list[i].out = {}
    BY <2>1
  <2>2. CASE list[i].out # {}
    <3>1. PICK j \in i + 1 .. Len(list) : list[i].out = {list[j].id}
      BY <2>2 DEF Forward
    <3>2. j \in DOMAIN list
      BY <1>1
    <3> QED
      BY <3>1, <3>2 DEF Ids
  <2> QED
    BY <2>1, <2>2
<1>3. ~Duplicate(list) => Unique(list)
  BY <1>1, Distinct DEF Unique
<1>4. Unique(list) => ~Duplicate(list) /\ ~Circular(list)
  BY NotDuplicate, NotCircular
<1>5. Refused(list) <=> Faulty(list) \/ Duplicate(list) \/ Dangling(list) \/ Circular(list)
  BY DEF Refused, Faulty
<1> QED
  BY <1>2, <1>3, <1>4, <1>5

-----------------------------------------------------------------------------
(* The ids of the operators of a prop. *)

\* What an id says of its operator.
Tag(id) == IF Len(id) = 3 /\ id[1] = "transforms" THEN "transforms" ELSE id[Len(id)]

\* The name of a prop.
IsName(name) ==
    \/ name = <<name[1]>>
    \/ name = <<name[1], name[2]>> /\ name[1] \in {"source::", "host::"}

\* A prop with the name of a prop, whose aliases have different classes.
IsTidy(p) ==
    /\ IsProp(p) /\ IsName(p.name)
    /\ \A i \in DOMAIN p.aliases : p.aliases[i].name = <<"FIELDALIAS-", p.aliases[i].name[2]>>
    /\ \A i, j \in DOMAIN p.aliases : p.aliases[i].name = p.aliases[j].name => i = j

\* One more word behind others.
LEMMA AppendIs ==
  ASSUME NEW s, IsList(s), NEW x
  PROVE  /\ Len(Append(s, x)) = Len(s) + 1 /\ Append(s, x)[Len(s) + 1] = x
         /\ Len(s) # 0 => Append(s, x)[1] = s[1]
<1> DEFINE S == Range(s) \cup {x}
<1>1. s \in Seq(S) /\ x \in S
  <2> DEFINE A == Range(s)
  <2>1. s \in Seq(A)
    BY DEF IsList
  <2> HIDE DEF A
  <2>2. s \in Seq(A \cup {x})
    BY <2>1
  <2> QED
    BY <2>2 DEF A
<1> HIDE DEF S
<1> QED
  BY <1>1

\* Different lists stay different when one word is put behind them.
LEMMA AppendApart ==
  ASSUME NEW s, NEW t, IsList(s), IsList(t), NEW x, Append(s, x) = Append(t, x)
  PROVE  s = t
<1> DEFINE S == Range(s) \cup Range(t) \cup {x}
<1>1. s \in Seq(S) /\ t \in Seq(S) /\ x \in S
  <2> DEFINE A == Range(s)
             B == Range(t)
  <2>1. s \in Seq(A) /\ t \in Seq(B)
    BY DEF IsList
  <2> HIDE DEF A, B
  <2>2. s \in Seq(A \cup B \cup {x}) /\ t \in Seq(A \cup B \cup {x})
    BY <2>1
  <2> QED
    BY <2>2 DEF A, B
<1> HIDE DEF S
<1> QED
  BY <1>1

\* A pair is a list.
LEMMA PairIs == ASSUME NEW a, NEW b PROVE IsList(<<a, b>>) /\ Len(<<a, b>>) = 2
<1> DEFINE two == <<a, b>>
<1>1. two \in Seq({a, b}) /\ Len(two) = 2
  OBVIOUS
<1> HIDE DEF two
<1>2. IsList(two)
  BY <1>1, SeqIsList
<1> QED
  BY <1>1, <1>2 DEF two

\* The id that a prop gives to an operator of its own.
LEMMA NameId ==
  ASSUME NEW name, IsName(name), NEW word, NEW id, id = Append(name, word)
  PROVE  IsList(name) /\ Len(id) \in {2, 3} /\ Tag(id) = word
<1>0. id = Append(name, word)
  OBVIOUS
<1>1. CASE name = <<name[1]>>
  <2>1. IsList(name) /\ Len(name) = 1
    BY <1>1, ListSingle
  <2>2. Len(id) = 2 /\ id[2] = word
    <3>1. /\ Len(id) = Len(name) + 1 /\ id[Len(name) + 1] = word
          /\ Len(name) # 0 => id[1] = name[1]
      BY ONLY <1>0, <2>1, AppendIs
    <3> QED
      BY ONLY <2>1, <3>1
  <2> QED
    BY <2>1, <2>2 DEF Tag
<1>2. CASE name = <<name[1], name[2]>> /\ name[1] \in {"source::", "host::"}
  <2>1. IsList(name) /\ Len(name) = 2
    BY <1>2, PairIs
  <2>2. Len(id) = 3 /\ id[3] = word /\ id[1] = name[1]
    <3>1. /\ Len(id) = Len(name) + 1 /\ id[Len(name) + 1] = word
          /\ Len(name) # 0 => id[1] = name[1]
      BY ONLY <1>0, <2>1, AppendIs
    <3> QED
      BY ONLY <2>1, <3>1
  <2>3. name[1] # "transforms"
    BY <1>2
  <2> QED
    BY <2>1, <2>2, <2>3 DEF Tag
<1> QED
  BY <1>1, <1>2 DEF IsName

\* The id of a transform.
LEMMA TransformId ==
  ASSUME NEW name, NEW t, NEW id, id = <<"transforms", name, t>>
  PROVE  Len(id) = 3 /\ Tag(id) = "transforms" /\ id[2] = name /\ id[3] = t
<1>1. Len(id) = 3 /\ id[1] = "transforms" /\ id[2] = name /\ id[3] = t
  OBVIOUS
<1> QED
  BY <1>1 DEF Tag

\* The id of the copy for an alias.
LEMMA AliasId ==
  ASSUME NEW class, NEW name, name = <<"FIELDALIAS-", class>>, NEW id, id = Append(name, "copy")
  PROVE  IsList(name) /\ Len(id) = 3 /\ Tag(id) = "copy"
<1>1. IsList(name) /\ Len(name) = 2
  BY PairIs
<1>2. name[1] = "FIELDALIAS-" /\ name[1] # "transforms"
  OBVIOUS
<1>3. Len(id) = 3 /\ id[3] = "copy" /\ id[1] = name[1]
  BY <1>1, AppendIs
<1> QED
  BY <1>1, <1>2, <1>3 DEF Tag

\* The ids of a prop's transforms and aliases.
TransformIds(p) == {<<"transforms", p.name, Used(p)[i]>> : i \in DOMAIN Used(p)}

CopyIds(p) == {Append(p.aliases[i].name, "copy") : i \in DOMAIN p.aliases}

\* A prop uses a transform that is invalid.
Invalid(p) ==
    \E i \in DOMAIN Used(p) :
        LET t == Definition(Used(p)[i]) IN ~Valid(t.regex, t.format)

\* The ids of an operator of a prop have these tags.
LEMMA TagsAre ==
  ASSUME NEW p, IsTidy(p)
  PROVE  /\ \A word : Len(Append(p.name, word)) \in {2, 3} /\ Tag(Append(p.name, word)) = word
         /\ \A id \in TransformIds(p) : Len(id) = 3 /\ Tag(id) = "transforms" /\ id[2] = p.name
         /\ \A id \in CopyIds(p) : Len(id) = 3 /\ Tag(id) = "copy"
<1>1. ASSUME NEW word PROVE Len(Append(p.name, word)) \in {2, 3} /\ Tag(Append(p.name, word)) = word
  BY NameId DEF IsTidy
<1>2. ASSUME NEW id \in TransformIds(p) PROVE Len(id) = 3 /\ Tag(id) = "transforms" /\ id[2] = p.name
  BY TransformId DEF TransformIds
<1>3. ASSUME NEW id \in CopyIds(p) PROVE Len(id) = 3 /\ Tag(id) = "copy"
  <2>1. PICK i \in DOMAIN p.aliases : id = Append(p.aliases[i].name, "copy")
    BY DEF CopyIds
  <2>2. p.aliases[i].name = <<"FIELDALIAS-", p.aliases[i].name[2]>>
    BY DEF IsTidy
  <2> QED
    BY <2>1, <2>2, AliasId
<1> QED
  BY <1>1, <1>2, <1>3

\* What is between the first and the last operator of a cooked prop with no sourcetype.
LEMMA CookedHas ==
  ASSUME config.cook, IsList(transforms), NEW p, IsTidy(p), p.sourcetype = "",
         NEW d, d = Cooked(p)
  PROVE  /\ IsList(d) /\ Ids(d) = TransformIds(p) \cup CopyIds(p)
         /\ Unique(d) <=> ~Doubled(Used(p))
         /\ Faulty(d) <=> Invalid(p)
<1> DEFINE used == Used(p)
           a == Transforms(p)
           b == FieldAliases(p)
           e == SourceType(p)
<1>1. IsProp(p)
  BY DEF IsTidy
<1>2. /\ IsList(used) /\ DOMAIN used = 1 .. Len(used)
      /\ \A i \in 1 .. Len(used) : Definition(used[i]).name = used[i]
  BY <1>1, UsedIs, ListFacts
<1>3. IsList(p.aliases)
  BY <1>1 DEF IsProp
<1>4. d = (a \o b) \o e
  BY DEF Cooked
<1>5. /\ IsList(a) /\ Ids(a) = TransformIds(p)
      /\ Unique(a) <=> ~Doubled(used)
      /\ Faulty(a) <=> Invalid(p)
  <2>1. a = [i \in DOMAIN used |-> Transform(p, Definition(used[i]))]
    BY DEF Transforms, Each
  <2>2. TransformIds(p) = {<<"transforms", p.name, used[i]>> : i \in DOMAIN used}
    BY DEF TransformIds
  <2>3. Invalid(p) <=> \E i \in DOMAIN used :
                          ~Valid(Definition(used[i]).regex, Definition(used[i]).format)
    BY DEF Invalid
  <2> HIDE DEF used, a
  <2>4. a = [i \in DOMAIN used |-> a[i]]
    BY <2>1
  <2>5. IsList(a) /\ DOMAIN a = DOMAIN used
    BY <1>2, <2>4, ListMapped
  <2>6. ASSUME NEW i \in DOMAIN used
        PROVE  /\ a[i].id = <<"transforms", p.name, used[i]>> /\ a[i].id[3] = used[i]
               /\ Misconfigured(a[i])
                    <=> ~Valid(Definition(used[i]).regex, Definition(used[i]).format)
    <3> DEFINE t == Definition(used[i])
               id == <<"transforms", p.name, t.name>>
               args == <<t.name, t.regex, t.format>>
    <3>1. a[i] = Operator(id, "transform", args) /\ t.name = used[i]
      BY <1>2, <2>1 DEF Transform
    <3>2. args[2] = t.regex /\ args[3] = t.format
      OBVIOUS
    <3>3. id = <<"transforms", p.name, used[i]>>
      BY <3>1
    <3>4. id[3] = used[i]
      BY <3>3, TransformId
    <3> HIDE DEF t, id, args
    <3>5. a[i].id = id /\ a[i].does = "transform" /\ a[i].args = args
      <4>1. a[i] = Operator(id, "transform", args)
        BY <3>1
      <4> QED
        BY ONLY <4>1, OperatorIs
    <3>6. Misconfigured(a[i]) <=> ~Valid(t.regex, t.format)
      BY <3>2, <3>5 DEF Misconfigured
    <3> QED
      BY <3>3, <3>4, <3>5, <3>6 DEF t
  <2>7. Ids(a) = TransformIds(p)
    <3> DEFINE F(i) == <<"transforms", p.name, used[i]>>
    <3>1. TransformIds(p) = {F(i) : i \in DOMAIN used} /\ \A i \in DOMAIN used : a[i].id = F(i)
      BY <2>2, <2>6
    <3> HIDE DEF F
    <3> QED
      BY <2>5, <3>1 DEF Ids
  <2>8. Unique(a) <=> ~Doubled(used)
    <3>1. \A i, j \in DOMAIN used : a[i].id = a[j].id <=> used[i] = used[j]
      BY <2>6
    <3> QED
      BY <2>5, <3>1 DEF Unique, Doubled
  <2>9. Faulty(a) <=> Invalid(p)
    BY <2>3, <2>5, <2>6 DEF Faulty
  <2> QED
    BY <2>5, <2>7, <2>8, <2>9
<1>6. IsList(b) /\ Ids(b) = CopyIds(p) /\ Unique(b) /\ ~Faulty(b)
  <2> DEFINE as == p.aliases
  <2>1. b = [i \in DOMAIN as |-> Copy(Append(as[i].name, "copy"), as[i].from, as[i].to)]
    BY DEF FieldAliases, Each
  <2>2. /\ \A i \in DOMAIN as : as[i].name = <<"FIELDALIAS-", as[i].name[2]>>
        /\ \A i, j \in DOMAIN as : as[i].name = as[j].name => i = j
    BY DEF IsTidy
  <2>3. CopyIds(p) = {Append(as[i].name, "copy") : i \in DOMAIN as} /\ IsList(as)
    BY <1>3 DEF CopyIds
  <2> HIDE DEF b, as
  <2>4. b = [i \in DOMAIN as |-> b[i]]
    BY <2>1
  <2>5. IsList(b) /\ DOMAIN b = DOMAIN as
    BY <2>3, <2>4, ListMapped
  <2>6. ASSUME NEW i \in DOMAIN as
        PROVE  b[i].id = Append(as[i].name, "copy") /\ ~Misconfigured(b[i])
    <3> DEFINE id == Append(as[i].name, "copy")
               args == <<as[i].from, as[i].to>>
    <3>1. b[i] = Operator(id, "copy", args)
      BY <2>1 DEF Copy
    <3>2. args # <<>>
      OBVIOUS
    <3> HIDE DEF id, args
    <3>3. b[i].id = id /\ b[i].does = "copy" /\ b[i].args = args
      BY ONLY <3>1, OperatorIs
    <3> QED
      BY <3>2, <3>3 DEF Misconfigured, id
  <2>7. ASSUME NEW i \in DOMAIN as, NEW j \in DOMAIN as, b[i].id = b[j].id PROVE i = j
    <3>1. IsList(as[i].name) /\ IsList(as[j].name)
      BY <2>2, AliasId
    <3>2. Append(as[i].name, "copy") = Append(as[j].name, "copy")
      BY <2>6, <2>7
    <3>3. as[i].name = as[j].name
      BY <3>1, <3>2, AppendApart
    <3> QED
      BY <2>2, <3>3
  <2>8. Ids(b) = CopyIds(p)
    <3> DEFINE F(i) == Append(as[i].name, "copy")
    <3>1. CopyIds(p) = {F(i) : i \in DOMAIN as} /\ \A i \in DOMAIN as : b[i].id = F(i)
      BY <2>3, <2>6
    <3> HIDE DEF F
    <3> QED
      BY <2>5, <3>1 DEF Ids
  <2>9. Unique(b)
    BY <2>5, <2>7 DEF Unique
  <2>10. ~Faulty(b)
    BY <2>5, <2>6 DEF Faulty
  <2> QED
    BY <2>5, <2>8, <2>9, <2>10
<1>7. e = <<>>
  BY DEF SourceType
<1>8. TransformIds(p) \cap CopyIds(p) = {}
  BY TagsAre
<1> HIDE DEF used, a, b, e
<1> DEFINE ab == a \o b
<1>9. /\ IsList(ab) /\ Ids(ab) = Ids(a) \cup Ids(b)
      /\ Unique(ab) <=> Unique(a) /\ Unique(b) /\ Ids(a) \cap Ids(b) = {}
      /\ Faulty(ab) <=> Faulty(a) \/ Faulty(b)
  BY <1>5, <1>6, JoinedIs
<1>10. d = ab \o e
  BY <1>4
<1> HIDE DEF ab
<1>11. IsList(e) /\ Ids(e) = {} /\ Unique(e) /\ ~Faulty(e)
  BY <1>7, NoneIs
<1>12. /\ IsList(d) /\ Ids(d) = Ids(ab) \cup Ids(e)
       /\ Unique(d) <=> Unique(ab) /\ Unique(e) /\ Ids(ab) \cap Ids(e) = {}
       /\ Faulty(d) <=> Faulty(ab) \/ Faulty(e)
  BY ONLY <1>9, <1>10, <1>11, JoinedIs
<1> QED
  BY <1>5, <1>6, <1>8, <1>9, <1>11, <1>12 DEF used

\* The ids between the first and the last one of a prop.
Middle(p) == IF config.cook THEN TransformIds(p) \cup CopyIds(p) ELSE {}

\* The chain of a prop, raw or cooked with no sourcetype.
LEMMA ChainHas ==
  ASSUME IsList(transforms), NEW p, IsTidy(p), config.cook => p.sourcetype = "",
         NEW c, c = CreateOperatorConfigs(p)
  PROVE  /\ Ids(c) = {Append(p.name, "start"), Append(p.name, "end")} \cup Middle(p)
         /\ Unique(c) <=> (config.cook => ~Doubled(Used(p)))
         /\ Faulty(c) <=> config.cook /\ Invalid(p)
<1> DEFINE d == Cooked(p)
           first == Append(p.name, "start")
           last == Append(p.name, "end")
           start == Noop(first)
           end == Noop(last)
           sd == <<start>> \o d
           chain == sd \o <<end>>
<1>1. c = Link(chain)
  BY DEF CreateOperatorConfigs
<1>2. IsOperators(d) /\ Ids(d) = Middle(p)
      /\ (Unique(d) <=> (config.cook => ~Doubled(Used(p))))
      /\ (Faulty(d) <=> config.cook /\ Invalid(p))
  <2>1. CASE config.cook
    <3>1. IsOperators(d)
      BY <2>1, CookedIs DEF IsTidy
    <3> QED
      BY <2>1, <3>1, CookedHas DEF Middle
  <2>2. CASE ~config.cook
    <3>1. d = <<>>
      BY <2>2 DEF Cooked
    <3> HIDE DEF d
    <3> QED
      BY <2>2, <3>1, OperatorsEmpty, NoneIs DEF Middle
  <2> QED
    BY <2>1, <2>2
<1>3. first # last /\ first \notin Middle(p) /\ last \notin Middle(p)
  <2>1. Tag(first) = "start" /\ Tag(last) = "end"
    BY TagsAre
  <2>2. \A id \in Middle(p) : Tag(id) \in {"transforms", "copy"}
    BY TagsAre DEF Middle
  <2> QED
    BY <2>1, <2>2
<1> HIDE DEF d, first, last
<1>4. /\ IsOperator(start) /\ start.id = first /\ ~Misconfigured(start)
      /\ IsOperator(end) /\ end.id = last /\ ~Misconfigured(end)
  <2>1. ASSUME NEW id, NEW o, o = Noop(id) PROVE IsOperator(o) /\ o.id = id /\ ~Misconfigured(o)
    <3>1. IsOperator(o) /\ o.id = id /\ o.does = "noop"
      <4> DEFINE none == <<>>
      <4>1. o = Operator(id, "noop", none)
        BY <2>1 DEF Noop
      <4> HIDE DEF none
      <4> QED
        BY ONLY <4>1, OperatorIs
    <3> QED
      BY <3>1 DEF Misconfigured
  <2> QED
    BY <2>1
<1> HIDE DEF start, end
<1> DEFINE s == <<start>>
           t == <<end>>
<1>5. /\ IsOperators(s) /\ IsList(s) /\ Ids(s) = {first} /\ Unique(s) /\ ~Faulty(s)
      /\ IsOperators(t) /\ IsList(t) /\ Ids(t) = {last} /\ Unique(t) /\ ~Faulty(t)
  BY <1>4, OperatorsSingle, OneIs
<1>6. sd = s \o d /\ chain = sd \o t /\ IsList(d)
  BY <1>2 DEF IsOperators
<1> HIDE DEF s, t, sd, chain
<1>7. /\ IsOperators(sd) /\ IsList(sd) /\ Ids(sd) = Ids(s) \cup Ids(d)
      /\ Unique(sd) <=> Unique(s) /\ Unique(d) /\ Ids(s) \cap Ids(d) = {}
      /\ Faulty(sd) <=> Faulty(s) \/ Faulty(d)
  BY <1>2, <1>5, <1>6, JoinedIs, OperatorsConcat
<1>8. /\ IsOperators(chain) /\ IsList(chain) /\ Ids(chain) = Ids(sd) \cup Ids(t)
      /\ Unique(chain) <=> Unique(sd) /\ Unique(t) /\ Ids(sd) \cap Ids(t) = {}
      /\ Faulty(chain) <=> Faulty(sd) \/ Faulty(t)
  BY <1>5, <1>6, <1>7, JoinedIs, OperatorsConcat
<1>9. Ids(c) = Ids(chain) /\ (Unique(c) <=> Unique(chain)) /\ (Faulty(c) <=> Faulty(chain))
  <2>1. /\ IsOperators(c) /\ Len(c) = Len(chain)
        /\ \A i \in 1 .. Len(c) :
              c[i].id = chain[i].id /\ c[i].does = chain[i].does /\ c[i].args = chain[i].args
    <3>1. IsOperators(chain)
      BY <1>8
    <3> QED
      BY ONLY <1>1, <3>1, LinkIs
  <2>2. DOMAIN c = 1 .. Len(c) /\ DOMAIN chain = 1 .. Len(c)
    BY <1>8, <2>1, ListFacts DEF IsOperators
  <2> QED
    BY <2>1, <2>2, OutputsAside
<1>10. Ids(c) = {first, last} \cup Middle(p)
  BY <1>2, <1>5, <1>7, <1>8, <1>9
<1>11. Unique(c) <=> Unique(d)
  BY <1>2, <1>3, <1>5, <1>7, <1>8, <1>9
<1>12. Faulty(c) <=> Faulty(d)
  BY <1>5, <1>7, <1>8, <1>9
<1> QED
  BY <1>2, <1>10, <1>11, <1>12 DEF first, last

\* All ids of a prop.
Own(p) == {Append(p.name, "start"), Append(p.name, "end")} \cup Middle(p)

\* Two props have an alias of the same class.
Shared(p, q) ==
    \E fa \in Range(p.aliases), fb \in Range(q.aliases) : fa.name = fb.name

\* Two props have an id in common if they are cooked and share an alias class.
LEMMA OwnApart ==
  ASSUME NEW p, NEW q, IsTidy(p), IsTidy(q), p.name # q.name
  PROVE  Own(p) \cap Own(q) = {} <=> (config.cook => ~Shared(p, q))
<1>1. IsList(p.name) /\ IsList(q.name)
  BY NameId DEF IsTidy
<1>2. ASSUME NEW word PROVE Append(p.name, word) # Append(q.name, word)
  BY <1>1, AppendApart
<1> DEFINE P == {Append(p.name, "start"), Append(p.name, "end")}
           Q == {Append(q.name, "start"), Append(q.name, "end")}
<1>3. /\ \A id \in P \cup Q : Tag(id) \in {"start", "end"}
      /\ \A id \in TransformIds(p) : Tag(id) = "transforms" /\ id[2] = p.name
      /\ \A id \in TransformIds(q) : Tag(id) = "transforms" /\ id[2] = q.name
      /\ \A id \in CopyIds(p) \cup CopyIds(q) : Tag(id) = "copy"
  BY TagsAre
<1>4. P \cap Q = {}
  <2>1. Append(p.name, "start") # Append(q.name, "end") /\ Append(p.name, "end") # Append(q.name, "start")
    <3>1. /\ Tag(Append(p.name, "start")) = "start" /\ Tag(Append(p.name, "end")) = "end"
          /\ Tag(Append(q.name, "start")) = "start" /\ Tag(Append(q.name, "end")) = "end"
      BY TagsAre
    <3> QED
      BY <3>1
  <2> QED
    BY <1>2, <2>1
<1> HIDE DEF P, Q
<1>5. CASE config.cook
  <2>1. Own(p) = P \cup TransformIds(p) \cup CopyIds(p) /\ Own(q) = Q \cup TransformIds(q) \cup CopyIds(q)
    BY <1>5 DEF Own, Middle, P, Q
  <2>2. Own(p) \cap Own(q) = CopyIds(p) \cap CopyIds(q)
    BY <1>3, <1>4, <2>1
  <2>3. ASSUME Shared(p, q) PROVE CopyIds(p) \cap CopyIds(q) # {}
    <3>1. PICK i \in DOMAIN p.aliases, j \in DOMAIN q.aliases : p.aliases[i].name = q.aliases[j].name
      BY <2>3 DEF Shared, Range
    <3>2. Append(p.aliases[i].name, "copy") \in CopyIds(p)
      BY DEF CopyIds
    <3>3. Append(q.aliases[j].name, "copy") \in CopyIds(q)
      BY DEF CopyIds
    <3> QED
      BY <3>1, <3>2, <3>3
  <2>4. ASSUME NEW id \in CopyIds(p), id \in CopyIds(q) PROVE Shared(p, q)
    <3>1. PICK i \in DOMAIN p.aliases : id = Append(p.aliases[i].name, "copy")
      BY DEF CopyIds
    <3>2. PICK j \in DOMAIN q.aliases : id = Append(q.aliases[j].name, "copy")
      BY <2>4 DEF CopyIds
    <3>3. IsList(p.aliases[i].name) /\ IsList(q.aliases[j].name)
      <4>1. p.aliases[i].name = <<"FIELDALIAS-", p.aliases[i].name[2]>>
        BY DEF IsTidy
      <4>2. q.aliases[j].name = <<"FIELDALIAS-", q.aliases[j].name[2]>>
        BY DEF IsTidy
      <4> QED
        BY <4>1, <4>2, AliasId
    <3>4. p.aliases[i].name = q.aliases[j].name
      BY <3>1, <3>2, <3>3, AppendApart
    <3> QED
      BY <3>4 DEF Shared, Range
  <2> QED
    BY <1>5, <2>2, <2>3, <2>4
<1>6. CASE ~config.cook
  BY <1>4, <1>6 DEF Own, Middle, P, Q
<1> QED
  BY <1>5, <1>6

\* The ids of the operators that belong to no prop.
Reserved ==
    {<<"start">>, <<"end">>, <<"end", "source">>, <<"end", "sourcetype">>, <<"end", "host">>,
     <<"end", "index">>}

\* No prop has the id of an operator that belongs to no prop.
LEMMA OwnReserved == ASSUME NEW p, IsTidy(p) PROVE Own(p) \cap Reserved = {}
<1>1. \A id \in Own(p) : Len(id) \in {2, 3} /\ Tag(id) \in {"start", "end", "transforms", "copy"}
  <2>1. ASSUME NEW word \in {"start", "end"}
        PROVE  /\ Len(Append(p.name, word)) \in {2, 3}
               /\ Tag(Append(p.name, word)) \in {"start", "end", "transforms", "copy"}
    BY <2>1, TagsAre
  <2>2. \A id \in Middle(p) : Len(id) \in {2, 3} /\ Tag(id) \in {"start", "end", "transforms", "copy"}
    BY TagsAre DEF Middle
  <2> QED
    BY <2>1, <2>2 DEF Own
<1>2. \A id \in Reserved : Len(id) = 1 \/ Tag(id) \in DOMAIN Tags
  BY DEF Reserved, Tag, Tags
<1>3. {"start", "end", "transforms", "copy"} \cap DOMAIN Tags = {}
  BY DEF Tags
<1> QED
  BY <1>1, <1>2, <1>3

-----------------------------------------------------------------------------
(* The props, and what is there once. *)

\* A list with one more element has an element twice if it had one before, or if it had
\* the new one.
LEMMA DoubledAppend ==
  ASSUME NEW E, NEW s \in Seq(E), NEW x \in E
  PROVE  /\ Range(Append(s, x)) = Range(s) \cup {x}
         /\ Doubled(Append(s, x)) <=> Doubled(s) \/ x \in Range(s)
<1> DEFINE n == Len(s)
           u == Append(s, x)
<1>1. /\ n \in Nat /\ DOMAIN s = 1 .. n /\ DOMAIN u = 1 .. n + 1
      /\ u[n + 1] = x /\ \A i \in 1 .. n : u[i] = s[i]
  OBVIOUS
<1> HIDE DEF n, u
<1>2. \A i : i \in 1 .. n + 1 <=> i \in 1 .. n \/ i = n + 1
  BY <1>1
<1>3. n + 1 \notin 1 .. n
  BY <1>1
<1>4. Range(u) = Range(s) \cup {x}
  BY <1>1, <1>2 DEF Range
<1>5. Doubled(s) => Doubled(u)
  BY <1>1, <1>2 DEF Doubled
<1>6. x \in Range(s) => Doubled(u)
  <2> SUFFICES ASSUME x \in Range(s) PROVE Doubled(u)
    OBVIOUS
  <2>1. PICK i \in 1 .. n : s[i] = x
    BY <1>1 DEF Range
  <2>2. i \in DOMAIN u /\ n + 1 \in DOMAIN u /\ i # n + 1 /\ u[i] = u[n + 1]
    BY <1>1, <1>2, <1>3, <2>1
  <2> QED
    BY <2>2 DEF Doubled
<1>7. ASSUME Doubled(u), x \notin Range(s) PROVE Doubled(s)
  <2>1. PICK i \in 1 .. n + 1, j \in 1 .. n + 1 : i # j /\ u[i] = u[j]
    BY <1>1, <1>7 DEF Doubled
  <2>2. \A k \in 1 .. n : u[k] # x
    BY <1>1, <1>7 DEF Range
  <2>3. i \in 1 .. n /\ j \in 1 .. n
    BY <1>1, <1>2, <2>1, <2>2
  <2>4. s[i] = s[j]
    BY <1>1, <2>1, <2>3
  <2> QED
    BY <1>1, <2>1, <2>3, <2>4 DEF Doubled
<1> QED
  BY <1>4, <1>5, <1>6, <1>7 DEF u

\* What is kept of a list in which nothing is there twice.
LEMMA KeptOnce ==
  ASSUME NEW E, NEW s \in Seq(E), NEW K, ~Doubled(s)
  PROVE  ~Doubled(Kept(s, K))
<1> DEFINE P == {t \in Seq(E) : ~Doubled(t) =>
                    ~Doubled(Kept(t, K)) /\ Range(Kept(t, K)) \subseteq Range(t)}
<1>1. <<>> \in P
  <2> DEFINE none == <<>>
  <2>1. none \in Seq(E) /\ DOMAIN none = {} /\ Kept(none, K) = none
    BY KeptNone
  <2> HIDE DEF none
  <2>2. none \in P
    BY <2>1 DEF Doubled, Range
  <2> QED
    BY <2>2 DEF none
<1>2. ASSUME NEW t \in Seq(E), NEW x \in E, t \in P PROVE Append(t, x) \in P
  <2> DEFINE u == Append(t, x)
             k == Kept(t, K)
  <2>1. u \in Seq(E) /\ k \in Seq(E)
    <3>1. k \in Seq(E \cap K)
      BY KeptType
    <3> HIDE DEF k
    <3>2. k \in Seq(E)
      BY <3>1
    <3> QED
      BY <3>2
  <2>2. Range(u) = Range(t) \cup {x} /\ (Doubled(u) <=> Doubled(t) \/ x \in Range(t))
    BY DoubledAppend
  <2>3. Range(Append(k, x)) = Range(k) \cup {x} /\ (Doubled(Append(k, x)) <=> Doubled(k) \/ x \in Range(k))
    <3> HIDE DEF k
    <3> QED
      BY <2>1, DoubledAppend
  <2>4. Kept(u, K) = IF x \in K THEN Append(k, x) ELSE k
    BY KeptAppend
  <2>5. ~Doubled(t) => ~Doubled(k) /\ Range(k) \subseteq Range(t)
    BY <1>2
  <2> HIDE DEF u, k
  <2>6. ~Doubled(u) => ~Doubled(Kept(u, K)) /\ Range(Kept(u, K)) \subseteq Range(u)
    BY <2>2, <2>3, <2>4, <2>5
  <2>7. u \in P
    BY <2>1, <2>6
  <2> QED
    BY <2>7 DEF u
<1> HIDE DEF P
<1>3. s \in P
  BY <1>1, <1>2, SequenceInduction
<1> QED
  BY <1>3 DEF P

\* The aliases of a section with different keys have different names.
LEMMA AliasesAre ==
  ASSUME NEW section, IsList(section.keys),
         \A m, n \in DOMAIN section.keys : m # n => section.keys[m].name # section.keys[n].name,
         \A key \in Range(Prefixed(section, "FIELDALIAS-")) : key.name = <<key.name[1], key.name[2]>>,
         NEW as, as = readFieldAliases(section)
  PROVE  /\ \A i \in DOMAIN as : as[i].name = <<"FIELDALIAS-", as[i].name[2]>>
         /\ \A i, j \in DOMAIN as : as[i].name = as[j].name => i = j
<1> DEFINE S == Range(section.keys)
           K == {key \in S : Len(key.name) > 1 /\ key.name[1] = "FIELDALIAS-"}
           keys == Prefixed(section, "FIELDALIAS-")
<1>1. section.keys \in Seq(S) /\ keys = Kept(section.keys, K)
  BY DEF IsList, Prefixed
<1>2. ~Doubled(section.keys)
  BY DEF Doubled
<1>3. \A x, y \in S : x.name = y.name => x = y
  BY DEF Range
<1>4. ~Doubled(keys) /\ keys \in Seq(S \cap K)
  <2> HIDE DEF K, S, keys
  <2> QED
    BY <1>1, <1>2, KeptOnce, KeptType
<1>5. \A i \in DOMAIN keys : keys[i] \in S /\ keys[i] \in K
  <2> HIDE DEF K, S, keys
  <2> QED
    BY <1>4
<1>6. \A i \in DOMAIN keys : keys[i].name[1] = "FIELDALIAS-"
  BY <1>5
<1>7. \A i \in DOMAIN keys : keys[i].name = <<keys[i].name[1], keys[i].name[2]>>
  BY DEF Range
<1>8. DOMAIN as = DOMAIN keys /\ \A i \in DOMAIN keys : as[i].name = keys[i].name
  BY DEF readFieldAliases, Each
<1> HIDE DEF keys, K, S
<1>9. ASSUME NEW i \in DOMAIN as PROVE as[i].name = <<"FIELDALIAS-", as[i].name[2]>>
  BY <1>6, <1>7, <1>8
<1>10. ASSUME NEW i \in DOMAIN as, NEW j \in DOMAIN as, as[i].name = as[j].name PROVE i = j
  <2>1. keys[i] = keys[j] /\ i \in DOMAIN keys /\ j \in DOMAIN keys
    BY <1>3, <1>5, <1>8, <1>10
  <2> QED
    BY <1>4, <2>1 DEF Doubled
<1> QED
  BY <1>9, <1>10

\* No prop is there twice once they are ordered.
LEMMA OrderOnce ==
  ASSUME NEW list, Ordered(list), NEW o, o = orderProps(list),
         NEW m \in DOMAIN list, NEW n \in DOMAIN list, o[m] = o[n]
  PROVE  m = n
<1> DEFINE S == Range(list)
<1>1. \A k \in DOMAIN list : Cardinality(Before(S, o[k])) = k - 1
  <2> SUFFICES ASSUME NEW k \in DOMAIN list PROVE Cardinality(Before(S, o[k])) = k - 1
    OBVIOUS
  <2>1. \E p \in S : Cardinality(Before(S, p)) = k - 1
    BY PlaceIs
  <2>2. o[k] = CHOOSE p \in S : Cardinality(Before(S, p)) = k - 1
    BY DEF orderProps, Before
  <2> HIDE DEF S
  <2> QED
    BY <2>1, <2>2
<1>2. m \in Int /\ n \in Int
  BY ListFacts DEF Ordered
<1>3. m - 1 = n - 1
  BY <1>1
<1> QED
  BY <1>2, <1>3

\* ReadProps gives tidy props, with different names.
LEMMA PropsTidy ==
  ASSUME NEW c \in Configs, NEW o, o = ReadProps(c.props)
  PROVE  /\ \A n \in 1 .. Len(o) : IsTidy(o[n])
         /\ \A m, n \in 1 .. Len(o) : o[m].name = o[n].name => m = n
<1> DEFINE s == Stanzas(c.props)
           Prop(section) == [name |-> section.name,
                             sourcetype |-> Str(section, <<"sourcetype">>),
                             aliases |-> readFieldAliases(section),
                             transforms |-> readPropsTransforms(section)]
           list == [i \in DOMAIN s |-> Prop(s[i])]
<1>1. WellFormed(c.props) /\ WellNamed(c.props)
  BY PipelineAssumption
<1>2. /\ IsList(s) /\ Len(s) = Len(c.props) - 1 /\ Len(s) \in Nat /\ DOMAIN s = 1 .. Len(s)
      /\ \A i \in 1 .. Len(s) : i + 1 \in 2 .. Len(c.props) /\ s[i] = c.props[i + 1]
  BY <1>1, StanzasAre, ListFacts
<1>3. o = orderProps(list)
  BY DEF ReadProps, Each
<1>4. \A section : Prop(section).name = section.name /\ Prop(section).aliases = readFieldAliases(section)
  OBVIOUS
<1> HIDE DEF s, Prop
<1>5. /\ IsList(list) /\ Len(list) = Len(s) /\ DOMAIN list = 1 .. Len(s)
      /\ \A i \in 1 .. Len(s) : list[i] = Prop(s[i])
  <2>1. list = [i \in DOMAIN s |-> list[i]]
    OBVIOUS
  <2>2. \A i \in 1 .. Len(s) : list[i] = Prop(s[i])
    BY <1>2
  <2> HIDE DEF list
  <2> QED
    BY <1>2, <2>1, <2>2, ListMapped, ListFacts
<1> HIDE DEF list
<1>6. ASSUME NEW i \in 1 .. Len(s)
      PROVE  /\ IsName(list[i].name)
             /\ \A k \in DOMAIN list[i].aliases :
                   list[i].aliases[k].name = <<"FIELDALIAS-", list[i].aliases[k].name[2]>>
             /\ \A k, l \in DOMAIN list[i].aliases :
                   list[i].aliases[k].name = list[i].aliases[l].name => k = l
  <2>1. i + 1 \in DOMAIN c.props /\ i + 1 \in 2 .. Len(c.props) /\ s[i] = c.props[i + 1]
    <3>1. IsList(c.props)
      BY <1>1 DEF WellFormed, IsList
    <3>2. DOMAIN c.props = 1 .. Len(c.props)
      BY <3>1, ListFacts
    <3> QED
      BY <1>2, <3>2
  <2>2. list[i].name = s[i].name /\ list[i].aliases = readFieldAliases(s[i])
    BY <1>4, <1>5
  <2>3. IsName(s[i].name)
    BY <1>1, <2>1 DEF WellNamed, IsName
  <2>4. /\ IsList(s[i].keys)
        /\ \A m, n \in DOMAIN s[i].keys : m # n => s[i].keys[m].name # s[i].keys[n].name
    BY <1>1, <2>1 DEF WellFormed, IsList
  <2>5. \A key \in Range(Prefixed(s[i], "FIELDALIAS-")) : key.name = <<key.name[1], key.name[2]>>
    BY <1>1, <2>1 DEF WellNamed
  <2> DEFINE as == list[i].aliases
             section == s[i]
  <2>6. as = readFieldAliases(section)
    BY <2>2
  <2> HIDE DEF as, section
  <2>7. /\ \A k \in DOMAIN as : as[k].name = <<"FIELDALIAS-", as[k].name[2]>>
        /\ \A k, l \in DOMAIN as : as[k].name = as[l].name => k = l
    BY <2>4, <2>5, <2>6, AliasesAre DEF section
  <2> QED
    BY <2>2, <2>3, <2>7 DEF as
<1>7. Ordered(list)
  <2>1. \A i \in 1 .. Len(s) : list[i].name = c.props[i + 1].name
    BY <1>2, <1>4, <1>5
  <2>2. \A i \in DOMAIN list : Rank[list[i].name] \in Int
    BY <1>1, <1>2, <1>5, <2>1 DEF WellNamed
  <2>3. ASSUME NEW i \in DOMAIN list, NEW j \in DOMAIN list, Rank[list[i].name] = Rank[list[j].name]
        PROVE  i = j
    <3>1. i + 1 \in 2 .. Len(c.props) /\ j + 1 \in 2 .. Len(c.props)
      BY <1>2, <1>5
    <3>2. i + 1 = j + 1
      BY <1>1, <1>5, <2>1, <2>3, <3>1 DEF WellNamed
    <3> QED
      BY <1>5, <3>2
  <2> QED
    BY <1>5, <2>2, <2>3 DEF Ordered
<1>8. /\ Len(o) = Len(list) /\ \A n \in 1 .. Len(o) : o[n] \in Range(list)
  BY <1>3, <1>7, OrderIs
<1>9. \A n \in 1 .. Len(o) : IsProp(o[n])
  BY PropsAre
<1>10. ASSUME NEW n \in 1 .. Len(o) PROVE IsTidy(o[n])
  <2>1. PICK i \in 1 .. Len(s) : o[n] = list[i]
    BY <1>5, <1>8 DEF Range
  <2> QED
    BY <1>6, <1>9, <2>1 DEF IsTidy
<1>11. ASSUME NEW m \in 1 .. Len(o), NEW n \in 1 .. Len(o), o[m].name = o[n].name PROVE m = n
  <2>1. PICK i \in DOMAIN list : o[m] = list[i]
    BY <1>8 DEF Range
  <2>2. PICK j \in DOMAIN list : o[n] = list[j]
    BY <1>8 DEF Range
  <2>3. i = j
    BY <1>7, <1>11, <2>1, <2>2 DEF Ordered
  <2>4. o[m] = o[n] /\ m \in DOMAIN list /\ n \in DOMAIN list
    BY <1>5, <1>8, <2>1, <2>2, <2>3
  <2> QED
    BY <1>3, <1>7, <2>4, OrderOnce
<1> QED
  BY <1>10, <1>11

-----------------------------------------------------------------------------
(* The list of operators. *)

\* The ids of n props are there once each.
Apart(chains, n) ==
    /\ \A j \in 1 .. n : Unique(chains[j])
    /\ \A j, l \in 1 .. n : j # l => Ids(chains[j]) \cap Ids(chains[l]) = {}

All(chains, n) == UNION {Ids(chains[j]) : j \in 1 .. n}

\* No prop has an id of an operator that belongs to no prop.
Proper(chains) == \A j \in DOMAIN chains : Ids(chains[j]) \cap Reserved = {}

\* An operator has no output yet, or leads to the one after it or to "end".
Onward(list) ==
    \A i \in 1 .. Len(list) :
        \/ list[i].out \in {{}, {<<"end">>}}
        \/ i < Len(list) /\ list[i].out = {list[i + 1].id}

\* What is wrong with a list is wrong with one of the first n props, or with two.
Sums(chains, list, n) ==
    /\ Faulty(list) <=> \E j \in 1 .. n : Faulty(chains[j])
    /\ Proper(chains) => (Unique(list) <=> Apart(chains, n))

Spread(chains, list, n) ==
    /\ Onward(list) /\ Sums(chains, list, n)
    /\ Ids(list) \in {All(chains, n), All(chains, n) \cup {<<"start">>}}

\* While the list grows, and when it is complete.
SpreadInv ==
    /\ phase = "list" => Spread(Chains, operators, next - 1)
    /\ phase = "build" => Forward(operators) /\ Sums(Chains, operators, Len(props))

\* Before the first prop.
LEMMA SpreadFirst ==
  ASSUME NEW chains, NEW list,
         list = <<>> \/ list = <<Move(<<"start">>, "log.file.path", "source")>>
  PROVE  Spread(chains, list, 0)
<1>1. \A j : j \notin 1 .. 0
  OBVIOUS
<1>2. All(chains, 0) = {} /\ Apart(chains, 0)
  BY <1>1 DEF All, Apart
<1>3. CASE list = <<>>
  <2>1. Ids(list) = {} /\ Unique(list) /\ ~Faulty(list) /\ Len(list) = 0
    BY <1>3, NoneIs, ListEmpty
  <2> QED
    BY <1>1, <1>2, <2>1 DEF Spread, Sums, Onward
<1>4. CASE list = <<Move(<<"start">>, "log.file.path", "source")>>
  <2> DEFINE id == <<"start">>
             args == <<"log.file.path", "source">>
             o == Operator(id, "move", args)
  <2>1. list = <<o>>
    BY <1>4 DEF Move
  <2> HIDE DEF id, args
  <2>2. o.id = id /\ o.does = "move" /\ o.out = {}
    BY OperatorIs
  <2> HIDE DEF o
  <2>3. ~Misconfigured(o)
    BY <2>2 DEF Misconfigured
  <2>4. Ids(list) = {id} /\ Unique(list) /\ ~Faulty(list) /\ Len(list) = 1 /\ list[1] = o
    BY <2>1, <2>2, <2>3, OneIs, ListSingle
  <2>5. Onward(list)
    BY <2>2, <2>4 DEF Onward
  <2> QED
    BY <1>1, <1>2, <2>4, <2>5 DEF Spread, Sums, id
<1> QED
  BY <1>3, <1>4

\* Two lists that lead onward make one.
LEMMA OnwardJoined ==
  ASSUME NEW s, NEW t, IsList(s), IsList(t), Onward(s), Onward(t), NEW u, u = s \o t
  PROVE  Onward(u)
<1> DEFINE m == Len(s)
           n == Len(t)
           l == Len(u)
<1>1. /\ m \in Nat /\ n \in Nat /\ l = m + n
      /\ \A i \in 1 .. m : u[i] = s[i]
      /\ \A i \in 1 .. n : u[m + i] = t[i]
  BY ListConcat, ListFacts
<1>2. /\ \A i \in 1 .. m : s[i].out \in {{}, {<<"end">>}} \/ (i < m /\ s[i].out = {s[i + 1].id})
      /\ \A i \in 1 .. n : t[i].out \in {{}, {<<"end">>}} \/ (i < n /\ t[i].out = {t[i + 1].id})
  BY DEF Onward
<1> HIDE DEF m, n, l
<1>3. ASSUME NEW i \in 1 .. l
      PROVE  u[i].out \in {{}, {<<"end">>}} \/ (i < l /\ u[i].out = {u[i + 1].id})
  <2>1. CASE i \in 1 .. m
    <3>1. i < m => u[i + 1] = s[i + 1]
      <4>1. i < m => i + 1 \in 1 .. m
        BY <1>1, <2>1
      <4> QED
        BY <1>1, <4>1
    <3>2. i < m => i < l
      BY <1>1, <2>1
    <3> QED
      BY <1>1, <1>2, <2>1, <3>1, <3>2
  <2>2. CASE i \notin 1 .. m
    <3>1. PICK k \in 1 .. n : i = m + k
      <4>1. i - m \in 1 .. n /\ i = m + (i - m)
        BY <1>1, <2>2
      <4> QED
        BY <4>1
    <3>2. k < n => i < l /\ k + 1 \in 1 .. n /\ i + 1 = m + (k + 1)
      BY <1>1, <3>1
    <3>3. u[i] = t[k] /\ (k < n => u[i + 1] = t[k + 1])
      BY <1>1, <3>1, <3>2
    <3> QED
      BY <1>2, <3>2, <3>3
  <2> QED
    BY <2>1, <2>2
<1> QED
  BY <1>3 DEF Onward, l

\* One more prop.
LEMMA SpreadGrows ==
  ASSUME NEW chains, NEW list, NEW n \in Nat, n + 1 \in DOMAIN chains,
         IsList(list), IsList(chains[n + 1]), Spread(chains, list, n), Onward(chains[n + 1]),
         NEW longer, longer = list \o chains[n + 1]
  PROVE  Spread(chains, longer, n + 1)
<1> DEFINE c == chains[n + 1]
<1>10. IsList(list) /\ IsList(c) /\ longer = list \o c
  OBVIOUS
<1> HIDE DEF c
<1>1. /\ IsList(longer) /\ Ids(longer) = Ids(list) \cup Ids(c)
      /\ Unique(longer) <=> Unique(list) /\ Unique(c) /\ Ids(list) \cap Ids(c) = {}
      /\ Faulty(longer) <=> Faulty(list) \/ Faulty(c)
  BY ONLY <1>10, JoinedIs
<1>2. Onward(longer)
  BY <1>10, OnwardJoined DEF Spread, c
<1>3. \A j : j \in 1 .. n + 1 <=> j \in 1 .. n \/ j = n + 1
  OBVIOUS
<1>4. n + 1 \notin 1 .. n
  OBVIOUS
<1>5. c = chains[n + 1] /\ n + 1 \in DOMAIN chains
  BY DEF c
<1>6. All(chains, n + 1) = All(chains, n) \cup Ids(c)
  BY <1>3, <1>5 DEF All
<1>7. Ids(longer) \in {All(chains, n + 1), All(chains, n + 1) \cup {<<"start">>}}
  BY <1>1, <1>6 DEF Spread
<1>8. Faulty(longer) <=> \E j \in 1 .. n + 1 : Faulty(chains[j])
  BY <1>1, <1>3, <1>5 DEF Spread, Sums
<1>9. ASSUME Proper(chains) PROVE Unique(longer) <=> Apart(chains, n + 1)
  <2>1. <<"start">> \notin Ids(c)
    BY <1>5, <1>9 DEF Proper, Reserved
  <2>2. Ids(list) \cap Ids(c) = {} <=> All(chains, n) \cap Ids(c) = {}
    BY <2>1 DEF Spread
  <2>3. All(chains, n) \cap Ids(c) = {} <=> \A j \in 1 .. n : Ids(chains[j]) \cap Ids(c) = {}
    BY DEF All
  <2>4. Apart(chains, n + 1)
          <=> Apart(chains, n) /\ Unique(c) /\ \A j \in 1 .. n : Ids(chains[j]) \cap Ids(c) = {}
    <3>1. ASSUME Apart(chains, n + 1)
          PROVE  Apart(chains, n) /\ Unique(c) /\ \A j \in 1 .. n : Ids(chains[j]) \cap Ids(c) = {}
      BY <1>3, <1>4, <1>5, <3>1 DEF Apart
    <3>2. ASSUME Apart(chains, n), Unique(c), \A j \in 1 .. n : Ids(chains[j]) \cap Ids(c) = {}
          PROVE  Apart(chains, n + 1)
      BY <1>3, <1>5, <3>2 DEF Apart
    <3> QED
      BY <3>1, <3>2
  <2>5. Unique(list) <=> Apart(chains, n)
    BY <1>9 DEF Spread, Sums
  <2> QED
    BY <1>1, <2>2, <2>3, <2>4, <2>5
<1> QED
  BY <1>2, <1>7, <1>8, <1>9 DEF Spread, Sums

\* The five operators at the end of the list.
LEMMA TailIs ==
  ASSUME NEW t, t = <<To(Noop(<<"end">>), <<"end", "source">>)>> \o renameMetadata
  PROVE  /\ IsOperators(t) /\ Len(t) = 5 /\ t[1].id = <<"end">> /\ Forward(t)
         /\ Ids(t) \subseteq Reserved \ {<<"start">>} /\ Unique(t) /\ ~Faulty(t)
<1>1. IsOperators(t) /\ Len(t) = 5 /\ Ending(t, 0)
  BY RawEnding, RawOperators
<1>2. t[4].id = <<"end", "host">> /\ t[4].does = "move" /\ t[4].out = {}
  <2> DEFINE one == <<To(Noop(<<"end">>), <<"end", "source">>)>>
             rest == renameMetadata
  <2>1. IsList(one) /\ Len(one) = 1 /\ IsList(rest) /\ t = one \o rest
    BY ListSingle, RawIsList, RawRename
  <2>2. /\ rest[3].id = <<"end", "host">> /\ rest[3].does = "move" /\ rest[3].out = {}
        /\ Len(rest) = 4
    BY DEF renameMetadata, Move, Operator
  <2> HIDE DEF one, rest
  <2>3. \A i \in 1 .. Len(rest) : t[Len(one) + i] = rest[i]
    <3>1. IsList(one) /\ IsList(rest)
      BY <2>1
    <3>2. \A i \in 1 .. Len(rest) : (one \o rest)[Len(one) + i] = rest[i]
      BY ONLY <3>1, ListConcat
    <3> QED
      BY ONLY <2>1, <3>2
  <2>4. t[4] = rest[3]
    <3>1. 3 \in 1 .. Len(rest) /\ Len(one) + 3 = 4
      BY <2>1, <2>2
    <3> QED
      BY <2>3, <3>1
  <2> QED
    BY <2>2, <2>4
<1>3. /\ t[1].id = <<"end">> /\ t[2].id = <<"end", "source">> /\ t[3].id = <<"end", "sourcetype">>
      /\ t[4].id = <<"end", "host">> /\ t[5].id = <<"end", "index">>
  BY <1>1, <1>2 DEF Ending
<1>4. /\ t[1].out = {<<"end", "source">>} /\ t[2].out = {<<"end", "sourcetype">>}
      /\ t[3].out = {<<"end", "index">>} /\ t[4].out = {} /\ t[5].out = {}
  BY <1>1, <1>2 DEF Ending
<1>5. /\ t[1].does = "noop" /\ t[2].does = "move" /\ t[3].does = "move"
      /\ t[4].does = "move" /\ t[5].does = "move"
  BY <1>1, <1>2 DEF Ending
<1>6. DOMAIN t = 1 .. 5 /\ \A i \in DOMAIN t : i = 1 \/ i = 2 \/ i = 3 \/ i = 4 \/ i = 5
  <2>1. DOMAIN t = 1 .. 5
    BY <1>1, ListFacts DEF IsOperators
  <2> QED
    BY <2>1
<1>7. ASSUME NEW x PROVE Tag(<<x>>) = x /\ Tag(<<"end", x>>) = x
  <2>1. Len(<<x>>) = 1 /\ <<x>>[1] = x /\ Len(<<"end", x>>) = 2 /\ <<"end", x>>[2] = x
    OBVIOUS
  <2> QED
    BY <2>1 DEF Tag
<1>8. /\ Tag(t[1].id) = "end" /\ Tag(t[2].id) = "source" /\ Tag(t[3].id) = "sourcetype"
       /\ Tag(t[4].id) = "host" /\ Tag(t[5].id) = "index"
  BY <1>3, <1>7
<1>9. Unique(t)
  <2> DEFINE g == [i \in DOMAIN t |-> Tag(t[i].id)]
  <2>1. \A i \in DOMAIN t : g[i] = Tag(t[i].id)
    OBVIOUS
  <2>2. 1 \in DOMAIN t /\ 2 \in DOMAIN t /\ 3 \in DOMAIN t /\ 4 \in DOMAIN t /\ 5 \in DOMAIN t
    BY <1>6
  <2>3. /\ g[1] = "end" /\ g[2] = "source" /\ g[3] = "sourcetype" /\ g[4] = "host"
        /\ g[5] = "index"
    BY <1>8, <2>1, <2>2
  <2> HIDE DEF g
  <2>4. ASSUME NEW i \in DOMAIN t, NEW j \in DOMAIN t, g[i] = g[j] PROVE i = j
    BY ONLY <1>6, <2>3, <2>4
  <2>5. ASSUME NEW i \in DOMAIN t, NEW j \in DOMAIN t, t[i].id = t[j].id PROVE i = j
    BY ONLY <2>1, <2>4, <2>5
  <2> QED
    BY ONLY <2>5 DEF Unique
<1>10. ~Faulty(t)
  BY <1>5, <1>6 DEF Faulty, Misconfigured
<1>11. Ids(t) \subseteq Reserved \ {<<"start">>}
  <2>1. \A i \in DOMAIN t : t[i].id \in Reserved
    BY <1>3, <1>6 DEF Reserved
  <2>2. \A i \in DOMAIN t : t[i].id # <<"start">>
    <3> DEFINE start == <<"start">>
    <3>1. Tag(start) = "start"
      BY <1>7
    <3> HIDE DEF start
    <3>2. \A i \in DOMAIN t : t[i].id # start
      BY <1>6, <1>8, <3>1
    <3> QED
      BY <3>2 DEF start
  <2> QED
    BY <2>1, <2>2 DEF Ids
<1>12. Forward(t)
  <2>1. /\ t[1].out = {t[2].id} /\ t[2].out = {t[3].id} /\ t[3].out = {t[5].id}
        /\ t[4].out = {} /\ t[5].out = {}
    BY <1>3, <1>4
  <2>2. 2 \in 1 + 1 .. 5 /\ 3 \in 2 + 1 .. 5 /\ 5 \in 3 + 1 .. 5
    OBVIOUS
  <2>3. ASSUME NEW i \in DOMAIN t
        PROVE  t[i].out = {} \/ \E j \in i + 1 .. 5 : t[i].out = {t[j].id}
    BY <1>6, <2>1, <2>2
  <2> QED
    BY <1>1, <2>3 DEF Forward
<1> QED
  BY <1>1, <1>3, <1>9, <1>10, <1>11, <1>12

\* A list that leads onward, with one behind it that begins with "end".
LEMMA ForwardJoined ==
  ASSUME NEW s, NEW t, IsList(s), IsList(t), Onward(s), Forward(t),
         Len(t) = 5, t[1].id = <<"end">>, NEW u, u = s \o t
  PROVE  Forward(u)
<1> DEFINE m == Len(s)
           l == Len(u)
<1>1. /\ m \in Nat /\ l = m + 5 /\ DOMAIN u = 1 .. m + 5 /\ DOMAIN t = 1 .. 5
      /\ \A i \in 1 .. m : u[i] = s[i]
      /\ \A i \in 1 .. 5 : u[m + i] = t[i]
  <2> DEFINE n == Len(t)
  <2>1. IsList(s) /\ IsList(t) /\ u = s \o t
    OBVIOUS
  <2>2. /\ IsList(u) /\ l = m + n
        /\ \A i \in 1 .. m : u[i] = s[i]
        /\ \A i \in 1 .. n : u[m + i] = t[i]
    BY ONLY <2>1, ListConcat
  <2>3. m \in Nat /\ DOMAIN u = 1 .. l /\ DOMAIN t = 1 .. n /\ n = 5
    BY <2>2, ListFacts
  <2> HIDE DEF m, l, n
  <2> QED
    BY <2>2, <2>3
<1>2. \A i \in 1 .. m : s[i].out \in {{}, {<<"end">>}} \/ (i < m /\ s[i].out = {s[i + 1].id})
  BY DEF Onward
<1>3. \A i \in 1 .. 5 : t[i].out = {} \/ \E j \in i + 1 .. 5 : t[i].out = {t[j].id}
  BY <1>1 DEF Forward
<1> HIDE DEF m, l
<1>4. ASSUME NEW i \in 1 .. m + 5
      PROVE  u[i].out = {} \/ \E j \in i + 1 .. l : u[i].out = {u[j].id}
  <2>1. CASE i \in 1 .. m
    <3>1. u[i] = s[i]
      BY <1>1, <2>1
    <3>2. CASE s[i].out = {}
      BY <3>1, <3>2
    <3>3. CASE s[i].out = {<<"end">>}
      <4>1. 1 \in 1 .. 5 /\ u[m + 1] = t[1]
        BY <1>1
      <4>2. m + 1 \in i + 1 .. l
        BY <1>1, <2>1
      <4> QED
        BY <3>1, <3>3, <4>1, <4>2
    <3>4. CASE i < m /\ s[i].out = {s[i + 1].id}
      <4>1. i + 1 \in 1 .. m /\ i + 1 \in i + 1 .. l
        BY <1>1, <2>1, <3>4
      <4>2. u[i + 1] = s[i + 1]
        BY <1>1, <4>1
      <4> QED
        BY <3>1, <3>4, <4>1, <4>2
    <3> QED
      BY <1>2, <2>1, <3>2, <3>3, <3>4
  <2>2. CASE i \notin 1 .. m
    <3>1. PICK k \in 1 .. 5 : i = m + k
      <4>1. i - m \in 1 .. 5 /\ i = m + (i - m)
        BY <1>1, <2>2
      <4> QED
        BY <4>1
    <3>2. u[i] = t[k]
      BY <1>1, <3>1
    <3>3. CASE t[k].out = {}
      BY <3>2, <3>3
    <3>4. CASE t[k].out # {}
      <4>1. PICK j \in k + 1 .. 5 : t[k].out = {t[j].id}
        BY <1>3, <3>4
      <4>2. j \in 1 .. 5 /\ m + j \in i + 1 .. l
        BY <1>1, <3>1
      <4>3. u[m + j] = t[j]
        BY <1>1, <4>2
      <4> QED
        BY <3>2, <4>1, <4>2, <4>3
    <3> QED
      BY <3>3, <3>4
  <2> QED
    BY <2>1, <2>2
<1> QED
  BY <1>1, <1>4 DEF Forward, l

\* The list with its end.
LEMMA SpreadEnds ==
  ASSUME NEW chains, NEW list, NEW n \in Nat, DOMAIN chains = 1 .. n, IsList(list),
         Spread(chains, list, n),
         NEW t, IsList(t), Len(t) = 5, t[1].id = <<"end">>, Forward(t),
         Ids(t) \subseteq Reserved \ {<<"start">>}, Unique(t), ~Faulty(t),
         NEW longer, longer = list \o t
  PROVE  Forward(longer) /\ Sums(chains, longer, n)
<1>1. /\ Unique(longer) <=> Unique(list) /\ Unique(t) /\ Ids(list) \cap Ids(t) = {}
      /\ Faulty(longer) <=> Faulty(list) \/ Faulty(t)
  BY JoinedIs
<1>2. Forward(longer)
  BY ForwardJoined DEF Spread
<1>3. ASSUME Proper(chains) PROVE Ids(list) \cap Ids(t) = {}
  <2>1. All(chains, n) \cap Reserved = {}
    BY <1>3 DEF All, Proper
  <2> QED
    BY <2>1 DEF Spread
<1> QED
  BY <1>1, <1>2, <1>3 DEF Spread, Sums
\* The chain of a prop leads onward.
LEMMA ChainOnward ==
  ASSUME config \in Configs, FileInv, phase \notin {"read", "failed"}, NEW j \in 1 .. Len(props)
  PROVE  IsList(Chains[j]) /\ Onward(Chains[j])
<1> DEFINE c == Chains[j]
<1>1. /\ IsOperators(c) /\ Len(c) \in Nat
      /\ \A i \in 1 .. Len(c) : c[i].out = {IF i = Len(c) THEN <<"end">> ELSE c[i + 1].id}
  BY ChainFacts
<1> HIDE DEF c
<1>2. Onward(c)
  BY <1>1 DEF Onward
<1>3. IsList(c)
  BY <1>1 DEF IsOperators
<1> QED
  BY <1>2, <1>3 DEF c

\* The first operator is listed, or none.
LEMMA SpreadLead ==
  ASSUME config \in Configs, FileInv, LaidInv, createSetSourceOperator
  PROVE  SpreadInv'
<1>1. phase' = "list" /\ next' = 1
  BY DEF createSetSourceOperator, LaidInv
<1>2. operators' = <<>> \/ operators' = <<Move(<<"start">>, "log.file.path", "source")>>
  BY DEF createSetSourceOperator
<1> DEFINE chains == Chains'
           list == operators'
<1>3. list = <<>> \/ list = <<Move(<<"start">>, "log.file.path", "source")>>
  BY <1>2
<1> HIDE DEF chains, list
<1>4. Spread(chains, list, 0)
  BY ONLY <1>3, SpreadFirst
<1>5. next' - 1 = 0
  BY <1>1
<1> QED
  BY <1>1, <1>4, <1>5 DEF SpreadInv, chains, list

\* The next prop is listed.
LEMMA SpreadProp ==
  ASSUME config \in Configs, FileInv, LaidInv, SpreadInv, AddProp
  PROVE  SpreadInv'
<1>1. /\ phase = "list" /\ phase' = "list" /\ next' = next + 1 /\ UNCHANGED read
      /\ next \in DOMAIN props /\ operators' = operators \o CreateOperatorConfigs(props[next])
  BY DEF AddProp
<1>2. DOMAIN props = 1 .. Len(props) /\ Len(props) \in Nat
  BY FileFacts
<1>3. next \in 1 .. Len(props)
  BY <1>1, <1>2
<1>4. Chains' = Chains
  BY <1>1, SameChains
<1>5. operators' = operators \o Chains[next] /\ DOMAIN Chains = 1 .. Len(props)
  BY <1>1, <1>2, <1>3 DEF Chains
<1>6. IsList(Chains[next]) /\ Onward(Chains[next])
  BY <1>1, <1>3, ChainOnward
<1>7. IsList(operators)
  BY DEF LaidInv, IsOperators
<1>8. Spread(Chains, operators, next - 1)
  BY <1>1 DEF SpreadInv
<1> DEFINE chains == Chains
           list == operators
           longer == operators'
           n == next - 1
<1>9. n \in Nat /\ n + 1 = next
  BY <1>2, <1>3
<1>10. n + 1 \in DOMAIN chains
  BY <1>3, <1>5, <1>9
<1>11. longer = list \o chains[n + 1] /\ IsList(chains[n + 1]) /\ Onward(chains[n + 1])
  BY <1>5, <1>6, <1>9
<1> HIDE DEF chains, list, longer, n
<1>12. IsList(list) /\ Spread(chains, list, n)
  BY <1>7, <1>8 DEF list, chains, n
<1>13. Spread(chains, longer, n + 1)
  BY ONLY <1>9, <1>10, <1>11, <1>12, SpreadGrows
<1>14. next' - 1 = n + 1
  BY <1>1, <1>2, <1>3, <1>9
<1> QED
  BY <1>1, <1>4, <1>13, <1>14 DEF SpreadInv, chains, longer

\* The operators of the receiver are put behind the last prop.
LEMMA SpreadEnd ==
  ASSUME config \in Configs, FileInv, LaidInv, SpreadInv, AddEnd
  PROVE  SpreadInv'
<1> DEFINE one == <<To(Noop(<<"end">>), <<"end", "source">>)>>
           t == one \o renameMetadata
<1>1. /\ phase = "list" /\ phase' = "build" /\ next \notin DOMAIN props /\ UNCHANGED read
      /\ operators' = operators \o one \o renameMetadata
  BY DEF AddEnd
<1>2. DOMAIN props = 1 .. Len(props) /\ Len(props) \in Nat
  BY FileFacts
<1>3. next = Len(props) + 1
  BY <1>1, <1>2 DEF LaidInv
<1>4. Chains' = Chains /\ props' = props /\ DOMAIN Chains = 1 .. Len(props)
  BY <1>1, <1>2, SameChains DEF read, Chains
<1>5. /\ IsOperators(t) /\ Len(t) = 5 /\ t[1].id = <<"end">> /\ Forward(t)
      /\ Ids(t) \subseteq Reserved \ {<<"start">>} /\ Unique(t) /\ ~Faulty(t)
  BY TailIs
<1>6. IsList(one) /\ IsList(renameMetadata) /\ IsList(operators)
  BY ListSingle, RawIsList, RawRename DEF LaidInv, IsOperators
<1>7. operators' = operators \o t
  <2> DEFINE rest == renameMetadata
             list == operators
  <2>1. IsList(list) /\ IsList(one) /\ IsList(rest)
    BY <1>6
  <2> HIDE DEF one, rest, list
  <2>2. (list \o one) \o rest = list \o (one \o rest)
    BY ONLY <2>1, ListAssoc
  <2> QED
    BY <1>1, <2>2 DEF rest, list
<1> HIDE DEF one, t
<1>8. Spread(Chains, operators, Len(props))
  <2>1. next - 1 = Len(props)
    BY <1>2, <1>3
  <2> QED
    BY <1>1, <2>1 DEF SpreadInv
<1> DEFINE chains == Chains
           list == operators
           longer == operators'
           n == Len(props)
<1>9. /\ n \in Nat /\ DOMAIN chains = 1 .. n /\ IsList(list) /\ Spread(chains, list, n)
      /\ longer = list \o t
  BY <1>2, <1>4, <1>6, <1>7, <1>8
<1>10. IsList(t)
  BY <1>5 DEF IsOperators
<1> HIDE DEF chains, list, longer, n
<1>11. Forward(longer) /\ Sums(chains, longer, n)
  BY ONLY <1>5, <1>9, <1>10, SpreadEnds
<1> QED
  BY <1>1, <1>4, <1>11 DEF SpreadInv, chains, longer, n

\* Every step keeps what is known of the list.
LEMMA SpreadStep ==
  ASSUME config \in Configs, FileInv, LaidInv, SpreadInv, [Next]_vars
  PROVE  SpreadInv'
<1>1. CASE createSetSourceOperator
  BY <1>1, SpreadLead
<1>2. CASE AddProp
  BY <1>2, SpreadProp
<1>3. CASE AddEnd
  BY <1>3, SpreadEnd
<1>4. CASE ReadFiles \/ ReadFails \/ Create \/ Build \/ BuildFails \/ Emit \/ Process
  <2>1. phase' \notin {"list", "build"}
    BY <1>4 DEF ReadFiles, ReadFails, Create, Build, BuildFails, Emit, Process
  <2> QED
    BY <2>1 DEF SpreadInv
<1>5. CASE UNCHANGED vars
  <2>1. UNCHANGED <<phase, next, operators, props>> /\ UNCHANGED read
    BY <1>5 DEF vars, read
  <2>2. Chains' = Chains
    BY <2>1, SameChains
  <2> QED
    BY <2>1, <2>2 DEF SpreadInv
<1> QED
  BY <1>1, <1>2, <1>3, <1>4, <1>5 DEF Next
-----------------------------------------------------------------------------
(* What is built and what is refused. *)

\* What Flawed says of the props.
LEMMA FlawedIs ==
  Flawed <=> \/ \E i \in DOMAIN props : props[i].sourcetype # ""
             \/ \E i \in DOMAIN props : Doubled(Used(props[i]))
             \/ \E i \in DOMAIN props : Invalid(props[i])
             \/ \E i, j \in DOMAIN props : i # j /\ Shared(props[i], props[j])
BY DEF Flawed, Invalid, Shared

\* A prop with a sourcetype is misconfigured when it is cooked.
LEMMA SourceTypeFaulty ==
  ASSUME config \in Configs, FileInv, phase \notin {"read", "failed"}, config.cook,
         NEW j \in 1 .. Len(props), props[j].sourcetype # ""
  PROVE  Faulty(Chains[j])
<1> DEFINE p == props[j]
           c == CreateOperatorConfigs(p)
           s == Settings(p)
<1>1. IsList(transforms) /\ IsProp(p) /\ DOMAIN props = 1 .. Len(props)
  BY FileFacts
<1>2. Chains[j] = c
  BY <1>1 DEF Chains
<1>3. p.sourcetype # "" /\ c = CreateOperatorConfigs(p) /\ s = Settings(p)
  OBVIOUS
<1> HIDE DEF p, c, s
<1>4. /\ IsOperators(c) /\ Len(c) \in Nat
      /\ config.cook /\ p.sourcetype # "" => \E i \in 1 .. Len(c) : Misconfigured(c[i])
  BY <1>1, <1>3, ChainIs
<1>5. DOMAIN c = 1 .. Len(c)
  BY <1>4, ListFacts DEF IsOperators
<1>6. Faulty(c)
  BY <1>3, <1>4, <1>5 DEF Faulty
<1> QED
  BY <1>2, <1>6

\* The chains of props that are raw, or have no sourcetype.
LEMMA ChainsHave ==
  ASSUME config \in Configs, FileInv, phase \notin {"read", "failed"},
         config.cook => \A j \in 1 .. Len(props) : props[j].sourcetype = ""
  PROVE  /\ \A j \in 1 .. Len(props) :
               /\ IsTidy(props[j]) /\ Ids(Chains[j]) = Own(props[j])
               /\ Unique(Chains[j]) <=> (config.cook => ~Doubled(Used(props[j])))
               /\ Faulty(Chains[j]) <=> config.cook /\ Invalid(props[j])
         /\ \A i, j \in 1 .. Len(props) : i # j =>
               (Ids(Chains[i]) \cap Ids(Chains[j]) = {}
                  <=> (config.cook => ~Shared(props[i], props[j])))
<1>1. IsList(transforms) /\ DOMAIN props = 1 .. Len(props) /\ props = ReadProps(config.props)
  BY FileFacts DEF FileInv
<1>2. /\ \A n \in 1 .. Len(props) : IsTidy(props[n])
      /\ \A m, n \in 1 .. Len(props) : props[m].name = props[n].name => m = n
  <2> DEFINE c == config
             o == props
  <2>1. c \in Configs /\ o = ReadProps(c.props)
    BY <1>1
  <2> HIDE DEF c, o
  <2>2. /\ \A n \in 1 .. Len(o) : IsTidy(o[n])
        /\ \A m, n \in 1 .. Len(o) : o[m].name = o[n].name => m = n
    BY ONLY <2>1, PropsTidy
  <2> QED
    BY <2>2 DEF o
<1>3. ASSUME NEW j \in 1 .. Len(props)
      PROVE  /\ IsTidy(props[j]) /\ Ids(Chains[j]) = Own(props[j])
             /\ Unique(Chains[j]) <=> (config.cook => ~Doubled(Used(props[j])))
             /\ Faulty(Chains[j]) <=> config.cook /\ Invalid(props[j])
  <2> DEFINE p == props[j]
             c == CreateOperatorConfigs(p)
  <2>1. Chains[j] = c
    BY <1>1 DEF Chains
  <2>2. IsTidy(p) /\ (config.cook => p.sourcetype = "") /\ c = CreateOperatorConfigs(p)
    BY <1>2
  <2> HIDE DEF p, c
  <2>3. /\ Ids(c) = {Append(p.name, "start"), Append(p.name, "end")} \cup Middle(p)
        /\ Unique(c) <=> (config.cook => ~Doubled(Used(p)))
        /\ Faulty(c) <=> config.cook /\ Invalid(p)
    BY <1>1, <2>2, ChainHas
  <2>4. Ids(c) = Own(p)
    BY <2>3 DEF Own
  <2> QED
    BY <2>1, <2>2, <2>3, <2>4 DEF p
<1>4. ASSUME NEW i \in 1 .. Len(props), NEW j \in 1 .. Len(props), i # j
      PROVE  Ids(Chains[i]) \cap Ids(Chains[j]) = {}
                <=> (config.cook => ~Shared(props[i], props[j]))
  <2> DEFINE p == props[i]
             q == props[j]
  <2>1. IsTidy(p) /\ IsTidy(q) /\ p.name # q.name
    BY <1>2, <1>4
  <2>2. Ids(Chains[i]) = Own(p) /\ Ids(Chains[j]) = Own(q)
    BY <1>3
  <2> HIDE DEF p, q
  <2>3. Own(p) \cap Own(q) = {} <=> (config.cook => ~Shared(p, q))
    BY <2>1, OwnApart
  <2> QED
    BY <2>2, <2>3 DEF p, q
<1> QED
  BY <1>3, <1>4

\* The complete list has an id twice, or an operator that is misconfigured, if and only
\* if its props are cooked and flawed.
LEMMA FlawIs ==
  ASSUME config \in Configs, FileInv, phase = "build", SpreadInv
  PROVE  ~Unique(operators) \/ Faulty(operators) <=> config.cook /\ Flawed
<1>1. DOMAIN props = 1 .. Len(props) /\ DOMAIN Chains = 1 .. Len(props)
  BY FileFacts DEF Chains
<1>2. Sums(Chains, operators, Len(props))
  BY DEF SpreadInv
<1>3. Faulty(operators) <=> \E j \in 1 .. Len(props) : Faulty(Chains[j])
  BY <1>2 DEF Sums
<1>4. CASE config.cook /\ \E j \in 1 .. Len(props) : props[j].sourcetype # ""
  <2>1. \E j \in 1 .. Len(props) : Faulty(Chains[j])
    BY <1>4, SourceTypeFaulty
  <2>2. Flawed
    BY <1>1, <1>4, FlawedIs
  <2> QED
    BY <1>3, <1>4, <2>1, <2>2
<1>5. CASE config.cook => \A j \in 1 .. Len(props) : props[j].sourcetype = ""
  <2>1. /\ \A j \in 1 .. Len(props) :
               /\ IsTidy(props[j]) /\ Ids(Chains[j]) = Own(props[j])
               /\ Unique(Chains[j]) <=> (config.cook => ~Doubled(Used(props[j])))
               /\ Faulty(Chains[j]) <=> config.cook /\ Invalid(props[j])
        /\ \A i, j \in 1 .. Len(props) : i # j =>
               (Ids(Chains[i]) \cap Ids(Chains[j]) = {}
                  <=> (config.cook => ~Shared(props[i], props[j])))
    BY <1>5, ChainsHave
  <2>2. Proper(Chains)
    BY <1>1, <2>1, OwnReserved DEF Proper
  <2>3. Unique(operators) <=> Apart(Chains, Len(props))
    BY <1>2, <2>2 DEF Sums
  <2>4. Apart(Chains, Len(props))
          <=> (config.cook => /\ \A j \in 1 .. Len(props) : ~Doubled(Used(props[j]))
                              /\ \A i, j \in 1 .. Len(props) :
                                    i # j => ~Shared(props[i], props[j]))
    BY <2>1 DEF Apart
  <2>5. config.cook /\ Flawed
          <=> config.cook /\ \/ \E j \in 1 .. Len(props) : Doubled(Used(props[j]))
                             \/ \E j \in 1 .. Len(props) : Invalid(props[j])
                             \/ \E i, j \in 1 .. Len(props) : i # j /\ Shared(props[i], props[j])
    BY <1>1, <1>5, FlawedIs
  <2>6. Faulty(operators) <=> config.cook /\ \E j \in 1 .. Len(props) : Invalid(props[j])
    BY <1>3, <2>1
  <2> QED
    BY <2>3, <2>4, <2>5, <2>6
<1> QED
  BY <1>4, <1>5

\* Connecting a list that leads forward leaves it so.
LEMMA ConnectedForward ==
  ASSUME IsOperators(operators), Forward(operators), NEW c, c = Connected
  PROVE  /\ IsList(c) /\ Forward(c)
         /\ Unique(c) <=> Unique(operators)
         /\ Faulty(c) <=> Faulty(operators)
<1> DEFINE s == operators
<1>1. /\ IsOperators(c) /\ Len(c) = Len(s)
      /\ \A i \in 1 .. Len(s) :
            /\ c[i].id = s[i].id /\ c[i].does = s[i].does /\ c[i].args = s[i].args
            /\ s[i].out # {} \/ i = Len(s) => c[i] = s[i]
            /\ s[i].out = {} /\ i # Len(s) => c[i].out = {s[i + 1].id}
  BY ConnectedIs
<1>2. IsOperators(s) /\ Forward(s)
  OBVIOUS
<1> HIDE DEF s
<1>3. IsList(c) /\ IsList(s)
  BY <1>1, <1>2 DEF IsOperators
<1>4. Len(s) \in Nat /\ DOMAIN s = 1 .. Len(s) /\ DOMAIN c = 1 .. Len(s)
  BY <1>1, <1>3, ListFacts
<1>5. Forward(c)
  <2> SUFFICES \A i \in 1 .. Len(s) :
                 c[i].out = {} \/ \E j \in i + 1 .. Len(s) : c[i].out = {c[j].id}
    <3>1. Len(c) = Len(s) /\ DOMAIN c = 1 .. Len(s)
      BY <1>1, <1>4
    <3> QED
      BY <3>1 DEF Forward
  <2> TAKE i \in 1 .. Len(s)
  <2>1. CASE s[i].out = {} /\ i # Len(s)
    <3>1. i + 1 \in i + 1 .. Len(s) /\ i + 1 \in 1 .. Len(s)
      BY <1>4, <2>1
    <3>2. c[i].out = {c[i + 1].id}
      BY <1>1, <2>1, <3>1
    <3> QED
      BY <3>1, <3>2
  <2>2. CASE s[i].out = {} /\ i = Len(s)
    BY <1>1, <2>2
  <2>3. CASE s[i].out # {}
    <3>1. PICK j \in i + 1 .. Len(s) : s[i].out = {s[j].id}
      BY <1>2, <1>4, <2>3 DEF Forward
    <3>2. j \in 1 .. Len(s)
      BY <1>4, <3>1
    <3>3. c[i].out = {c[j].id}
      BY <1>1, <2>3, <3>1, <3>2
    <3> QED
      BY <3>1, <3>3
  <2> QED
    BY <2>1, <2>2, <2>3
<1>6. Unique(c) <=> Unique(s)
  BY <1>1, <1>4, OutputsAside
<1>7. Faulty(c) <=> Faulty(s)
  BY <1>1, <1>4, OutputsAside
<1> QED
  BY <1>3, <1>5, <1>6, <1>7 DEF s

\* The library refuses the list if and only if its props are cooked and flawed.
LEMMA RefusedAtBuild ==
  ASSUME config \in Configs, FileInv, LaidInv, SpreadInv, phase = "build"
  PROVE  Refused(Connected) <=> config.cook /\ Flawed
<1>1. IsOperators(operators) /\ Forward(operators)
  BY DEF LaidInv, SpreadInv
<1> DEFINE c == Connected
<1>2. c = Connected
  OBVIOUS
<1> HIDE DEF c
<1>3. /\ IsList(c) /\ Forward(c)
      /\ Unique(c) <=> Unique(operators)
      /\ Faulty(c) <=> Faulty(operators)
  BY <1>1, <1>2, ConnectedForward
<1>4. Refused(c) <=> ~Unique(c) \/ Faulty(c)
  BY <1>3, RefusedIs
<1>5. Refused(c) <=> ~Unique(operators) \/ Faulty(operators)
  BY <1>3, <1>4
<1> QED
  BY <1>2, <1>5, FlawIs
-----------------------------------------------------------------------------
(* The theorem. *)

\* The attributes of an input compile unless one that its stanza sets does not.
LEMMA CompilesIs ==
  ASSUME NEW params
  PROVE  Compiles(Attributes(params))
           <=> ~\E n \in Metadata : Has(params, n) /\ Get(params, n) \in NoExprs
<1> DEFINE given == {m \in Metadata : Has(params, m)}
           a == Attributes(params)
<1>1. DOMAIN a = given /\ \A n \in given : a[n] = Get(params, n)
  BY DEF Attributes
<1> HIDE DEF a
<1> QED
  BY <1>1 DEF Compiles, a

\* The receiver of a stanza whose name is in order is that of its scheme, and so is what
\* the receiver makes of the stanza.
LEMMA SourceIs ==
  ASSUME input.name \in StanzaNames,
         NEW scheme, scheme = Lower[input.name.scheme],
         scheme \in {"script", "", "monitor", "WinEventLog", "tcp", "udp"}
  PROVE  /\ Kind = IF scheme = "" THEN "script" ELSE scheme
         /\ Source.attributes = Attributes(input.params)
         /\ scheme \in {"tcp", "udp"} => Source.listen = input.name.host
<1>1. CASE scheme \in {"script", ""}
  <2>1. Kind = "script"
    BY <1>1, Zenon DEF Kind, createReceiver
  <2>2. Source = scriptInput(config.base, input)
    BY <2>1, Zenon DEF Source, InputConfig
  <2> QED
    BY <1>1, <2>1, <2>2 DEF scriptInput
<1>2. CASE scheme = "monitor"
  <2>1. Kind = "monitor"
    BY <1>2, Zenon DEF Kind, createReceiver
  <2>2. Source = monitorInput(config.base, input)
    BY <2>1, Zenon DEF Source, InputConfig
  <2> QED
    BY <1>2, <2>1, <2>2 DEF monitorInput
<1>3. CASE scheme \in {"tcp", "udp"}
  <2>1. Kind = scheme
    BY <1>3, Zenon DEF Kind, createReceiver
  <2>2. Source = listeningInput(input)
    <3>1. CASE Kind = "tcp"
      BY <3>1, Zenon DEF Source, InputConfig
    <3>2. CASE Kind = "udp"
      BY <3>2, Zenon DEF Source, InputConfig
    <3> QED
      BY <1>3, <2>1, <3>1, <3>2
  <2> QED
    BY <1>3, <2>1, <2>2 DEF listeningInput
<1>4. CASE scheme = "WinEventLog"
  <2>1. Kind = "WinEventLog"
    BY <1>4, Zenon DEF Kind, createReceiver
  <2>2. Source = winInput(input)
    BY <2>1, Zenon DEF Source, InputConfig
  <2> QED
    BY <1>4, <2>1, <2>2 DEF winInput
<1> QED
  BY <1>1, <1>2, <1>3, <1>4

\* Something is wrong with an input itself if and only if it has no receiver or the
\* library does not build its operator.
LEMMA UnusableIs == Unusable <=> Kind = "none" \/ ~InputBuilds(Kind, Source)
<1> DEFINE scheme == Lower[input.name.scheme]
<1>1. CASE \/ input.name \notin StanzaNames
           \/ scheme \notin {"script", "", "monitor", "WinEventLog", "tcp", "udp"}
  <2>1. Unusable
    BY <1>1 DEF Unusable
  <2>2. Kind = "none"
    <3>1. CASE input.name \notin StanzaNames
      BY <3>1, Zenon DEF Kind, createReceiver
    <3>2. CASE /\ input.name \in StanzaNames
               /\ scheme \notin {"script", "", "monitor", "WinEventLog", "tcp", "udp"}
      BY <3>2, Zenon DEF Kind, createReceiver
    <3> QED
      BY <1>1, <3>1, <3>2
  <2> QED
    BY <2>1, <2>2
<1>2. CASE /\ input.name \in StanzaNames
           /\ scheme \in {"script", "", "monitor", "WinEventLog", "tcp", "udp"}
  <2>1. /\ Kind = IF scheme = "" THEN "script" ELSE scheme
        /\ Source.attributes = Attributes(input.params)
        /\ scheme \in {"tcp", "udp"} => Source.listen = input.name.host
    BY <1>2, SourceIs
  <2>2. Compiles(Source.attributes)
          <=> ~\E n \in Metadata : Has(input.params, n) /\ Get(input.params, n) \in NoExprs
    BY <2>1, CompilesIs
  <2>3. Unusable
          <=> \/ ~Compiles(Source.attributes)
              \/ scheme \in {"tcp", "udp"} /\ input.name.host \notin Addresses
              \/ /\ scheme = "monitor"
                 /\ \/ ~IsGlob(Source.include)
                    \/ \E i \in DOMAIN Source.exclude : ~IsGlob(Source.exclude[i])
    BY <1>2, <2>2 DEF Unusable
  <2>4. Kind # "none" /\ (Kind \in {"tcp", "udp"} <=> scheme \in {"tcp", "udp"})
          /\ (Kind = "monitor" <=> scheme = "monitor")
    BY <1>2, <2>1
  <2> QED
    BY <2>1, <2>3, <2>4 DEF InputBuilds
<1> QED
  BY <1>1, <1>2

\* The causes of RefusedForCause.
Cause ==
    \/ PropsFail(config.props)
    \/ input # <<>> /\ Unusable
    \/ config.cook /\ Flawed

\* A step that does not refuse the input rules a cause out.
CauseInv ==
    /\ phase = "failed" => Cause
    /\ phase \notin {"read", "failed"} => ~PropsFail(config.props)
    /\ phase \in {"start", "list", "build", "ready", "flow"} => Kind # "none"
    /\ phase \in {"ready", "flow"} => ~Unusable /\ ~(config.cook /\ Flawed)

\* Whether there is a cause depends on the files and the input only.
LEMMA SameCause ==
  ASSUME UNCHANGED read
  PROVE  UNCHANGED <<config, input, Kind, Unusable, Flawed, Cause>>
<1>1. config' = config /\ input' = input /\ transforms' = transforms /\ props' = props
  BY DEF read
<1>2. Kind' = Kind
  BY SameChains
<1>3. Flawed' = Flawed
  BY <1>1 DEF Flawed, Used, Each, Definition, Defined, Doubled, Valid
<1>4. Source' = Source
  BY <1>1, <1>2 DEF Source
<1>5. Unusable' = Unusable
  BY <1>1, <1>4 DEF Unusable
<1>6. Cause' = Cause
  BY <1>1, <1>3, <1>5 DEF Cause
<1> QED
  BY <1>1, <1>2, <1>3, <1>5, <1>6

\* The input of a receiver is a stanza.
LEMMA InputGiven ==
  ASSUME InputInv, phase \notin {"read", "failed"}
  PROVE  input # <<>>
<1> DEFINE file == config.inputs
           list == ReadInput(file)
<1>1. PICK i \in DOMAIN list : input = list[i]
  BY DEF InputInv
<1>2. list = [n \in DOMAIN Stanzas(file) |->
                [name |-> Stanzas(file)[n].name, params |-> Stanzas(file)[n].keys]]
  BY DEF ReadInput, Each
<1> HIDE DEF file, list
<1>3. input = [name |-> Stanzas(file)[i].name, params |-> Stanzas(file)[i].keys]
  BY <1>1, <1>2
<1>4. "name" \in DOMAIN input
  BY <1>3
<1>5. DOMAIN <<>> = {}
  OBVIOUS
<1> QED
  BY <1>4, <1>5

\* An input is refused for a cause, and goes on without one.
LEMMA CauseStep ==
  ASSUME PropsInv, InputInv, SpreadInv, CauseInv, [Next]_vars
  PROVE  CauseInv'
<1>1. config \in Configs /\ FileInv /\ LaidInv
  BY DEF PropsInv
<1>2. CASE ReadFiles
  <2>1. phase' = "create" /\ config' = config /\ ~PropsFail(config.props)
    BY <1>2 DEF ReadFiles
  <2> QED
    BY <2>1 DEF CauseInv
<1>3. CASE UNCHANGED read
  <2>1. UNCHANGED <<config, input, Kind, Unusable, Flawed, Cause>>
    BY <1>3, SameCause
  <2>2. CASE ReadFails
    <3>1. phase' = "failed" /\ Cause
      BY <2>2 DEF ReadFails, Cause
    <3> QED
      BY <2>1, <3>1 DEF CauseInv
  <2>3. CASE Create
    <3>1. phase = "create" /\ phase' = IF Kind = "none" THEN "failed" ELSE "start"
      BY <2>3 DEF Create
    <3>2. input # <<>> /\ ~PropsFail(config.props)
      BY <3>1, InputGiven DEF CauseInv
    <3>3. Kind = "none" => Cause
      BY <3>2, UnusableIs DEF Cause
    <3> QED
      BY <2>1, <3>1, <3>2, <3>3 DEF CauseInv
  <2>4. CASE BuildFails
    <3>1. /\ phase' = "failed" /\ phase = "build"
          /\ Refused(Connected) \/ ~InputBuilds(Kind, Source)
      BY <2>4 DEF BuildFails, Builds
    <3>2. input # <<>>
      BY <3>1, InputGiven
    <3>3. Cause
      BY <1>1, <3>1, <3>2, RefusedAtBuild, UnusableIs DEF Cause
    <3> QED
      BY <2>1, <3>1, <3>3 DEF CauseInv
  <2>5. CASE Build
    <3>1. /\ phase' = "ready" /\ phase = "build"
          /\ ~Refused(Connected) /\ InputBuilds(Kind, Source)
      BY <2>5 DEF Build, Builds
    <3>2. ~(config.cook /\ Flawed)
      BY <1>1, <3>1, RefusedAtBuild
    <3>3. ~Unusable
      BY <3>1, UnusableIs DEF CauseInv
    <3> QED
      BY <2>1, <3>1, <3>2, <3>3 DEF CauseInv
  <2>6. CASE createSetSourceOperator \/ AddProp \/ AddEnd
    <3>1. phase \in {"start", "list"} /\ phase' \in {"list", "build"}
      BY <2>6 DEF createSetSourceOperator, AddProp, AddEnd
    <3> QED
      BY <2>1, <3>1 DEF CauseInv
  <2>7. CASE Emit \/ Process \/ UNCHANGED vars
    <3>1. phase' = phase \/ (phase = "ready" /\ phase' = "flow")
      <4>1. CASE Emit
        BY <4>1 DEF Emit
      <4>2. CASE Process
        BY <4>2 DEF Process
      <4>3. CASE UNCHANGED vars
        BY <4>3 DEF vars
      <4> QED
        BY <2>7, <4>1, <4>2, <4>3
    <3> QED
      BY <2>1, <3>1 DEF CauseInv
  <2>8. ReadFails \/ Create \/ BuildFails \/ Build \/ createSetSourceOperator \/ AddProp
          \/ AddEnd \/ Emit \/ Process \/ ReadFiles \/ UNCHANGED vars
    BY DEF Next
  <2> QED
    BY <1>2, <2>2, <2>3, <2>4, <2>5, <2>6, <2>7, <2>8
<1>4. ReadFiles \/ UNCHANGED read
  BY DEF Next, vars, ReadFails, Create, createSetSourceOperator, AddProp, AddEnd, Build,
     BuildFails, Emit, Process
<1> QED
  BY <1>2, <1>3, <1>4

\* Of conf files that can be read, an input is refused if and only if something is wrong
\* with the input itself (its name, its scheme, an attribute, an address or a pattern), a
\* value of props.conf does not parse, or its props are flawed and cooked
\* (RefusedForCause), for all conf files.
THEOREM OnlyRefusedForCause == Spec => []RefusedForCause
<1> DEFINE Inv == PropsInv /\ InputInv /\ SpreadInv /\ CauseInv
<1>1. Init => Inv
  <2>1. Init => SpreadInv /\ CauseInv
    BY DEF Init, SpreadInv, CauseInv
  <2> QED
    BY <2>1, PropsStart, InputStart
<1>2. Inv /\ [Next]_vars => Inv'
  <2> SUFFICES ASSUME Inv, [Next]_vars PROVE Inv'
    OBVIOUS
  <2>1. PropsInv'
    BY PropsStep
  <2>2. InputInv'
    BY InputStep
  <2>3. SpreadInv'
    BY SpreadStep DEF PropsInv
  <2>4. CauseInv'
    BY CauseStep
  <2> QED
    BY <2>1, <2>2, <2>3, <2>4
<1>3. Inv => RefusedForCause
  BY DEF CauseInv, Cause, RefusedForCause
<1> HIDE DEF Inv
<1>4. Spec => []Inv
  BY <1>1, <1>2, PTL DEF Spec
<1> QED
  BY <1>3, <1>4, PTL
=============================================================================
