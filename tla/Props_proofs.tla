---------------------------- MODULE Props_proofs ----------------------------
(***************************************************************************)
(* Proofs about Pipeline for all conf files, with the gate open or shut:   *)
(* TypeOK, PropsWhole and SpecificFirst.                                   *)
(*                                                                         *)
(* The argument, for an entry that is cooked.  The chain of each prop is   *)
(* in the list of operators in one piece, the first one at its front       *)
(* (LaidInv).  Build refuses ids that are there twice, so an output leads  *)
(* to the one operator that has its id: along the first chain, from there  *)
(* to "end", and never into the chain of another prop (FlowInv).  So an    *)
(* entry that arrives has been through all of the first prop and nothing   *)
(* of the others, and the first prop is one that none overrides, since     *)
(* orderProps put it there (OrderIs).                                      *)
(***************************************************************************)
EXTENDS Pipeline_proofs

-----------------------------------------------------------------------------
(* FlattenSeq and Kept. *)

\* f holds what comes of the first 0, 1, 2, ... sequences of s.
Flattening(E, s, f) ==
    /\ f \in [0 .. Len(s) -> Seq(E)] /\ f[0] = <<>>
    /\ \A n \in 1 .. Len(s) : f[n] = f[n - 1] \o s[n]

\* FlattenSeq, as one concatenation after the other.
LEMMA FlattenIs ==
  ASSUME NEW E, NEW s \in Seq(Seq(E))
  PROVE  \E f : Flattening(E, s, f) /\ FlattenSeq(s) = f[Len(s)]
<1> DEFINE N == Len(s)
           S == Seq(E)
           F == [n \in 1 .. N |-> [d \in S |-> d \o s[n]]]
           start == <<>>
<1>1. N \in Nat /\ \A n \in 1 .. N : s[n] \in S
  OBVIOUS
<1>2. start \in S /\ F \in [1 .. N -> [S -> S]]
  BY <1>1
<1>3. \A n \in 1 .. N : \A d \in S : F[n][d] = d \o s[n]
  OBVIOUS
<1> HIDE DEF F
<1> HIDE DEF start
<1>4. PICK g : Recursive(S, start, N, F, g)
  BY <1>1, <1>2, Recursion
<1>5. g \in [0 .. N -> S] /\ g[0] = start /\ \A n \in 1 .. N : g[n] = F[n][g[n - 1]]
  BY <1>4 DEF Recursive
<1>6. ASSUME NEW n \in 1 .. N PROVE g[n - 1] \in S /\ g[n] = g[n - 1] \o s[n]
  <2>1. n - 1 \in 0 .. N
    BY <1>1
  <2> QED
    BY <1>3, <1>5, <2>1
<1>7. Flattening(E, s, g)
  BY <1>5, <1>6 DEF Flattening, start
<1>8. FlattenSeq(s) = g[N]
  <2>1. CASE N = 0
    <3>1. FlattenSeq(s) = s
      BY <2>1 DEF FlattenSeq
    <3>2. s = <<>>
      BY <2>1
    <3> QED
      BY <1>5, <2>1, <3>1, <3>2 DEF start
  <2>2. CASE N # 0
    <3> DEFINE Is(f) == f = [i \in 1 .. N |-> IF i = 1 THEN s[i] ELSE f[i - 1] \o s[i]]
               c == CHOOSE f : Is(f)
               h == [i \in 1 .. N |-> g[i]]
    <3>1. FlattenSeq(s) = c[N]
      BY <2>2 DEF FlattenSeq
    <3>2. Is(h)
      <4>1. ASSUME NEW i \in 1 .. N PROVE h[i] = IF i = 1 THEN s[i] ELSE h[i - 1] \o s[i]
        <5>1. CASE i = 1
          <6>1. i - 1 = 0 /\ g[0] = <<>> /\ s[i] \in Seq(E)
            BY <1>1, <1>5, <5>1 DEF start
          <6>2. g[i] = <<>> \o s[i]
            BY <1>6, <6>1
          <6>3. g[i] = s[i]
            BY <6>1, <6>2
          <6> QED
            BY <5>1, <6>3
        <5>2. CASE i # 1
          <6>1. i - 1 \in 1 .. N
            BY <1>1, <5>2
          <6> QED
            BY <1>6, <5>2, <6>1
        <5> QED
          BY <5>1, <5>2
      <4> HIDE DEF h
      <4>2. h = [i \in 1 .. N |-> h[i]]
        BY DEF h
      <4> QED
        BY <4>1, <4>2
    <3> HIDE DEF h
    <3>3. Is(c)
      BY <3>2 DEF c
    <3> HIDE DEF c
    <3>4. \A i \in 1 .. N : c[i] = IF i = 1 THEN s[i] ELSE c[i - 1] \o s[i]
      BY <3>3
    <3>5. \A i \in 1 .. N : h[i] = IF i = 1 THEN s[i] ELSE h[i - 1] \o s[i]
      BY <3>2
    <3> HIDE DEF Is
    <3> DEFINE P == {n \in Nat : n + 1 <= N => c[n + 1] = h[n + 1]}
    <3>6. 0 \in P
      BY <1>1, <3>4, <3>5
    <3>7. ASSUME NEW n \in Nat, n \in P PROVE n + 1 \in P
      <4> SUFFICES ASSUME (n + 1) + 1 <= N PROVE c[(n + 1) + 1] = h[(n + 1) + 1]
        OBVIOUS
      <4>1. (n + 1) + 1 \in 1 .. N /\ (n + 1) + 1 # 1 /\ ((n + 1) + 1) - 1 = n + 1
        BY <1>1
      <4>2. c[n + 1] = h[n + 1]
        BY <1>1, <3>7
      <4> QED
        BY <3>4, <3>5, <4>1, <4>2
    <3> HIDE DEF P
    <3>8. Nat \subseteq P
      BY <3>6, <3>7, Induction
    <3>9. c[N] = h[N]
      <4>1. N - 1 \in Nat /\ (N - 1) + 1 = N /\ N <= N
        BY <1>1, <2>2
      <4> HIDE DEF N
      <4>2. N - 1 \in P
        BY <3>8, <4>1
      <4> QED
        BY <4>1, <4>2 DEF P
    <3>10. h[N] = g[N]
      BY <1>1, <2>2 DEF h
    <3> QED
      BY <3>1, <3>9, <3>10
  <2> QED
    BY <2>1, <2>2
<1> QED
  BY <1>7, <1>8

\* What is flattened is a sequence of the elements of the parts.
LEMMA FlattenType == ASSUME NEW E, NEW s \in Seq(Seq(E)) PROVE FlattenSeq(s) \in Seq(E)
<1>1. PICK f : Flattening(E, s, f) /\ FlattenSeq(s) = f[Len(s)]
  BY FlattenIs
<1>2. Len(s) \in 0 .. Len(s)
  OBVIOUS
<1> QED
  BY <1>1, <1>2 DEF Flattening

\* One more part goes behind what the others come to.
LEMMA FlattenAppend ==
  ASSUME NEW E, NEW s \in Seq(Seq(E)), NEW x \in Seq(E)
  PROVE  FlattenSeq(Append(s, x)) = FlattenSeq(s) \o x
<1> DEFINE N == Len(s)
           t == Append(s, x)
<1>1. N \in Nat /\ t \in Seq(Seq(E)) /\ Len(t) = N + 1 /\ t[N + 1] = x
      /\ \A n \in 1 .. N : t[n] = s[n]
  OBVIOUS
<1> HIDE DEF t
<1>2. PICK f : Flattening(E, s, f) /\ FlattenSeq(s) = f[N]
  BY FlattenIs
<1>3. PICK g : Flattening(E, t, g) /\ FlattenSeq(t) = g[N + 1]
  <2>1. \E g : Flattening(E, t, g) /\ FlattenSeq(t) = g[Len(t)]
    BY <1>1, FlattenIs
  <2> QED
    BY <1>1, <2>1
<1>4. f[0] = <<>> /\ \A n \in 1 .. N : f[n] = f[n - 1] \o s[n]
  BY <1>2 DEF Flattening
<1>5. g[0] = <<>> /\ \A n \in 1 .. N + 1 : g[n] = g[n - 1] \o t[n]
  BY <1>1, <1>3 DEF Flattening
<1> DEFINE P == {n \in Nat : n <= N => f[n] = g[n]}
<1>6. 0 \in P
  BY <1>4, <1>5
<1>7. ASSUME NEW n \in Nat, n \in P PROVE n + 1 \in P
  <2> SUFFICES ASSUME n + 1 <= N PROVE f[n + 1] = g[n + 1]
    OBVIOUS
  <2>1. n + 1 \in 1 .. N /\ n + 1 \in 1 .. N + 1 /\ (n + 1) - 1 = n /\ f[n] = g[n]
    BY <1>1, <1>7
  <2>2. f[n + 1] = f[n] \o s[n + 1] /\ g[n + 1] = g[n] \o t[n + 1] /\ t[n + 1] = s[n + 1]
    BY <1>1, <1>4, <1>5, <2>1
  <2> QED
    BY <2>1, <2>2
<1>8. f[N] = g[N]
  <2> HIDE DEF P
  <2>1. Nat \subseteq P
    BY <1>6, <1>7, Induction
  <2> QED
    BY <1>1, <2>1 DEF P
<1>9. g[N + 1] = g[N] \o x
  <2>1. N + 1 \in 1 .. N + 1 /\ (N + 1) - 1 = N
    BY <1>1
  <2> QED
    BY <1>1, <1>5, <2>1
<1>10. FlattenSeq(t) = FlattenSeq(s) \o x
  BY <1>2, <1>3, <1>8, <1>9
<1> QED
  BY <1>10 DEF t

\* What is kept is of the list and of the set.
LEMMA KeptType == ASSUME NEW E, NEW s \in Seq(E), NEW K PROVE Kept(s, K) \in Seq(E \cap K)
<1> DEFINE One(y) == IF y \in K THEN <<y>> ELSE <<>>
           t == [i \in DOMAIN s |-> One(s[i])]
           D == E \cap K
<1>1. Kept(s, K) = FlattenSeq(t)
  BY DEF Kept, Each
<1>2. \A y \in D : <<y>> \in Seq(D)
  OBVIOUS
<1>3. <<>> \in Seq(D)
  OBVIOUS
<1>4. \A i \in 1 .. Len(s) : s[i] \in E
  OBVIOUS
<1>5. \A y \in E : One(y) \in Seq(D)
  BY <1>2, <1>3
<1> HIDE DEF One, D
<1>6. t \in Seq(Seq(D))
  <2>1. t \in [1 .. Len(s) -> Seq(D)]
    BY <1>4, <1>5
  <2> HIDE DEF t
  <2> QED
    BY <2>1
<1> QED
  BY <1>1, <1>6, FlattenType DEF D

\* What is kept of a list, when one more element comes.
LEMMA KeptAppend ==
  ASSUME NEW E, NEW s \in Seq(E), NEW x \in E, NEW K
  PROVE  Kept(Append(s, x), K) = IF x \in K THEN Append(Kept(s, K), x) ELSE Kept(s, K)
<1> DEFINE One(y) == IF y \in K THEN <<y>> ELSE <<>>
           t == [i \in DOMAIN s |-> One(s[i])]
           u == [i \in DOMAIN Append(s, x) |-> One(Append(s, x)[i])]
<1>1. Kept(s, K) = FlattenSeq(t) /\ Kept(Append(s, x), K) = FlattenSeq(u)
  BY DEF Kept, Each
<1>2. \A y \in E : <<y>> \in Seq(E) /\ <<>> \in Seq(E)
  OBVIOUS
<1>3. \A y \in E : One(y) \in Seq(E)
  BY <1>2
<1> HIDE DEF One
<1>4. \A i \in 1 .. Len(s) : s[i] \in E
  OBVIOUS
<1>5. t \in Seq(Seq(E)) /\ Len(t) = Len(s) /\ \A i \in 1 .. Len(s) : t[i] = One(s[i])
  <2>1. t \in [1 .. Len(s) -> Seq(E)] /\ \A i \in 1 .. Len(s) : t[i] = One(s[i])
    BY <1>3, <1>4
  <2> HIDE DEF t
  <2> QED
    BY <2>1
<1>6. u = Append(t, One(x))
  <2>1. /\ DOMAIN Append(s, x) = 1 .. Len(s) + 1 /\ Append(s, x)[Len(s) + 1] = x
        /\ \A i \in 1 .. Len(s) : Append(s, x)[i] = s[i]
    OBVIOUS
  <2>2. u = [i \in 1 .. Len(s) + 1 |-> IF i = Len(s) + 1 THEN One(x) ELSE One(s[i])]
    BY <2>1
  <2>3. One(x) \in Seq(E)
    BY <1>3
  <2> DEFINE one == One(x)
             v == Append(t, one)
  <2> HIDE DEF t, one
  <2>4. /\ v = [i \in 1 .. Len(s) + 1 |-> v[i]] /\ v[Len(s) + 1] = one
        /\ \A i \in 1 .. Len(s) : v[i] = t[i]
    <3>1. t \in Seq(Seq(E)) /\ one \in Seq(E) /\ Len(t) = Len(s)
      BY <1>5, <2>3 DEF one
    <3>2. v \in Seq(Seq(E)) /\ Len(v) = Len(t) + 1
      BY <3>1
    <3>3. v[Len(t) + 1] = one /\ \A i \in 1 .. Len(t) : v[i] = t[i]
      BY <3>1
    <3> HIDE DEF v
    <3>4. v = [i \in 1 .. Len(v) |-> v[i]]
      BY <3>2
    <3> QED
      BY <3>1, <3>2, <3>3, <3>4
  <2> HIDE DEF v
  <2>5. v = [i \in 1 .. Len(s) + 1 |-> IF i = Len(s) + 1 THEN one ELSE One(s[i])]
    <3>1. ASSUME NEW i \in 1 .. Len(s) + 1 PROVE v[i] = IF i = Len(s) + 1 THEN one ELSE One(s[i])
      <4>1. i = Len(s) + 1 \/ i \in 1 .. Len(s)
        OBVIOUS
      <4> QED
        BY <1>5, <2>4, <4>1
    <3> QED
      BY <2>4, <3>1
  <2> QED
    BY <2>2, <2>5 DEF v, one
<1> HIDE DEF t, u
<1>7. FlattenSeq(u) = FlattenSeq(t) \o One(x)
  BY <1>3, <1>5, <1>6, FlattenAppend
<1>8. FlattenSeq(t) \in Seq(E)
  BY <1>5, FlattenType
<1>9. One(x) = IF x \in K THEN <<x>> ELSE <<>>
  BY DEF One
<1>10. CASE x \in K
  BY <1>1, <1>7, <1>8, <1>9, <1>10
<1>11. CASE x \notin K
  BY <1>1, <1>7, <1>8, <1>9, <1>11
<1> QED
  BY <1>10, <1>11

LEMMA KeptNone == ASSUME NEW K PROVE Kept(<<>>, K) = <<>>
  BY DEF Kept, Each, FlattenSeq

-----------------------------------------------------------------------------
(* Lists, whatever their elements are. *)

IsList(s) == s \in Seq(Range(s))

\* A list is a function on the numbers up to its length.
LEMMA ListFacts ==
  ASSUME NEW s, IsList(s)
  PROVE  /\ Len(s) \in Nat /\ DOMAIN s = 1 .. Len(s) /\ s = [i \in 1 .. Len(s) |-> s[i]]
         /\ \A i \in 1 .. Len(s) : s[i] \in Range(s)
<1> DEFINE S == Range(s)
<1>1. s \in Seq(S)
  BY DEF IsList
<1> HIDE DEF S
<1>2. /\ Len(s) \in Nat /\ DOMAIN s = 1 .. Len(s) /\ s = [i \in 1 .. Len(s) |-> s[i]]
      /\ \A i \in 1 .. Len(s) : s[i] \in S
  BY <1>1
<1> QED
  BY <1>2 DEF S

\* Any function on the numbers up to n is a list.
LEMMA AList == ASSUME NEW s, NEW n \in Nat, s = [i \in 1 .. n |-> s[i]] PROVE IsList(s) /\ Len(s) = n
<1> DEFINE S == Range(s)
<1>1. \A i \in 1 .. n : s[i] \in S
  <2>1. DOMAIN s = 1 .. n
    OBVIOUS
  <2> QED
    BY <2>1 DEF Range
<1> HIDE DEF S
<1>2. s \in [1 .. n -> S]
  BY <1>1
<1>3. s \in Seq(S) /\ Len(s) = n
  BY <1>2
<1> QED
  BY <1>3 DEF IsList, S

LEMMA SeqIsList == ASSUME NEW S, NEW s \in Seq(S) PROVE IsList(s)
<1>1. Len(s) \in Nat /\ s = [i \in 1 .. Len(s) |-> s[i]]
  OBVIOUS
<1> QED
  BY <1>1, AList

LEMMA RawIsList == ASSUME NEW s, RawList(s) PROVE IsList(s)
  BY SeqIsList DEF RawList

LEMMA ListEmpty == IsList(<<>>) /\ Len(<<>>) = 0
<1> DEFINE none == <<>>
           n == 0
<1>1. n \in Nat /\ Len(none) = n /\ none = [i \in 1 .. n |-> none[i]]
  OBVIOUS
<1> HIDE DEF none, n
<1>2. IsList(none)
  BY <1>1, AList
<1> QED
  BY <1>1, <1>2 DEF none, n

LEMMA ListSingle == ASSUME NEW x PROVE IsList(<<x>>) /\ Len(<<x>>) = 1 /\ <<x>>[1] = x
<1> DEFINE one == <<x>>
           S == {x}
<1>1. one \in Seq(S) /\ Len(one) = 1 /\ one[1] = x
  OBVIOUS
<1> HIDE DEF one, S
<1>2. IsList(one)
  BY <1>1, SeqIsList
<1> QED
  BY <1>1, <1>2 DEF one

\* A concatenation, element by element.
LEMMA ListConcat ==
  ASSUME NEW s, NEW t, IsList(s), IsList(t)
  PROVE  /\ IsList(s \o t) /\ Len(s \o t) = Len(s) + Len(t)
         /\ \A i \in 1 .. Len(s) : (s \o t)[i] = s[i]
         /\ \A i \in 1 .. Len(t) : (s \o t)[Len(s) + i] = t[i]
         /\ \A i \in Len(s) + 1 .. Len(s) + Len(t) : (s \o t)[i] = t[i - Len(s)]
<1> DEFINE S == Range(s)
           T == Range(t)
           U == S \cup T
           u == s \o t
<1>1. s \in Seq(S) /\ t \in Seq(T)
  BY DEF IsList
<1> HIDE DEF S, T
<1>2. u \in Seq(U)
  BY <1>1
<1>3. /\ Len(u) = Len(s) + Len(t)
      /\ \A i \in 1 .. Len(s) : u[i] = s[i]
      /\ \A i \in 1 .. Len(t) : u[Len(s) + i] = t[i]
      /\ \A i \in Len(s) + 1 .. Len(s) + Len(t) : u[i] = t[i - Len(s)]
  BY <1>1
<1> HIDE DEF u, U
<1>4. IsList(u)
  BY <1>2, SeqIsList
<1> QED
  BY <1>3, <1>4 DEF u

\* Concatenations may be grouped either way.
LEMMA ListAssoc ==
  ASSUME NEW s, NEW t, NEW u, IsList(s), IsList(t), IsList(u)
  PROVE  (s \o t) \o u = s \o (t \o u)
<1> DEFINE S == Range(s)
           T == Range(t)
           U == Range(u)
<1>1. s \in Seq(S) /\ t \in Seq(T) /\ u \in Seq(U)
  BY DEF IsList
<1> HIDE DEF S, T, U
<1> QED
  BY <1>1

\* What is made of each element makes a list of the same length.
LEMMA ListMapped ==
  ASSUME NEW s, IsList(s), NEW g, g = [i \in DOMAIN s |-> g[i]]
  PROVE  IsList(g) /\ Len(g) = Len(s)
<1>1. Len(s) \in Nat /\ DOMAIN s = 1 .. Len(s)
  BY ListFacts
<1>2. g = [i \in 1 .. Len(s) |-> g[i]]
  BY <1>1
<1> QED
  BY <1>1, <1>2, AList

-----------------------------------------------------------------------------
(* orderProps. *)

\* The rank of a prop's type.
Level(p) == TypeRank[Type(p.name)]

\* Less goes by the rank of the type, then by the rank of the name.
LEMMA LevelIs ==
  ASSUME NEW p, NEW q
  PROVE  /\ Level(p) \in 0 .. 3
         /\ Less(p, q) <=> \/ Level(p) < Level(q)
                           \/ Level(p) = Level(q) /\ Rank[p.name] < Rank[q.name]
<1> DEFINE Types == {"source", "host", "sourcetype", "default"}
<1>1. Type(p.name) \in Types /\ Type(q.name) \in Types
  <2>1. ASSUME NEW name PROVE Type(name) \in Types
    <3> DEFINE A == Len(name) > 1 /\ name[1] = "source::"
               B == Len(name) > 1 /\ name[1] = "host::"
               C == name = <<"default">>
    <3>1. CASE A
      BY <3>1, Zenon DEF Type
    <3>2. CASE ~A /\ B
      BY <3>2 DEF Type
    <3>3. CASE ~A /\ ~B /\ C
      BY <3>3 DEF Type
    <3>4. CASE ~A /\ ~B /\ ~C
      BY <3>4 DEF Type
    <3> QED
      BY <3>1, <3>2, <3>3, <3>4
  <2> QED
    BY <2>1
<1>2. \A x \in Types : TypeRank[x] \in 0 .. 3
  BY DEF TypeRank
<1>3. \A x, y \in Types : TypeRank[x] = TypeRank[y] => x = y
  BY DEF TypeRank
<1> QED
  BY <1>1, <1>2, <1>3 DEF Less, Level

Before(S, p) == {q \in S : Less(q, p)}

\* The props of a file have different names, whose order is total.
Ordered(list) ==
    /\ IsList(list)
    /\ \A i \in DOMAIN list : Rank[list[i].name] \in Int
    /\ \A i, j \in DOMAIN list : Rank[list[i].name] = Rank[list[j].name] => i = j

\* For each number there is a prop that has so many before it.
LEMMA PlaceIs ==
  ASSUME NEW list, Ordered(list), NEW n \in DOMAIN list
  PROVE  \E p \in Range(list) : Cardinality(Before(Range(list), p)) = n - 1
<1> DEFINE S == Range(list)
           N == Len(list)
<1>1. N \in Nat /\ DOMAIN list = 1 .. N
  BY ListFacts DEF Ordered
<1>2. \A p \in S : Rank[p.name] \in Int
  BY DEF Ordered, Range
<1>3. \A p, q \in S : Rank[p.name] = Rank[q.name] => p = q
  BY DEF Ordered, Range
<1>4. IsFiniteSet(S) /\ Cardinality(S) = N
  <2> DEFINE I == 1 .. N
             f == [i \in I |-> list[i]]
  <2>1. IsFiniteSet(I) /\ Cardinality(I) = N
    <3>1. /\ IsFiniteSet(1 .. N)
          /\ Cardinality(1 .. N) = IF 1 > N THEN 0 ELSE N - 1 + 1
      BY <1>1, 1 \in Int, N \in Int, FS_Interval
    <3> QED
      BY <1>1, <3>1
  <2>2. f \in Surjection(I, S)
    BY <1>1 DEF Range, Surjection
  <2>3. f \in Injection(I, S)
    BY <1>1, <2>2 DEF Injection, IsInjective, Surjection, Ordered
  <2> HIDE DEF f, I, S, N
  <2>4. IsFiniteSet(S) /\ (Cardinality(S) = Cardinality(I) <=> f \in Injection(I, S))
    BY <2>1, <2>2, FS_Surjection
  <2> QED
    BY <2>1, <2>3, <2>4
<1> HIDE DEF S
<1>5. \A p, q \in S : p # q => Less(p, q) \/ Less(q, p)
  <2> SUFFICES ASSUME NEW p \in S, NEW q \in S, p # q PROVE Less(p, q) \/ Less(q, p)
    OBVIOUS
  <2>1. Rank[p.name] \in Int /\ Rank[q.name] \in Int /\ Rank[p.name] # Rank[q.name]
    BY <1>2, <1>3
  <2> QED
    BY <2>1, LevelIs
<1>6. \A p, q, r \in S : Less(p, q) /\ Less(q, r) => Less(p, r)
  <2> SUFFICES ASSUME NEW p \in S, NEW q \in S, NEW r \in S, Less(p, q), Less(q, r)
               PROVE  Less(p, r)
    OBVIOUS
  <2>1. Rank[p.name] \in Int /\ Rank[q.name] \in Int /\ Rank[r.name] \in Int
    BY <1>2
  <2>2. Level(p) \in 0 .. 3 /\ Level(q) \in 0 .. 3 /\ Level(r) \in 0 .. 3
    BY LevelIs
  <2>3. Level(p) < Level(q) \/ (Level(p) = Level(q) /\ Rank[p.name] < Rank[q.name])
    BY LevelIs
  <2>4. Level(q) < Level(r) \/ (Level(q) = Level(r) /\ Rank[q.name] < Rank[r.name])
    BY LevelIs
  <2>5. Level(p) < Level(r) \/ (Level(p) = Level(r) /\ Rank[p.name] < Rank[r.name])
    BY <2>1, <2>2, <2>3, <2>4
  <2> QED
    BY <2>5, LevelIs
<1>7. \A p \in S : ~Less(p, p)
  <2> SUFFICES ASSUME NEW p \in S PROVE ~Less(p, p)
    OBVIOUS
  <2>1. Rank[p.name] \in Int /\ Level(p) \in 0 .. 3
    BY <1>2, LevelIs
  <2> QED
    BY <2>1, LevelIs
<1>8. ASSUME NEW p \in S
      PROVE  IsFiniteSet(Before(S, p)) /\ Cardinality(Before(S, p)) \in 0 .. N - 1
  <2>1. Before(S, p) \in SUBSET S /\ p \notin Before(S, p)
    BY <1>7 DEF Before
  <2>2. /\ IsFiniteSet(Before(S, p)) /\ Cardinality(Before(S, p)) <= N
        /\ (Cardinality(Before(S, p)) = N => S = Before(S, p))
    BY <1>4, <2>1, FS_Subset
  <2>3. Cardinality(Before(S, p)) \in Nat
    BY <2>2, FS_CardinalityType
  <2> QED
    BY <1>1, <2>1, <2>2, <2>3
<1>9. ASSUME NEW p \in S, NEW q \in S, Less(p, q)
      PROVE  Cardinality(Before(S, p)) # Cardinality(Before(S, q))
  <2>1. Before(S, p) \in SUBSET Before(S, q)
    BY <1>6, <1>9 DEF Before
  <2>2. p \in Before(S, q) /\ p \notin Before(S, p)
    BY <1>7, <1>9 DEF Before
  <2> QED
    BY <1>8, <2>1, <2>2, FS_Subset
<1> DEFINE place == [p \in S |-> Cardinality(Before(S, p))]
           P == 0 .. N - 1
<1>10. place \in Injection(S, P)
  <2>1. place \in [S -> P]
    BY <1>8
  <2>2. \A p, q \in S : place[p] = place[q] => p = q
    BY <1>5, <1>9
  <2> QED
    BY <2>1, <2>2 DEF Injection, IsInjective
<1>11. IsFiniteSet(P) /\ Cardinality(P) = N
  <2>1. /\ IsFiniteSet(0 .. N - 1)
        /\ Cardinality(0 .. N - 1) = IF 0 > N - 1 THEN 0 ELSE (N - 1) - 0 + 1
    BY <1>1, 0 \in Int, N - 1 \in Int, FS_Interval
  <2> QED
    BY <1>1, <2>1
<1>12. place \in Surjection(S, P)
  <2> HIDE DEF place, P, N
  <2> QED
    BY <1>4, <1>10, <1>11, FS_Injection
<1>13. n - 1 \in P
  BY <1>1
<1>14. PICK p \in S : place[p] = n - 1
  BY <1>12, <1>13 DEF Surjection
<1> QED
  BY <1>14 DEF S

\* The props as ordered are those of the file, and none comes before the first.
LEMMA OrderIs ==
  ASSUME NEW list, Ordered(list), NEW o, o = orderProps(list)
  PROVE  /\ IsList(o) /\ Len(o) = Len(list)
         /\ \A n \in 1 .. Len(o) : o[n] \in Range(list)
         /\ \A n \in 1 .. Len(o) : ~Less(o[n], o[1])
<1> DEFINE S == Range(list)
<1>1. IsList(list)
  BY DEF Ordered
<1>2. o = [n \in DOMAIN list |-> CHOOSE p \in S : Cardinality(Before(S, p)) = n - 1]
  BY DEF orderProps, Before
<1>3. o = [n \in DOMAIN list |-> o[n]]
  BY <1>2
<1>4. IsList(o) /\ Len(o) = Len(list)
  BY <1>1, <1>3, ListMapped
<1>5. Len(o) \in Nat /\ DOMAIN list = 1 .. Len(o)
  BY <1>1, <1>4, ListFacts
<1> HIDE DEF S
<1>6. ASSUME NEW n \in 1 .. Len(o) PROVE o[n] \in S /\ Cardinality(Before(S, o[n])) = n - 1
  <2>1. \E p \in S : Cardinality(Before(S, p)) = n - 1
    BY <1>5, PlaceIs DEF S
  <2>2. o[n] = CHOOSE p \in S : Cardinality(Before(S, p)) = n - 1
    BY <1>2, <1>5
  <2> QED
    BY <2>1, <2>2
<1>7. ASSUME NEW n \in 1 .. Len(o) PROVE ~Less(o[n], o[1])
  <2>1. 1 \in 1 .. Len(o) /\ 1 - 1 = 0
    BY <1>5
  <2>2. Cardinality(Before(S, o[1])) = 0
    BY <1>6, <2>1
  <2>3. IsFiniteSet(Before(S, o[1]))
    <3>1. IsFiniteSet(S)
      <4>1. IsFiniteSet(1 .. Len(o))
        BY <1>5, 1 \in Int, Len(o) \in Int, FS_Interval
      <4> DEFINE f == [i \in 1 .. Len(o) |-> list[i]]
      <4>2. f \in Surjection(1 .. Len(o), S)
        BY <1>5 DEF Surjection, S, Range
      <4> HIDE DEF f
      <4> QED
        BY <4>1, <4>2, FS_Surjection
    <3>2. Before(S, o[1]) \in SUBSET S
      BY DEF Before
    <3> QED
      BY <3>1, <3>2, FS_Subset
  <2>4. Before(S, o[1]) = {}
    BY <2>2, <2>3, FS_EmptySet
  <2> QED
    BY <1>6, <2>4 DEF Before
<1> QED
  BY <1>4, <1>6, <1>7 DEF S

-----------------------------------------------------------------------------
(* What the conf files give. *)

\* The stanzas of a file are its sections but the first.
LEMMA StanzasAre ==
  ASSUME NEW file, WellFormed(file), NEW s, s = Stanzas(file)
  PROVE  /\ IsList(s) /\ Len(s) = Len(file) - 1
         /\ \A i \in 1 .. Len(s) : i + 1 \in 2 .. Len(file) /\ s[i] = file[i + 1]
<1> DEFINE S == Range(file)
<1>1. file \in Seq(S) /\ file # <<>> /\ s = Tail(file)
  BY DEF WellFormed, Stanzas
<1> HIDE DEF S
<1>2. /\ s \in Seq(S) /\ Len(s) = Len(file) - 1
      /\ \A i \in 1 .. Len(s) : i + 1 \in 2 .. Len(file) /\ s[i] = file[i + 1]
  BY <1>1
<1> QED
  BY <1>2, SeqIsList

\* The keys with a prefix are a list.
LEMMA PrefixedIs ==
  ASSUME NEW section, IsList(section.keys), NEW prefix
  PROVE  IsList(Prefixed(section, prefix))
<1> DEFINE S == Range(section.keys)
           K == {key \in S : Len(key.name) > 1 /\ key.name[1] = prefix}
<1>1. section.keys \in Seq(S) /\ Prefixed(section, prefix) = Kept(section.keys, K)
  BY DEF IsList, Prefixed
<1> HIDE DEF S, K
<1>2. Prefixed(section, prefix) \in Seq(S \cap K)
  BY <1>1, KeptType
<1> QED
  BY <1>2, SeqIsList

\* The settings of a prop are lists.
IsProp(p) ==
    /\ IsList(p.aliases) /\ IsList(p.transforms)
    /\ \A i \in DOMAIN p.transforms : IsList(p.transforms[i].stanza)

\* A section with lists for keys makes a prop with lists for settings.
LEMMA SectionProp ==
  ASSUME NEW section, IsList(section.keys),
         \A key \in Range(Prefixed(section, "TRANSFORMS-")) : IsList(key.value),
         NEW p, p.aliases = readFieldAliases(section), p.transforms = readPropsTransforms(section)
  PROVE  IsProp(p)
<1>1. IsList(p.aliases)
  <2> DEFINE keys == Prefixed(section, "FIELDALIAS-")
             list == readFieldAliases(section)
  <2>1. IsList(keys)
    BY PrefixedIs
  <2>2. list = [i \in DOMAIN keys |-> list[i]]
    BY DEF readFieldAliases, Each
  <2> HIDE DEF keys, list
  <2>3. IsList(list)
    BY <2>1, <2>2, ListMapped
  <2> QED
    BY <2>3 DEF list
<1>2. IsList(p.transforms) /\ \A i \in DOMAIN p.transforms : IsList(p.transforms[i].stanza)
  <2> DEFINE keys == Prefixed(section, "TRANSFORMS-")
             list == readPropsTransforms(section)
  <2>1. IsList(keys)
    BY PrefixedIs
  <2>2. list = [i \in DOMAIN keys |-> [class |-> keys[i].name, stanza |-> keys[i].value]]
    BY DEF readPropsTransforms, Each
  <2>3. \A i \in DOMAIN keys : IsList(keys[i].value)
    BY DEF Range
  <2> HIDE DEF keys, list
  <2>4. list = [i \in DOMAIN keys |-> list[i]]
    BY <2>2
  <2>5. IsList(list)
    BY <2>1, <2>4, ListMapped
  <2>6. \A i \in DOMAIN list : IsList(list[i].stanza)
    BY <2>2, <2>3
  <2> QED
    BY <2>5, <2>6 DEF list
<1> QED
  BY <1>1, <1>2 DEF IsProp

\* ReadProps: as many props as the file has stanzas, none before the first.
LEMMA PropsAre ==
  ASSUME NEW c \in Configs, NEW o, o = ReadProps(c.props)
  PROVE  /\ IsList(o) /\ Len(o) = Len(c.props) - 1
         /\ \A n \in 1 .. Len(o) : IsProp(o[n]) /\ ~Less(o[n], o[1])
<1> DEFINE s == Stanzas(c.props)
           Prop(section) == [name |-> section.name,
                             sourcetype |-> Str(section, <<"sourcetype">>),
                             aliases |-> readFieldAliases(section),
                             transforms |-> readPropsTransforms(section)]
           list == [i \in DOMAIN s |-> Prop(s[i])]
<1>1. WellFormed(c.props) /\ WellNamed(c.props)
  BY PipelineAssumption
<1>2. /\ IsList(s) /\ Len(s) = Len(c.props) - 1 /\ Len(s) \in Nat /\ DOMAIN s = 1 .. Len(s)
      /\ \A i \in 1 .. Len(s) : i + 1 \in 2 .. Len(c.props) /\ s[i] = c.props[i + 1]
  BY <1>1, StanzasAre, ListFacts
<1>3. o = orderProps(list)
  BY DEF ReadProps, Each
<1>4. \A section : Prop(section).name = section.name
  OBVIOUS
<1>5. \A i \in 1 .. Len(s) : IsProp(Prop(s[i]))
  <2> SUFFICES ASSUME NEW i \in 1 .. Len(s) PROVE IsProp(Prop(s[i]))
    OBVIOUS
  <2>1. i + 1 \in DOMAIN c.props /\ i + 1 \in 2 .. Len(c.props) /\ s[i] = c.props[i + 1]
    <3>1. IsList(c.props)
      BY <1>1 DEF WellFormed, IsList
    <3>2. DOMAIN c.props = 1 .. Len(c.props)
      BY <3>1, ListFacts
    <3> QED
      BY <1>2, <3>2
  <2>2. IsList(s[i].keys)
    BY <1>1, <2>1 DEF WellFormed, IsList
  <2>3. \A key \in Range(Prefixed(s[i], "TRANSFORMS-")) : IsList(key.value)
    BY <1>1, <2>1 DEF WellNamed, IsList
  <2>4. /\ Prop(s[i]).aliases = readFieldAliases(s[i])
        /\ Prop(s[i]).transforms = readPropsTransforms(s[i])
    OBVIOUS
  <2> HIDE DEF Prop, s
  <2> QED
    BY <2>2, <2>3, <2>4, SectionProp
<1> HIDE DEF s, Prop
<1>6. /\ IsList(list) /\ Len(list) = Len(s) /\ DOMAIN list = 1 .. Len(s)
      /\ \A i \in 1 .. Len(s) : list[i] = Prop(s[i])
  <2>1. list = [i \in DOMAIN s |-> list[i]]
    OBVIOUS
  <2>2. \A i \in 1 .. Len(s) : list[i] = Prop(s[i])
    BY <1>2
  <2> HIDE DEF list
  <2> QED
    BY <1>2, <2>1, <2>2, ListMapped, ListFacts
<1> HIDE DEF list
<1>7. \A i \in 1 .. Len(s) : list[i].name = c.props[i + 1].name
  BY <1>2, <1>4, <1>6
<1>8. Ordered(list)
  <2>1. \A i \in DOMAIN list : Rank[list[i].name] \in Int
    BY <1>1, <1>2, <1>6, <1>7 DEF WellNamed
  <2>2. ASSUME NEW i \in DOMAIN list, NEW j \in DOMAIN list, Rank[list[i].name] = Rank[list[j].name]
        PROVE  i = j
    <3>1. i + 1 \in 2 .. Len(c.props) /\ j + 1 \in 2 .. Len(c.props)
      BY <1>2, <1>6
    <3>2. i + 1 = j + 1
      BY <1>1, <1>6, <1>7, <2>2, <3>1 DEF WellNamed
    <3> QED
      BY <1>6, <3>2
  <2> QED
    BY <1>6, <2>1, <2>2 DEF Ordered
<1>9. /\ IsList(o) /\ Len(o) = Len(list)
      /\ \A n \in 1 .. Len(o) : o[n] \in Range(list) /\ ~Less(o[n], o[1])
  BY <1>3, <1>8, OrderIs
<1>10. \A n \in 1 .. Len(o) : IsProp(o[n])
  BY <1>5, <1>6, <1>9 DEF Range
<1> QED
  BY <1>2, <1>6, <1>9, <1>10

\* ReadTransforms gives a list.
LEMMA TransformsAre == ASSUME NEW c \in Configs PROVE IsList(ReadTransforms(c.transforms))
<1> DEFINE s == Stanzas(c.transforms)
           list == ReadTransforms(c.transforms)
<1>1. IsList(s)
  BY PipelineAssumption, StanzasAre
<1>2. list = [i \in DOMAIN s |-> list[i]]
  BY DEF ReadTransforms, Each
<1> HIDE DEF s, list
<1>3. IsList(list)
  BY <1>1, <1>2, ListMapped
<1> QED
  BY <1>3 DEF list

\* The transforms that a prop uses are a list of names that transforms.conf defines.
LEMMA UsedIs ==
  ASSUME IsList(transforms), NEW p, IsProp(p)
  PROVE  /\ IsList(Used(p))
         /\ \A i \in 1 .. Len(Used(p)) : Definition(Used(p)[i]).name = Used(p)[i]
<1> DEFINE stanzas == [i \in DOMAIN p.transforms |-> p.transforms[i].stanza]
           E == UNION {Range(p.transforms[i].stanza) : i \in DOMAIN p.transforms}
           K == {transforms[i].name : i \in DOMAIN transforms}
           names == FlattenSeq(stanzas)
<1>1. Used(p) = Kept(names, K)
  BY DEF Used, Each
<1>2. names \in Seq(E)
  <2>1. IsList(p.transforms) /\ \A i \in DOMAIN p.transforms : IsList(p.transforms[i].stanza)
    BY DEF IsProp
  <2>2. DOMAIN p.transforms = 1 .. Len(p.transforms) /\ Len(p.transforms) \in Nat
    BY <2>1, ListFacts
  <2>3. ASSUME NEW i \in DOMAIN p.transforms PROVE p.transforms[i].stanza \in Seq(E)
    <3> DEFINE t == p.transforms[i].stanza
               R == Range(t)
    <3>1. t \in Seq(R) /\ R \subseteq E
      BY <2>1 DEF IsList
    <3> HIDE DEF t, R, E
    <3>2. t \in Seq(E)
      BY <3>1
    <3> QED
      BY <3>2 DEF t
  <2> HIDE DEF E
  <2>4. stanzas \in [1 .. Len(p.transforms) -> Seq(E)]
    BY <2>2, <2>3
  <2> HIDE DEF stanzas
  <2>5. stanzas \in Seq(Seq(E))
    BY <2>2, <2>4
  <2> QED
    BY <2>5, FlattenType
<1> HIDE DEF E, names
<1>3. Used(p) \in Seq(E \cap K)
  <2> HIDE DEF K
  <2> QED
    BY <1>1, <1>2, KeptType
<1>4. ASSUME NEW name \in K PROVE Definition(name).name = name
  <2>1. Defined(name) # {} /\ Defined(name) \subseteq Nat
    <3>1. DOMAIN transforms = 1 .. Len(transforms) /\ Len(transforms) \in Nat
      BY ListFacts
    <3> QED
      BY <1>4, <3>1 DEF Defined
  <2>2. \E i \in Defined(name) : \A j \in Defined(name) : i <= j
    BY <2>1, Least
  <2> DEFINE k == CHOOSE i \in Defined(name) : \A j \in Defined(name) : i <= j
  <2>3. k \in Defined(name)
    BY <2>2
  <2>4. Definition(name) = transforms[k]
    BY DEF Definition
  <2> HIDE DEF k
  <2> QED
    BY <2>3, <2>4 DEF Defined
<1> HIDE DEF K
<1>5. IsList(Used(p)) /\ \A i \in 1 .. Len(Used(p)) : Used(p)[i] \in K
  <2> DEFINE u == Used(p)
  <2>1. u \in Seq(E \cap K)
    BY <1>3
  <2> HIDE DEF u
  <2>2. \A i \in 1 .. Len(u) : u[i] \in E \cap K
    BY <2>1
  <2> QED
    BY <2>1, <2>2, SeqIsList DEF u
<1> QED
  BY <1>4, <1>5

-----------------------------------------------------------------------------
(* The chain of a prop. *)

IsOperator(o) == o = [id |-> o.id, does |-> o.does, args |-> o.args, out |-> o.out]

IsOperators(list) == IsList(list) /\ \A i \in 1 .. Len(list) : IsOperator(list[i])

\* An operator has the four fields it is made with.
LEMMA OperatorIs ==
  ASSUME NEW id, NEW does, NEW args, NEW o, o = Operator(id, does, args)
  PROVE  IsOperator(o) /\ o.id = id /\ o.does = does /\ o.args = args /\ o.out = {}
  BY DEF IsOperator, Operator

\* Only the output of an operator is set.
LEMMA ToIs ==
  ASSUME NEW o, NEW id, IsOperator(o)
  PROVE  /\ IsOperator(To(o, id)) /\ To(o, id).out = {id}
         /\ To(o, id).id = o.id /\ To(o, id).does = o.does /\ To(o, id).args = o.args
<1>1. PICK i, d, a, x : o = [id |-> i, does |-> d, args |-> a, out |-> x]
  BY DEF IsOperator
<1>2. To(o, id) = [id |-> i, does |-> d, args |-> a, out |-> {id}]
  BY <1>1 DEF To
<1> QED
  BY <1>1, <1>2 DEF IsOperator

\* The operators of raw data are operators.
LEMMA RawOperators == ASSUME NEW list, RawList(list) PROVE IsOperators(list)
<1>1. IsList(list)
  BY RawIsList
<1>2. \A i \in 1 .. Len(list) : IsOperator(list[i])
  BY RawElement DEF RawOperator, IsOperator
<1> QED
  BY <1>1, <1>2 DEF IsOperators

LEMMA OperatorsEmpty == IsOperators(<<>>)
  BY ListEmpty DEF IsOperators

LEMMA OperatorsSingle == ASSUME NEW o, IsOperator(o) PROVE IsOperators(<<o>>)
  BY ListSingle DEF IsOperators

\* Two lists of operators make one.
LEMMA OperatorsConcat ==
  ASSUME NEW s, NEW t, IsOperators(s), IsOperators(t)
  PROVE  /\ IsOperators(s \o t) /\ Len(s) \in Nat /\ Len(t) \in Nat
         /\ Len(s \o t) = Len(s) + Len(t)
         /\ \A i \in 1 .. Len(s) : (s \o t)[i] = s[i]
         /\ \A i \in Len(s) + 1 .. Len(s) + Len(t) : (s \o t)[i] = t[i - Len(s)]
<1> DEFINE u == s \o t
<1>1. /\ IsList(u) /\ Len(u) = Len(s) + Len(t) /\ Len(s) \in Nat /\ Len(t) \in Nat
      /\ \A i \in 1 .. Len(s) : u[i] = s[i]
      /\ \A i \in Len(s) + 1 .. Len(s) + Len(t) : u[i] = t[i - Len(s)]
  BY ListConcat, ListFacts DEF IsOperators
<1> HIDE DEF u
<1>2. ASSUME NEW i \in 1 .. Len(u) PROVE IsOperator(u[i])
  <2>1. CASE i \in 1 .. Len(s)
    BY <1>1, <2>1 DEF IsOperators
  <2>2. CASE i \in Len(s) + 1 .. Len(s) + Len(t)
    <3>1. i - Len(s) \in 1 .. Len(t)
      BY <1>1, <2>2
    <3> QED
      BY <1>1, <2>2, <3>1 DEF IsOperators
  <2> QED
    BY <1>1, <2>1, <2>2
<1>3. IsOperators(u)
  BY <1>1, <1>2 DEF IsOperators
<1> QED
  BY <1>1, <1>3 DEF u

\* An operator for each element makes a list of operators.
LEMMA OperatorsMapped ==
  ASSUME NEW s, IsList(s), NEW g, g = [i \in DOMAIN s |-> g[i]],
         \A i \in 1 .. Len(s) : IsOperator(g[i])
  PROVE  IsOperators(g) /\ Len(g) = Len(s)
  BY ListMapped DEF IsOperators

\* The operators of a list have these ids.
Names(list, ids) == \A k \in 1 .. Len(ids) : list[k].id = ids[k]

\* What is between the first and the last operator of a prop.  A sourcetype adds a copy
\* that is misconfigured.
LEMMA CookedIs ==
  ASSUME config.cook, IsList(transforms), NEW p, IsProp(p), NEW s, s = Settings(p),
         NEW d, d = Cooked(p)
  PROVE  /\ IsOperators(d) /\ IsList(s) /\ Len(d) >= Len(s) /\ Names(d, s)
         /\ p.sourcetype = "" => Len(d) = Len(s)
         /\ p.sourcetype # "" => Len(d) = Len(s) + 1 /\ Misconfigured(d[Len(d)])
<1> DEFINE used == Used(p)
           a == Transforms(p)
           b == FieldAliases(p)
           e == SourceType(p)
           as == [i \in DOMAIN used |-> <<"transforms", p.name, used[i]>>]
           bs == [i \in DOMAIN p.aliases |-> Append(p.aliases[i].name, "copy")]
<1>1. /\ IsList(used) /\ DOMAIN used = 1 .. Len(used)
      /\ \A i \in 1 .. Len(used) : Definition(used[i]).name = used[i]
  BY UsedIs, ListFacts
<1>2. IsList(p.aliases) /\ DOMAIN p.aliases = 1 .. Len(p.aliases)
  BY ListFacts DEF IsProp
<1>3. d = (a \o b) \o e /\ s = as \o bs
  <2>1. d = (a \o b) \o e
    BY DEF Cooked
  <2> QED
    BY <2>1 DEF Settings, Each
<1>4. IsOperators(a) /\ Len(a) = Len(used) /\ \A i \in 1 .. Len(used) : a[i].id = as[i]
  <2>1. a = [i \in DOMAIN used |-> Transform(p, Definition(used[i]))]
    BY DEF Transforms, Each
  <2> HIDE DEF used, a
  <2>2. ASSUME NEW i \in 1 .. Len(used)
        PROVE  IsOperator(a[i]) /\ a[i].id = <<"transforms", p.name, used[i]>>
    <3> DEFINE t == Definition(used[i])
    <3>1. a[i] = Transform(p, t) /\ t.name = used[i]
      BY <1>1, <2>1
    <3> HIDE DEF t
    <3>2. IsOperator(a[i]) /\ a[i].id = <<"transforms", p.name, t.name>>
      BY <3>1, OperatorIs DEF Transform
    <3> QED
      BY <3>1, <3>2
  <2>3. a = [i \in DOMAIN used |-> a[i]]
    BY <2>1
  <2>4. IsOperators(a) /\ Len(a) = Len(used)
    BY <1>1, <2>2, <2>3, OperatorsMapped
  <2> QED
    BY <1>1, <2>2, <2>4
<1>5. IsOperators(b) /\ Len(b) = Len(p.aliases) /\ \A i \in 1 .. Len(p.aliases) : b[i].id = bs[i]
  <2>1. b = [i \in DOMAIN p.aliases |->
              Copy(Append(p.aliases[i].name, "copy"), p.aliases[i].from, p.aliases[i].to)]
    BY DEF FieldAliases, Each
  <2> HIDE DEF b
  <2>2. ASSUME NEW i \in 1 .. Len(p.aliases)
        PROVE  IsOperator(b[i]) /\ b[i].id = Append(p.aliases[i].name, "copy")
    <3>1. b[i] = Copy(Append(p.aliases[i].name, "copy"), p.aliases[i].from, p.aliases[i].to)
      BY <1>2, <2>1
    <3> DEFINE id == Append(p.aliases[i].name, "copy")
               args == <<p.aliases[i].from, p.aliases[i].to>>
    <3>2. b[i] = Operator(id, "copy", args)
      BY <3>1 DEF Copy
    <3> HIDE DEF id, args
    <3>3. IsOperator(b[i]) /\ b[i].id = id
      BY <3>2, OperatorIs
    <3> QED
      BY <3>3 DEF id
  <2>3. b = [i \in DOMAIN p.aliases |-> b[i]]
    BY <2>1
  <2>4. IsOperators(b) /\ Len(b) = Len(p.aliases)
    BY <1>2, <2>2, <2>3, OperatorsMapped
  <2> QED
    BY <1>2, <2>2, <2>4
<1>6. /\ IsOperators(e)
      /\ p.sourcetype = "" => Len(e) = 0
      /\ p.sourcetype # "" => Len(e) = 1 /\ Misconfigured(e[1])
  <2>1. CASE p.sourcetype = ""
    <3>1. e = <<>>
      BY <2>1 DEF SourceType
    <3> QED
      BY <2>1, <3>1, OperatorsEmpty, ListEmpty
  <2>2. CASE p.sourcetype # ""
    <3> DEFINE o == Operator(Append(p.name, "sourcetype"), "copy", <<>>)
    <3>1. e = <<o>>
      BY <2>2 DEF SourceType
    <3>2. IsOperator(o) /\ o.does = "copy" /\ o.args = <<>>
      BY OperatorIs
    <3> HIDE DEF o, e
    <3>3. IsOperators(e) /\ Len(e) = 1 /\ e[1] = o
      BY <3>1, <3>2, OperatorsSingle, ListSingle
    <3> QED
      BY <2>2, <3>2, <3>3 DEF Misconfigured
  <2> QED
    BY <2>1, <2>2
<1>7. IsList(as) /\ Len(as) = Len(used) /\ IsList(bs) /\ Len(bs) = Len(p.aliases)
  <2>1. as = [i \in DOMAIN used |-> as[i]] /\ bs = [i \in DOMAIN p.aliases |-> bs[i]]
    OBVIOUS
  <2> HIDE DEF as, bs
  <2> QED
    BY <1>1, <1>2, <2>1, ListMapped
<1> HIDE DEF used, a, b, e, as, bs
<1> DEFINE m == Len(a)
           n == Len(b)
           ab == a \o b
<1>8. m \in Nat /\ n \in Nat
  BY <1>4, <1>5, ListFacts DEF IsOperators
<1>9. /\ IsOperators(ab) /\ Len(ab) = m + n
      /\ \A i \in 1 .. m : ab[i] = a[i]
      /\ \A i \in m + 1 .. m + n : ab[i] = b[i - m]
  <2>1. IsOperators(a) /\ IsOperators(b)
    BY <1>4, <1>5
  <2> QED
    BY ONLY <2>1, OperatorsConcat DEF ab, m, n
<1> HIDE DEF ab
<1>10. /\ IsOperators(d) /\ Len(d) = m + n + Len(e) /\ Len(e) \in Nat
       /\ \A i \in 1 .. m + n : d[i] = ab[i]
       /\ \A i \in m + n + 1 .. m + n + Len(e) : d[i] = e[i - (m + n)]
  <2>1. d = ab \o e
    BY <1>3 DEF ab
  <2>2. IsOperators(ab) /\ IsOperators(e) /\ Len(ab) = m + n
    BY <1>6, <1>9
  <2> HIDE DEF m, n
  <2> DEFINE l == Len(ab)
  <2>3. /\ IsOperators(d) /\ Len(d) = l + Len(e) /\ Len(e) \in Nat
        /\ \A i \in 1 .. l : d[i] = ab[i]
        /\ \A i \in l + 1 .. l + Len(e) : d[i] = e[i - l]
    BY ONLY <2>1, <2>2, OperatorsConcat
  <2>4. l = m + n /\ l \in Nat
    BY <1>9, <2>2, ListFacts DEF IsOperators
  <2> HIDE DEF l
  <2>5. \A i \in 1 .. m + n : d[i] = ab[i]
    BY ONLY <2>3, <2>4
  <2>6. ASSUME NEW i \in m + n + 1 .. m + n + Len(e) PROVE d[i] = e[i - (m + n)]
    <3>1. i \in l + 1 .. l + Len(e) /\ i - l = i - (m + n)
      BY ONLY <2>4, <2>6
    <3>2. d[i] = e[i - l]
      BY ONLY <2>3, <3>1
    <3> QED
      BY ONLY <3>1, <3>2
  <2>7. Len(d) = m + n + Len(e)
    BY ONLY <2>3, <2>4
  <2> QED
    BY ONLY <2>3, <2>5, <2>6, <2>7
<1>11. /\ IsList(s) /\ Len(s) = m + n
       /\ \A i \in 1 .. m : s[i] = as[i]
       /\ \A i \in m + 1 .. m + n : s[i] = bs[i - m]
  <2>1. IsList(as) /\ IsList(bs) /\ s = as \o bs /\ Len(as) = m /\ Len(bs) = n
    BY <1>3, <1>4, <1>5, <1>7
  <2> HIDE DEF m, n
  <2>2. /\ IsList(s) /\ Len(s) = Len(as) + Len(bs)
        /\ \A i \in 1 .. Len(as) : s[i] = as[i]
        /\ \A i \in Len(as) + 1 .. Len(as) + Len(bs) : s[i] = bs[i - Len(as)]
    BY ONLY <2>1, ListConcat
  <2> QED
    BY <2>1, <2>2
<1> HIDE DEF m, n
<1>12. ASSUME NEW k \in 1 .. Len(s) PROVE d[k].id = s[k]
  <2>1. k \in 1 .. m + n
    BY <1>11
  <2>2. CASE k \in 1 .. m
    <3>1. a[k].id = as[k]
      BY <1>4, <2>2 DEF m
    <3> QED
      BY <1>9, <1>10, <1>11, <2>1, <2>2, <3>1
  <2>3. CASE k \in m + 1 .. m + n
    <3>1. k - m \in 1 .. Len(p.aliases)
      BY <1>5, <1>8, <2>3 DEF n
    <3>2. b[k - m].id = bs[k - m]
      BY <1>5, <3>1
    <3> QED
      BY <1>9, <1>10, <1>11, <2>1, <2>3, <3>2
  <2> QED
    BY <1>8, <2>1, <2>2, <2>3
<1>13. p.sourcetype # "" => Misconfigured(d[Len(d)])
  <2> SUFFICES ASSUME p.sourcetype # "" PROVE Misconfigured(d[Len(d)])
    OBVIOUS
  <2>1. Len(d) \in m + n + 1 .. m + n + Len(e) /\ Len(d) - (m + n) = 1
    <3>1. Len(e) = 1 /\ Len(d) = m + n + Len(e)
      BY <1>6, <1>10
    <3> DEFINE l == Len(d)
               k == Len(e)
    <3>2. k = 1 /\ l = m + n + k /\ m \in Nat /\ n \in Nat
      BY <1>8, <3>1
    <3> HIDE DEF k, l
    <3>3. l \in m + n + 1 .. m + n + k /\ l - (m + n) = 1
      BY ONLY <3>2
    <3> QED
      BY <3>3 DEF k, l
  <2>2. d[Len(d)] = e[1]
    BY <1>10, <2>1
  <2> QED
    BY <1>6, <2>2
<1>14. Len(d) = Len(s) + Len(e) /\ Len(s) \in Nat /\ Len(e) \in Nat
  <2> DEFINE i == Len(d)
             j == Len(s)
             k == Len(e)
  <2>1. i = m + n + k /\ j = m + n /\ m \in Nat /\ n \in Nat /\ k \in Nat
    BY <1>8, <1>10, <1>11
  <2> HIDE DEF i, j, k
  <2>2. i = j + k /\ j \in Nat /\ k \in Nat
    BY ONLY <2>1
  <2> QED
    BY <2>2 DEF i, j, k
<1>15. /\ Len(d) >= Len(s)
       /\ p.sourcetype = "" => Len(d) = Len(s)
       /\ p.sourcetype # "" => Len(d) = Len(s) + 1
  <2>1. p.sourcetype = "" => Len(e) = 0
    BY <1>6
  <2>2. p.sourcetype # "" => Len(e) = 1
    BY <1>6
  <2> DEFINE i == Len(d)
             j == Len(s)
             k == Len(e)
             plain == p.sourcetype = ""
  <2>3. i = j + k /\ j \in Nat /\ k \in Nat /\ (plain => k = 0) /\ (~plain => k = 1)
    BY <1>14, <2>1, <2>2
  <2> HIDE DEF i, j, k, plain
  <2>4. i >= j /\ (plain => i = j) /\ (~plain => i = j + 1)
    BY ONLY <2>3
  <2> QED
    BY <2>4 DEF i, j, k, plain
<1> QED
  BY <1>10, <1>11, <1>12, <1>13, <1>15 DEF Names

\* Link sets the outputs of a chain and changes nothing else.
LEMMA LinkIs ==
  ASSUME NEW chain, IsOperators(chain), NEW c, c = Link(chain)
  PROVE  /\ IsOperators(c) /\ Len(c) = Len(chain)
         /\ \A i \in 1 .. Len(c) :
               /\ c[i].id = chain[i].id /\ c[i].does = chain[i].does /\ c[i].args = chain[i].args
               /\ c[i].out = {IF i = Len(c) THEN <<"end">> ELSE c[i + 1].id}
<1>1. IsList(chain) /\ Len(chain) \in Nat /\ DOMAIN chain = 1 .. Len(chain)
  BY ListFacts DEF IsOperators
<1> DEFINE Next1(i) == IF i = Len(chain) THEN <<"end">> ELSE chain[i + 1].id
<1>2. c = [i \in DOMAIN chain |-> To(chain[i], Next1(i))]
  BY DEF Link, To
<1> HIDE DEF Next1
<1>3. \A i \in 1 .. Len(chain) :
        /\ IsOperator(c[i]) /\ c[i].out = {Next1(i)}
        /\ c[i].id = chain[i].id /\ c[i].does = chain[i].does /\ c[i].args = chain[i].args
  BY <1>1, <1>2, ToIs DEF IsOperators
<1>4. c = [i \in DOMAIN chain |-> c[i]]
  BY <1>2
<1>5. IsOperators(c) /\ Len(c) = Len(chain)
  BY <1>1, <1>3, <1>4, OperatorsMapped
<1>6. ASSUME NEW i \in 1 .. Len(c) PROVE c[i].out = {IF i = Len(c) THEN <<"end">> ELSE c[i + 1].id}
  <2>1. i # Len(chain) => i + 1 \in 1 .. Len(chain)
    <3> DEFINE n == Len(chain)
    <3>1. n \in Nat /\ i \in 1 .. n
      BY <1>1, <1>5
    <3> HIDE DEF n
    <3>2. i # n => i + 1 \in 1 .. n
      BY ONLY <3>1
    <3> QED
      BY <3>2 DEF n
  <2> QED
    BY <1>3, <1>5, <2>1 DEF Next1
<1> QED
  BY <1>3, <1>5, <1>6

\* Every operator leads to the next one, the last one to "end".
Linked(c) == \A i \in 1 .. Len(c) : c[i].out = {IF i = Len(c) THEN <<"end">> ELSE c[i + 1].id}

\* The operators after the first one have the ids of these settings.
Carries(c, s) == \A k \in 1 .. Len(s) : c[k + 1].id = s[k]

\* The chain of a prop: an operator for each setting in between two others.
LEMMA ChainIs ==
  ASSUME IsList(transforms), NEW p, IsProp(p), NEW c, c = CreateOperatorConfigs(p),
         NEW s, s = Settings(p)
  PROVE  /\ IsOperators(c) /\ Len(c) \in Nat /\ Len(c) >= 2 /\ Linked(c)
         /\ config.cook =>
               /\ IsList(s) /\ Len(s) \in Nat /\ Len(c) >= Len(s) + 2
               /\ Carries(c, s)
               /\ p.sourcetype = "" => Len(c) = Len(s) + 2
               /\ p.sourcetype # "" => \E i \in 1 .. Len(c) : Misconfigured(c[i])
<1> DEFINE d == Cooked(p)
           start == Noop(Append(p.name, "start"))
           end == Noop(Append(p.name, "end"))
           sd == <<start>> \o d
           chain == sd \o <<end>>
           n == Len(d)
<1>1. c = Link(chain)
  BY DEF CreateOperatorConfigs
<1>2. IsOperators(d)
  <2>1. CASE config.cook
    BY <2>1, CookedIs
  <2>2. CASE ~config.cook
    BY <2>2, OperatorsEmpty DEF Cooked
  <2> QED
    BY <2>1, <2>2
<1>3. n \in Nat
  BY <1>2, ListFacts DEF IsOperators
<1>4. IsOperator(start) /\ IsOperator(end)
  BY OperatorIs DEF Noop
<1> HIDE DEF start, end
<1>5. IsOperators(<<start>>) /\ IsOperators(<<end>>) /\ Len(<<start>>) = 1 /\ Len(<<end>>) = 1
  BY <1>4, OperatorsSingle, ListSingle
<1>6. IsOperators(sd) /\ Len(sd) = 1 + n /\ \A k \in 1 .. n : sd[1 + k] = d[k]
  <2> HIDE DEF d
  <2> DEFINE one == <<start>>
  <2>1. IsOperators(one) /\ Len(one) = 1
    BY <1>5
  <2> HIDE DEF one
  <2> DEFINE u == one \o d
  <2>2. /\ IsOperators(u) /\ Len(u) = Len(one) + Len(d)
        /\ \A i \in Len(one) + 1 .. Len(one) + Len(d) : u[i] = d[i - Len(one)]
    <3>1. IsOperators(d)
      BY <1>2
    <3> HIDE DEF n, sd, chain
    <3> QED
      BY ONLY <2>1, <3>1, OperatorsConcat DEF u
  <2>3. u = sd
    BY DEF one
  <2> HIDE DEF u, sd, n
  <2>4. ASSUME NEW k \in 1 .. n PROVE u[1 + k] = d[k]
    <3>1. 1 + k \in 1 + 1 .. 1 + n /\ (1 + k) - 1 = k
      BY <1>3
    <3> QED
      BY <2>1, <2>2, <3>1 DEF n
  <2> QED
    BY <2>1, <2>2, <2>3, <2>4 DEF n
<1> HIDE DEF sd
<1>7. /\ IsOperators(chain) /\ Len(chain) = n + 2
      /\ \A k \in 1 .. n : chain[k + 1] = d[k]
  <2> DEFINE one == <<end>>
  <2>1. IsOperators(one) /\ Len(one) = 1
    BY <1>5
  <2> HIDE DEF one
  <2>2. /\ IsOperators(sd \o one) /\ Len(sd \o one) = Len(sd) + Len(one)
        /\ \A i \in 1 .. Len(sd) : (sd \o one)[i] = sd[i]
    BY ONLY <1>6, <2>1, OperatorsConcat
  <2> HIDE DEF n
  <2>3. \A k \in 1 .. n : k + 1 \in 1 .. Len(sd) /\ sd[k + 1] = d[k]
    BY <1>3, <1>6
  <2>4. Len(sd) + Len(one) = n + 2
    BY <1>3, <1>6, <2>1
  <2> QED
    BY <2>2, <2>3, <2>4 DEF one
<1> HIDE DEF chain
<1>8. /\ IsOperators(c) /\ Len(c) = n + 2
      /\ \A i \in 1 .. Len(c) :
            /\ c[i].id = chain[i].id /\ c[i].does = chain[i].does /\ c[i].args = chain[i].args
            /\ c[i].out = {IF i = Len(c) THEN <<"end">> ELSE c[i + 1].id}
  BY <1>1, <1>7, LinkIs
<1>9. ASSUME config.cook
      PROVE  /\ IsList(s) /\ Len(s) \in Nat /\ Len(c) >= Len(s) + 2
             /\ \A k \in 1 .. Len(s) : c[k + 1].id = s[k]
             /\ p.sourcetype = "" => Len(c) = Len(s) + 2
             /\ p.sourcetype # "" => \E i \in 1 .. Len(c) : Misconfigured(c[i])
  <2>1. d = Cooked(p) /\ s = Settings(p) /\ IsList(transforms) /\ IsProp(p)
    OBVIOUS
  <2> HIDE DEF d
  <2>2. /\ IsList(s) /\ n >= Len(s)
        /\ \A k \in 1 .. Len(s) : d[k].id = s[k]
        /\ p.sourcetype = "" => n = Len(s)
        /\ p.sourcetype # "" => n = Len(s) + 1 /\ Misconfigured(d[n])
    <3>1. config.cook
      BY <1>9
    <3> HIDE DEF n
    <3>2. IsList(s)
      BY ONLY <2>1, <3>1, CookedIs
    <3>3. Len(d) >= Len(s)
      BY ONLY <2>1, <3>1, CookedIs
    <3>4. Names(d, s)
      BY ONLY <2>1, <3>1, CookedIs
    <3>5. p.sourcetype = "" => Len(d) = Len(s)
      BY ONLY <2>1, <3>1, CookedIs
    <3>6. p.sourcetype # "" => Len(d) = Len(s) + 1
      BY ONLY <2>1, <3>1, CookedIs
    <3>7. p.sourcetype # "" => Misconfigured(d[Len(d)])
      BY ONLY <2>1, <3>1, CookedIs
    <3> QED
      BY ONLY <3>2, <3>3, <3>4, <3>5, <3>6, <3>7 DEF n, Names
  <2> DEFINE l == Len(s)
             m == Len(c)
  <2>3. n \in Nat /\ l \in Nat /\ n >= l /\ m = n + 2
    BY <1>3, <1>8, <2>2, ListFacts
  <2> HIDE DEF l, m, n
  <2>4. ASSUME NEW k \in 1 .. l PROVE c[k + 1].id = s[k]
    <3>1. k \in 1 .. n /\ k + 1 \in 1 .. m
      BY ONLY <2>3, <2>4
    <3>2. c[k + 1].id = chain[k + 1].id
      BY <1>8, <3>1 DEF m
    <3>3. chain[k + 1] = d[k]
      BY <1>7, <3>1
    <3>4. d[k].id = s[k]
      BY <2>2, <2>4 DEF l
    <3> QED
      BY <3>2, <3>3, <3>4
  <2>5. ASSUME p.sourcetype # "" PROVE \E i \in 1 .. m : Misconfigured(c[i])
    <3>1. n = l + 1 /\ Misconfigured(d[n])
      BY <2>2, <2>5 DEF l
    <3>2. n \in 1 .. n /\ n + 1 \in 1 .. m
      BY ONLY <2>3, <3>1
    <3>3. c[n + 1].does = chain[n + 1].does /\ c[n + 1].args = chain[n + 1].args
      BY <1>8, <3>2 DEF m
    <3>4. chain[n + 1] = d[n]
      BY <1>7, <3>2
    <3>5. Misconfigured(c[n + 1])
      BY <3>1, <3>3, <3>4 DEF Misconfigured
    <3> QED
      BY <3>2, <3>5
  <2>6. m >= l + 2 /\ (n = l => m = l + 2)
    BY ONLY <2>3
  <2> QED
    BY <2>2, <2>3, <2>4, <2>5, <2>6 DEF l, m
<1>10. Len(c) \in Nat /\ Len(c) >= 2
  <2> DEFINE m == Len(c)
  <2>1. m = n + 2
    BY <1>8
  <2> HIDE DEF m, n
  <2>2. m \in Nat /\ m >= 2
    BY ONLY <1>3, <2>1
  <2> QED
    BY <2>2 DEF m
<1> QED
  BY <1>8, <1>9, <1>10 DEF Linked, Carries
-----------------------------------------------------------------------------
(* The files as read. *)

FileInv ==
    /\ phase = "read" => props = <<>>
    /\ phase = "failed" => props \in {<<>>, ReadProps(config.props)}
    /\ phase \notin {"read", "failed"} =>
          /\ props = ReadProps(config.props) /\ transforms = ReadTransforms(config.transforms)
          /\ ~Disabled(input)

\* The files are read once, and stay.
LEMMA FileStep == FileInv /\ [Next]_vars => FileInv'
<1> SUFFICES ASSUME FileInv, [Next]_vars PROVE FileInv'
  OBVIOUS
<1>1. CASE ReadFiles
  BY <1>1 DEF ReadFiles, FileInv
<1>2. CASE ReadFails
  BY <1>2 DEF ReadFails, FileInv, read
<1>3. CASE /\ UNCHANGED read
           /\ phase \notin {"read", "failed"} \/ phase' = phase
           /\ phase' # "read" \/ phase' = phase
  <2>1. UNCHANGED <<config, input, transforms, props>>
    BY <1>3 DEF read
  <2> QED
    BY <1>3, <2>1 DEF FileInv
<1>4. \/ ReadFiles \/ ReadFails
      \/ /\ UNCHANGED read
         /\ phase \notin {"read", "failed"} \/ phase' = phase
         /\ phase' # "read" \/ phase' = phase
  <2>1. CASE UNCHANGED vars
    BY <2>1 DEF vars
  <2>2. CASE Next
    BY <2>2 DEF Next, Create, createSetSourceOperator, AddProp, AddEnd, Build, BuildFails,
       Emit, Process
  <2> QED
    BY <2>1, <2>2
<1> QED
  BY <1>1, <1>2, <1>3, <1>4

\* What FileInv says of the props, element by element.
LEMMA FileFacts ==
  ASSUME config \in Configs, FileInv
  PROVE  /\ IsList(props) /\ Len(props) \in Nat /\ DOMAIN props = 1 .. Len(props)
         /\ Len(props) <= Len(config.props) - 1
         /\ \A n \in 1 .. Len(props) : IsProp(props[n]) /\ ~Less(props[n], props[1])
         /\ phase \notin {"read", "failed"} => IsList(transforms)
<1>1. Len(config.props) \in Nat /\ Len(config.props) >= 1
  <2>1. IsList(config.props) /\ config.props # <<>>
    BY PipelineAssumption DEF WellFormed, IsList
  <2>2. Len(config.props) \in Nat /\ config.props = [i \in 1 .. Len(config.props) |-> config.props[i]]
    BY <2>1, ListFacts
  <2>3. CASE Len(config.props) = 0
    <3>1. DOMAIN config.props = {}
      BY <2>2, <2>3
    <3>2. config.props \in Seq(Range(config.props))
      BY <2>1 DEF IsList
    <3>3. config.props = <<>>
      BY <2>3, <3>2
    <3> QED
      BY <2>1, <3>3
  <2> QED
    BY <2>2, <2>3
<1>2. props = <<>> \/ props = ReadProps(config.props)
  BY DEF FileInv
<1>3. IsList(props) /\ Len(props) \in Nat /\ DOMAIN props = 1 .. Len(props)
  BY <1>2, PropsAre, ListEmpty, ListFacts
<1>4. Len(props) <= Len(config.props) - 1
  <2>1. CASE props = <<>>
    BY <1>1, <2>1
  <2>2. CASE props = ReadProps(config.props)
    <3>1. Len(props) = Len(config.props) - 1
      BY <2>2, PropsAre
    <3> DEFINE m == Len(props)
               n == Len(config.props)
    <3>2. m = n - 1 /\ n \in Nat
      BY <1>1, <3>1
    <3> HIDE DEF m, n
    <3>3. m <= n - 1
      BY ONLY <3>2
    <3> QED
      BY <3>3 DEF m, n
  <2> QED
    BY <1>2, <2>1, <2>2
<1>5. \A n \in 1 .. Len(props) : IsProp(props[n]) /\ ~Less(props[n], props[1])
  <2>1. CASE props = <<>>
    BY <2>1
  <2>2. CASE props = ReadProps(config.props)
    BY <2>2, PropsAre
  <2> QED
    BY <1>2, <2>1, <2>2
<1>6. phase \notin {"read", "failed"} => IsList(transforms)
  BY TransformsAre DEF FileInv
<1> QED
  BY <1>3, <1>4, <1>5, <1>6

-----------------------------------------------------------------------------
(* The list of operators, cooked or raw. *)

\* The number of operators before the first prop.
Lead == IF HasPath THEN 1 ELSE 0

Chains == [j \in DOMAIN props |-> CreateOperatorConfigs(props[j])]

\* The last operator of the first prop.
Exit == IF props = <<>> THEN Lead ELSE Lead + Len(Chains[1])

\* A chain follows the first o operators of a list, within the first m.
Holds(list, m, o, c) == o + Len(c) <= m /\ \A k \in 1 .. Len(c) : list[o + k] = c[k]

\* The first m operators of a list are those of n props.
Laid(chains, lead, list, m, n) ==
    /\ IF n = 0 THEN m = lead ELSE Holds(list, m, lead, chains[1])
    /\ \A j \in 2 .. n : \E o \in lead + Len(chains[1]) .. m : Holds(list, m, o, chains[j])

Unique(list) == \A i, j \in DOMAIN list : list[i].id = list[j].id => i = j

LaidInv ==
    /\ IsOperators(operators) /\ next \in 1 .. Len(props) + 1
    /\ phase \in {"read", "create", "start"} => operators = <<>> /\ next = 1
    /\ phase = "list" =>
          /\ Laid(Chains, Lead, operators, Len(operators), next - 1)
          /\ Lead = 1 => operators[1].out = {}
    /\ phase = "build" =>
          /\ M \in Nat /\ Laid(Chains, Lead, operators, M, Len(props)) /\ Ending(operators, M)
          /\ Lead = 1 => operators[1].out = {}
    /\ phase \in {"ready", "flow"} =>
          /\ M \in Nat /\ Laid(Chains, Lead, operators, M, Len(props)) /\ Ending(operators, M)
          /\ Lead = 1 => operators[1].out = {operators[2].id}
          /\ Unique(operators) /\ ~Dangling(operators)
          /\ \A i \in DOMAIN operators : ~Misconfigured(operators[i])

\* The chains depend on the files and the input only.
LEMMA SameChains ==
  ASSUME UNCHANGED read
  PROVE  UNCHANGED <<Kind, Lead, Exit, Chains>>
<1>1. UNCHANGED <<config, input, transforms, props>>
  BY DEF read
<1>2. UNCHANGED <<Kind, Lead>>
  BY <1>1 DEF Kind, Lead, HasPath
<1>3. ASSUME NEW j PROVE CreateOperatorConfigs(props[j])' = CreateOperatorConfigs(props[j])
  <2> DEFINE p == props[j]
  <2>1. Used(p)' = Used(p)
    BY <1>1 DEF Used, Each
  <2>2. Transforms(p)' = Transforms(p)
    <3>1. \A name : Definition(name)' = Definition(name)
      BY <1>1 DEF Definition, Defined
    <3> QED
      BY <1>1, <2>1, <3>1 DEF Transforms, Each
  <2>3. FieldAliases(p)' = FieldAliases(p) /\ SourceType(p)' = SourceType(p)
    BY <1>1 DEF FieldAliases, SourceType, Each
  <2> QED
    BY <1>1, <2>2, <2>3 DEF CreateOperatorConfigs, Cooked
<1>4. UNCHANGED Chains
  BY <1>1, <1>3 DEF Chains
<1> QED
  BY <1>1, <1>2, <1>4 DEF Exit

\* A chain stays where it is in a list that grows.
LEMMA HoldsStays ==
  ASSUME NEW list, NEW longer, NEW m \in Nat, NEW n \in Nat, m <= n,
         \A i \in 1 .. m : longer[i] = list[i],
         NEW o \in Nat, NEW c, Len(c) \in Nat, Holds(list, m, o, c)
  PROVE  Holds(longer, n, o, c)
<1> DEFINE l == Len(c)
<1>1. l \in Nat /\ o + l <= m /\ \A k \in 1 .. l : list[o + k] = c[k]
  BY DEF Holds
<1> HIDE DEF l
<1>2. o + l <= n /\ \A k \in 1 .. l : o + k \in 1 .. m
  BY <1>1
<1>3. o + l <= n /\ \A k \in 1 .. l : longer[o + k] = c[k]
  BY <1>1, <1>2
<1> QED
  BY <1>3 DEF Holds, l
\* What the chains of the props are.
LEMMA ChainFacts ==
  ASSUME config \in Configs, FileInv, phase \notin {"read", "failed"}, NEW j \in 1 .. Len(props)
  PROVE  /\ IsProp(props[j]) /\ IsOperators(Chains[j]) /\ Len(Chains[j]) \in Nat /\ Len(Chains[j]) >= 2
         /\ \A i \in 1 .. Len(Chains[j]) :
               Chains[j][i].out = {IF i = Len(Chains[j]) THEN <<"end">> ELSE Chains[j][i + 1].id}
<1>1. IsList(transforms) /\ IsProp(props[j])
  BY FileFacts
<1> DEFINE c == Chains[j]
           s == Settings(props[j])
<1>2. c = CreateOperatorConfigs(props[j]) /\ s = Settings(props[j])
  BY FileFacts DEF Chains
<1> HIDE DEF c, s
<1>3. IsOperators(c) /\ Len(c) \in Nat /\ Len(c) >= 2 /\ Linked(c)
  BY ONLY <1>1, <1>2, ChainIs
<1> QED
  BY <1>1, <1>3 DEF c, Linked

\* There is one operator before the props or none.
LEMMA LeadIs == Lead \in 0 .. 1 /\ Lead \in Nat
  BY DEF Lead

\* The first prop is behind the first operator.
LEMMA ExitIs ==
  ASSUME config \in Configs, FileInv, phase \notin {"read", "failed"}
  PROVE  /\ Exit \in Nat /\ Exit >= Lead
         /\ props = <<>> => Exit = Lead
         /\ props # <<>> => 1 \in 1 .. Len(props) /\ Exit = Lead + Len(Chains[1])
<1>1. CASE props = <<>>
  BY <1>1, LeadIs DEF Exit
<1>2. CASE props # <<>>
  <2>1. 1 \in 1 .. Len(props)
    <3>1. IsList(props)
      BY FileFacts
    <3>2. Len(props) \in Nat /\ props \in Seq(Range(props))
      BY <3>1, ListFacts DEF IsList
    <3>3. Len(props) # 0
      BY <1>2, <3>2
    <3> QED
      BY <3>2, <3>3
  <2>2. Len(Chains[1]) \in Nat
    BY <2>1, ChainFacts
  <2>3. Exit = Lead + Len(Chains[1])
    BY <1>2 DEF Exit
  <2> DEFINE l == Len(Chains[1])
  <2>4. l \in Nat /\ Exit = Lead + l
    BY <2>2, <2>3
  <2> HIDE DEF l
  <2>5. Exit \in Nat /\ Exit >= Lead
    BY <2>4, LeadIs
  <2> QED
    BY <1>2, <2>1, <2>3, <2>5
<1> QED
  BY <1>1, <1>2

\* The list of so many props stays where it is when the list grows.
LEMMA LaidStays ==
  ASSUME config \in Configs, FileInv, phase \notin {"read", "failed"},
         NEW list, NEW longer, NEW m \in Nat, NEW l \in Nat, m <= l,
         \A i \in 1 .. m : longer[i] = list[i],
         NEW n \in 0 .. Len(props), n = 0 => l = m, Laid(Chains, Lead, list, m, n)
  PROVE  Laid(Chains, Lead, longer, l, n)
<1>1. Len(props) \in Nat
  BY FileFacts
<1>2. ASSUME NEW j \in 1 .. Len(props), NEW o \in Nat, Holds(list, m, o, Chains[j])
      PROVE  Holds(longer, l, o, Chains[j])
  <2>1. Len(Chains[j]) \in Nat
    BY ChainFacts
  <2> QED
    BY <1>2, <2>1, HoldsStays
<1>3. Lead \in Nat
  BY LeadIs
<1>4. IF n = 0 THEN l = Lead ELSE Holds(longer, l, Lead, Chains[1])
  <2>1. CASE n = 0
    BY <2>1 DEF Laid
  <2>2. CASE n # 0
    <3>1. 1 \in 1 .. Len(props)
      BY <1>1, <2>2
    <3> QED
      BY <1>2, <1>3, <2>2, <3>1 DEF Laid
  <2> QED
    BY <2>1, <2>2
<1>5. ASSUME NEW j \in 2 .. n PROVE \E o \in Lead + Len(Chains[1]) .. l : Holds(longer, l, o, Chains[j])
  <2> DEFINE e == Lead + Len(Chains[1])
  <2>1. PICK o \in e .. m : Holds(list, m, o, Chains[j])
    BY DEF Laid
  <2>2. j \in 1 .. Len(props) /\ 1 \in 1 .. Len(props)
    BY <1>1
  <2>3. e \in Nat
    BY <1>3, <2>2, ChainFacts
  <2> HIDE DEF e
  <2>4. o \in Nat /\ o \in e .. l
    BY <2>3
  <2>5. Holds(longer, l, o, Chains[j])
    BY <1>2, <2>1, <2>2, <2>4
  <2> QED
    BY <2>4, <2>5 DEF e
<1> QED
  BY <1>4, <1>5 DEF Laid

\* The chain of the next prop goes behind those of the others.
LEMMA LaidGrows ==
  ASSUME config \in Configs, FileInv, phase \notin {"read", "failed"},
         IsOperators(operators), NEW n \in 1 .. Len(props), Laid(Chains, Lead, operators, Len(operators), n - 1),
         NEW list, list = operators \o Chains[n]
  PROVE  Laid(Chains, Lead, list, Len(list), n)
<1> DEFINE m == Len(operators)
           l == Len(list)
           c == Chains[n]
           k == Len(c)
<1>1. /\ m \in Nat /\ k \in Nat /\ l = m + k
      /\ \A i \in 1 .. m : list[i] = operators[i]
      /\ \A i \in m + 1 .. m + k : list[i] = c[i - m]
  <2>1. IsOperators(c)
    BY ChainFacts
  <2> HIDE DEF c
  <2> QED
    BY <2>1, OperatorsConcat DEF c
<1>2. Len(props) \in Nat
  BY FileFacts
<1>3. Holds(list, l, m, c)
  <2> HIDE DEF k, m, l, c
  <2>1. \A i \in 1 .. k : m + i \in m + 1 .. m + k /\ (m + i) - m = i
    BY <1>1
  <2>2. ASSUME NEW i \in 1 .. k PROVE list[m + i] = c[i]
    BY ONLY <1>1, <2>1, <2>2
  <2>3. m + k <= l
    BY ONLY <1>1
  <2> QED
    BY <2>2, <2>3 DEF Holds, k
<1> HIDE DEF k, m, l, c
<1>4. CASE n = 1
  <2>1. m = Lead
    BY <1>4 DEF Laid, m
  <2>2. Holds(list, l, Lead, Chains[1])
    BY <1>3, <1>4, <2>1 DEF c
  <2> QED
    BY <1>4, <2>2 DEF Laid, l
<1>5. CASE n # 1
  <2>1. n - 1 \in 0 .. Len(props) /\ n - 1 # 0 /\ l \in Nat /\ m <= l
    BY <1>1, <1>2, <1>5
  <2>2. Laid(Chains, Lead, list, l, n - 1)
    BY <1>1, <2>1, LaidStays DEF m
  <2>3. Exit <= m /\ Exit \in Nat
    <3>1. Holds(operators, m, Lead, Chains[1])
      BY <2>1 DEF Laid, m
    <3>2. props # <<>>
      BY <1>2
    <3> QED
      BY <3>1, <3>2, ExitIs DEF Holds
  <2>4. m \in Exit .. l /\ Exit = Lead + Len(Chains[1])
    <3>1. props # <<>>
      BY <1>2
    <3> QED
      BY <1>1, <2>1, <2>3, <3>1, ExitIs
  <2>5. ASSUME NEW j \in 2 .. n PROVE \E o \in Lead + Len(Chains[1]) .. l : Holds(list, l, o, Chains[j])
    <3>1. CASE j = n
      BY <1>3, <2>4, <3>1 DEF c
    <3>2. CASE j # n
      <4>1. j \in 2 .. n - 1
        BY <1>2, <3>2
      <4> QED
        BY <2>2, <4>1 DEF Laid
    <3> QED
      BY <3>1, <3>2
  <2>6. n # 0 /\ Holds(list, l, Lead, Chains[1])
    BY <1>2, <2>1, <2>2 DEF Laid
  <2> QED
    BY <2>5, <2>6 DEF Laid, l
<1> QED
  BY <1>4, <1>5

\* The list has the operator before the props.
LEMMA LaidLead ==
  ASSUME config \in Configs, FileInv, phase \notin {"read", "failed"},
         NEW list, NEW m \in Nat, NEW n \in 0 .. Len(props), Laid(Chains, Lead, list, m, n)
  PROVE  Lead <= m
<1>1. Lead \in Nat
  BY LeadIs
<1>2. CASE n = 0
  BY <1>1, <1>2 DEF Laid
<1>3. CASE n # 0
  <2>1. 1 \in 1 .. Len(props)
    BY <1>3, FileFacts
  <2> DEFINE l == Len(Chains[1])
  <2>2. l \in Nat
    BY <2>1, ChainFacts
  <2>3. Lead + l <= m
    BY <1>3 DEF Laid, Holds
  <2> HIDE DEF l
  <2> QED
    BY <1>1, <2>2, <2>3
<1> QED
  BY <1>2, <1>3

\* Connecting the list changes only the operators that have no output.
LEMMA ConnectedIs ==
  ASSUME IsOperators(operators), NEW c, c = Connected
  PROVE  /\ IsOperators(c) /\ Len(c) = Len(operators)
         /\ \A i \in 1 .. Len(operators) :
               /\ c[i].id = operators[i].id
               /\ c[i].does = operators[i].does /\ c[i].args = operators[i].args
               /\ operators[i].out # {} \/ i = Len(operators) => c[i] = operators[i]
               /\ operators[i].out = {} /\ i # Len(operators) => c[i].out = {operators[i + 1].id}
<1>1. IsList(operators) /\ Len(operators) \in Nat /\ DOMAIN operators = 1 .. Len(operators)
  BY ListFacts DEF IsOperators
<1>2. c = [i \in DOMAIN operators |-> c[i]]
  BY DEF Connected
<1>3. ASSUME NEW i \in 1 .. Len(operators)
      PROVE  /\ IsOperator(c[i]) /\ c[i].id = operators[i].id
             /\ c[i].does = operators[i].does /\ c[i].args = operators[i].args
             /\ operators[i].out # {} \/ i = Len(operators) => c[i] = operators[i]
             /\ operators[i].out = {} /\ i # Len(operators) => c[i].out = {operators[i + 1].id}
  <2>1. IsOperator(operators[i])
    BY DEF IsOperators
  <2>2. CASE operators[i].out # {} \/ i = Len(operators)
    <3>1. c[i] = operators[i]
      BY <1>1, <2>2 DEF Connected
    <3> QED
      BY <2>1, <2>2, <3>1
  <2>3. CASE ~(operators[i].out # {} \/ i = Len(operators))
    <3>1. c[i] = To(operators[i], operators[i + 1].id)
      BY <1>1, <2>3 DEF Connected
    <3> QED
      BY <2>1, <2>3, <3>1, ToIs
  <2> QED
    BY <2>2, <2>3
<1>4. IsOperators(c) /\ Len(c) = Len(operators)
  BY <1>1, <1>2, <1>3, OperatorsMapped
<1> QED
  BY <1>3, <1>4

\* Building leaves the chains where they are and tells their ids apart.
LEMMA BuildLays ==
  ASSUME config \in Configs, FileInv, LaidInv, Build
  PROVE  LaidInv'
<1> DEFINE c == Connected
           n == Len(props)
           m == M
<1>1. /\ UNCHANGED <<read, next>> /\ phase = "build" /\ phase' = "ready" /\ operators' = c
      /\ IsOperators(operators) /\ m \in Nat /\ Laid(Chains, Lead, operators, m, n) /\ Ending(operators, m)
      /\ next \in 1 .. n + 1 /\ (Lead = 1 => operators[1].out = {})
  BY DEF Build, LaidInv
<1>2. /\ ~Duplicate(c) /\ ~Dangling(c) /\ \A i \in DOMAIN c : ~Misconfigured(c[i])
  BY DEF Build, Builds, Refused
<1>3. n \in Nat
  BY FileFacts
<1>4. Len(operators) = m + 5
  BY <1>1, ListFacts DEF M, IsOperators
<1>5. /\ IsOperators(c) /\ Len(c) = m + 5 /\ DOMAIN c = 1 .. m + 5
      /\ \A i \in 1 .. m + 5 :
            /\ c[i].id = operators[i].id
            /\ operators[i].out # {} \/ i = m + 5 => c[i] = operators[i]
            /\ operators[i].out = {} /\ i # m + 5 => c[i].out = {operators[i + 1].id}
  <2>1. c = Connected /\ IsOperators(operators)
    BY <1>1
  <2> HIDE DEF c, m
  <2>2. /\ IsOperators(c) /\ Len(c) = Len(operators)
        /\ \A i \in 1 .. Len(operators) :
              /\ c[i].id = operators[i].id
              /\ operators[i].out # {} \/ i = Len(operators) => c[i] = operators[i]
              /\ operators[i].out = {} /\ i # Len(operators) => c[i].out = {operators[i + 1].id}
    BY ONLY <2>1, ConnectedIs
  <2>3. IsList(c)
    BY <2>2 DEF IsOperators
  <2>4. DOMAIN c = 1 .. Len(c)
    BY <2>3, ListFacts
  <2> QED
    BY <1>4, <2>2, <2>4
<1> HIDE DEF c, m, n
<1>6. Unique(c)
  <2>1. Len(c) \in Nat /\ DOMAIN c = 1 .. Len(c)
    BY <1>1, <1>5
  <2>2. \A i, j \in DOMAIN c : c[i].id = c[j].id => i = j
    BY ONLY <1>2, <2>1, Distinct
  <2> QED
    BY <2>2 DEF Unique
<1>7. Ending(c, m)
  <2>1. /\ m + 1 \in 1 .. m + 5 /\ m + 2 \in 1 .. m + 5 /\ m + 3 \in 1 .. m + 5 /\ m + 5 \in 1 .. m + 5
    BY <1>1
  <2>2. /\ operators[m + 1].out # {} /\ operators[m + 2].out # {} /\ operators[m + 3].out # {}
    BY <1>1 DEF Ending
  <2>3. /\ c[m + 1] = operators[m + 1] /\ c[m + 2] = operators[m + 2]
        /\ c[m + 3] = operators[m + 3] /\ c[m + 5] = operators[m + 5]
    BY <1>5, <2>1, <2>2
  <2> QED
    BY <1>1, <2>3 DEF Ending
<1>8. ASSUME NEW j \in 1 .. n, NEW o \in Nat, Holds(operators, m, o, Chains[j])
      PROVE  Holds(c, m, o, Chains[j])
  <2> DEFINE d == Chains[j]
             l == Len(d)
  <2>1. l \in Nat /\ \A k \in 1 .. l : d[k].out # {}
    BY <1>1, ChainFacts DEF n
  <2>2. o + l <= m /\ \A k \in 1 .. l : operators[o + k] = d[k]
    BY <1>8 DEF Holds
  <2> HIDE DEF d, l
  <2>3. \A k \in 1 .. l : o + k \in 1 .. m + 5
    BY <1>1, <2>1, <2>2
  <2>4. o + l <= m /\ \A k \in 1 .. l : c[o + k] = d[k]
    BY <1>5, <2>1, <2>2, <2>3
  <2> QED
    BY <2>4 DEF Holds, d, l
<1>9. Laid(Chains, Lead, c, m, n)
  <2>1. Lead \in Nat
    BY LeadIs
  <2>2. CASE n = 0
    BY <1>1, <2>2 DEF Laid
  <2>3. CASE n # 0
    <3>1. 1 \in 1 .. n /\ \A j \in 2 .. n : j \in 1 .. n
      BY <1>3, <2>3
    <3>2. Holds(c, m, Lead, Chains[1])
      BY <1>1, <1>8, <2>1, <2>3, <3>1 DEF Laid
    <3>3. ASSUME NEW j \in 2 .. n PROVE \E o \in Lead + Len(Chains[1]) .. m : Holds(c, m, o, Chains[j])
      <4> DEFINE e == Lead + Len(Chains[1])
      <4>1. PICK o \in e .. m : Holds(operators, m, o, Chains[j])
        BY <1>1 DEF Laid
      <4>2. e \in Nat
        BY <1>1, <2>1, <3>1, ChainFacts DEF n
      <4> HIDE DEF e
      <4>3. o \in Nat
        BY <4>2
      <4>4. Holds(c, m, o, Chains[j])
        BY <1>8, <3>1, <4>1, <4>3
      <4> QED
        BY <4>4 DEF e
    <3> QED
      BY <2>3, <3>2, <3>3 DEF Laid
  <2> QED
    BY <2>2, <2>3
<1>10. Lead = 1 => c[1].out = {c[2].id}
  <2>1. 1 \in 1 .. m + 5 /\ 2 \in 1 .. m + 5 /\ 1 # m + 5
    BY <1>1
  <2> QED
    BY <1>1, <1>5, <2>1
<1>11. M' = m /\ n' = n /\ Lead' = Lead
  BY <1>1, <1>4, <1>5, SameChains DEF M, m, n, read
<1>12. Laid(Chains, Lead, operators, M, Len(props))'
  BY <1>1, <1>9, <1>11, SameChains DEF n
<1> QED
  BY <1>1, <1>2, <1>5, <1>6, <1>7, <1>10, <1>11, <1>12 DEF LaidInv, n
LEMMA LaidStart == Init => LaidInv
  BY OperatorsEmpty, ListEmpty DEF Init, LaidInv

\* Before there is a list.
LEMMA LaidFirst ==
  ASSUME config \in Configs, FileInv, LaidInv,
         ReadFiles \/ ReadFails \/ Create \/ createSetSourceOperator
  PROVE  LaidInv'
<1>1. CASE ReadFiles
  <2>1. /\ operators' = operators /\ next' = next /\ operators = <<>> /\ next = 1
        /\ IsOperators(operators) /\ phase' = "create" /\ props' = ReadProps(config.props)
    BY <1>1 DEF ReadFiles, LaidInv
  <2>2. Len(props') \in Nat
    BY <2>1, PropsAre, ListFacts
  <2>3. next' \in 1 .. Len(props') + 1
    BY <2>1, <2>2
  <2> QED
    BY <2>1, <2>3 DEF LaidInv
<1>2. CASE ReadFails
  BY <1>2 DEF ReadFails, read, LaidInv
<1>3. CASE Create
  BY <1>3 DEF Create, read, LaidInv
<1>4. CASE createSetSourceOperator
  <2> DEFINE start == Move(<<"start">>, "log.file.path", "source")
  <2>1. IsOperator(start) /\ start.out = {}
    BY OperatorIs DEF Move
  <2>2. /\ UNCHANGED <<read, next>> /\ next = 1 /\ phase' = "list"
        /\ next \in 1 .. Len(props) + 1
        /\ operators' = IF HasPath THEN <<start>> ELSE <<>>
    BY <1>4 DEF createSetSourceOperator, LaidInv
  <2> HIDE DEF start
  <2>3. /\ IsOperators(operators') /\ Len(operators') = Lead
        /\ Lead = 1 => operators'[1].out = {}
    <3>1. CASE HasPath
      <4>1. operators' = <<start>> /\ Lead = 1
        BY <2>2, <3>1 DEF Lead
      <4> QED
        BY <2>1, <4>1, OperatorsSingle, ListSingle
    <3>2. CASE ~HasPath
      <4>1. operators' = <<>> /\ Lead = 0
        BY <2>2, <3>2 DEF Lead
      <4> QED
        BY <4>1, OperatorsEmpty, ListEmpty
    <3> QED
      BY <3>1, <3>2
  <2>4. UNCHANGED <<Lead, Chains, props>>
    BY <2>2, SameChains DEF read
  <2>5. next' - 1 = 0 /\ \A j \in 2 .. 0 : FALSE
    BY <2>2
  <2>6. Laid(Chains, Lead, operators', Len(operators'), 0)
    BY <2>3, <2>5 DEF Laid
  <2>7. Laid(Chains, Lead, operators, Len(operators), next - 1)'
    BY <2>4, <2>5, <2>6
  <2> QED
    BY <2>2, <2>3, <2>4, <2>7 DEF LaidInv
<1> QED
  BY <1>1, <1>2, <1>3, <1>4

\* One more prop is laid behind the others.
LEMMA LaidProp ==
  ASSUME config \in Configs, FileInv, LaidInv, AddProp
  PROVE  LaidInv'
<1> DEFINE m == Len(operators)
           list == operators'
<1>1. /\ UNCHANGED read /\ phase = "list" /\ phase' = "list" /\ next \in DOMAIN props
      /\ IsOperators(operators) /\ list = operators \o CreateOperatorConfigs(props[next])
      /\ Laid(Chains, Lead, operators, m, next - 1)
      /\ next' = next + 1 /\ (Lead = 1 => operators[1].out = {})
  BY DEF AddProp, LaidInv
<1>2. next \in 1 .. Len(props) /\ Len(props) \in Nat /\ next - 1 \in 0 .. Len(props)
  BY <1>1, FileFacts
<1>3. list = operators \o Chains[next]
  BY <1>1 DEF Chains
<1>4. /\ IsOperators(list) /\ m \in Nat /\ \A i \in 1 .. m : list[i] = operators[i]
  <2> DEFINE c == Chains[next]
  <2>1. IsOperators(c) /\ list = operators \o c
    BY <1>1, <1>2, <1>3, ChainFacts
  <2> HIDE DEF c, list
  <2> QED
    BY <1>1, <2>1, OperatorsConcat
<1>5. Laid(Chains, Lead, list, Len(list), next)
  <2> HIDE DEF list
  <2> QED
    BY <1>1, <1>2, <1>3, LaidGrows
<1>6. Lead <= m
  BY <1>1, <1>2, <1>4, LaidLead
<1>7. Lead = 1 => list[1].out = {}
  <2> HIDE DEF list, m
  <2>1. Lead = 1 => 1 \in 1 .. m
    BY <1>4, <1>6
  <2> QED
    BY <1>1, <1>4, <2>1
<1>8. UNCHANGED <<Lead, Chains, props>>
  BY <1>1, SameChains DEF read
<1>9. next' - 1 = next /\ next' \in 1 .. Len(props) + 1
  BY <1>1, <1>2
<1>10. Laid(Chains, Lead, operators, Len(operators), next - 1)'
  BY <1>5, <1>8, <1>9
<1> QED
  BY <1>1, <1>4, <1>7, <1>8, <1>9, <1>10 DEF LaidInv

\* The ending goes behind the last prop.
LEMMA LaidEnd ==
  ASSUME config \in Configs, FileInv, LaidInv, AddEnd
  PROVE  LaidInv'
<1> DEFINE end == <<To(Noop(<<"end">>), <<"end", "source">>)>>
           tail == end \o renameMetadata
           m == Len(operators)
           list == operators'
<1>1. /\ UNCHANGED <<read, next>> /\ phase = "list" /\ phase' = "build" /\ next \notin DOMAIN props
      /\ IsOperators(operators) /\ list = (operators \o end) \o renameMetadata
      /\ Laid(Chains, Lead, operators, m, next - 1)
      /\ next \in 1 .. Len(props) + 1 /\ (Lead = 1 => operators[1].out = {})
  BY DEF AddEnd, LaidInv
<1>2. Len(props) \in Nat /\ next - 1 = Len(props) /\ Len(props) \in 0 .. Len(props)
  BY <1>1, FileFacts
<1>3. IsList(end) /\ IsList(renameMetadata)
  BY ListSingle, RawIsList, RawRename
<1>4. IsOperators(tail) /\ Len(tail) = 5 /\ Ending(tail, 0)
  BY RawEnding, RawOperators
<1> HIDE DEF end
<1>5. list = operators \o tail
  <2>1. IsList(operators)
    BY <1>1 DEF IsOperators
  <2>2. (operators \o end) \o renameMetadata = operators \o (end \o renameMetadata)
    BY ONLY <1>3, <2>1, ListAssoc
  <2> QED
    BY ONLY <1>1, <2>2 DEF tail
<1> HIDE DEF tail
<1>6. /\ IsOperators(list) /\ m \in Nat /\ Len(list) = m + 5
      /\ \A i \in 1 .. m : list[i] = operators[i]
      /\ \A i \in m + 1 .. m + 5 : list[i] = tail[i - m]
  <2>1. IsOperators(operators) /\ IsOperators(tail)
    BY <1>1, <1>4
  <2> HIDE DEF list
  <2>2. /\ IsOperators(list) /\ m \in Nat /\ Len(list) = m + Len(tail)
        /\ \A i \in 1 .. m : list[i] = operators[i]
        /\ \A i \in m + 1 .. m + Len(tail) : list[i] = tail[i - m]
    BY ONLY <1>5, <2>1, OperatorsConcat
  <2> QED
    BY <1>4, <2>2
<1> HIDE DEF m, list
<1>7. Ending(list, m)
  <2>1. /\ {m + 1, m + 2, m + 3, m + 5} \subseteq m + 1 .. m + 5
        /\ (m + 1) - m = 1 /\ (m + 2) - m = 2 /\ (m + 3) - m = 3 /\ (m + 5) - m = 5
    BY <1>6
  <2>2. /\ list[m + 1] = tail[1] /\ list[m + 2] = tail[2]
        /\ list[m + 3] = tail[3] /\ list[m + 5] = tail[5]
    BY <1>6, <2>1
  <2>3. 0 + 1 = 1 /\ 0 + 2 = 2 /\ 0 + 3 = 3 /\ 0 + 5 = 5
    OBVIOUS
  <2> QED
    BY <1>4, <2>2, <2>3 DEF Ending
<1>8. Laid(Chains, Lead, list, m, Len(props)) /\ Lead <= m
  <2>1. phase \notin {"read", "failed"} /\ Laid(Chains, Lead, operators, m, Len(props))
    BY <1>1, <1>2 DEF m
  <2>2. m <= m /\ Len(props) \in 0 .. Len(props) /\ (Len(props) = 0 => m = m)
    BY <1>2, <1>6
  <2>3. Lead <= m
    BY <1>6, <2>1, <2>2, LaidLead
  <2>4. Laid(Chains, Lead, list, m, Len(props))
    BY <1>6, <2>1, <2>2, LaidStays
  <2> QED
    BY <2>3, <2>4
<1>9. Lead = 1 => list[1].out = {}
  <2>1. Lead = 1 => 1 \in 1 .. m
    BY <1>6, <1>8
  <2> QED
    BY <1>1, <1>6, <2>1
<1>10. M' = m /\ UNCHANGED <<Lead, Chains, props>>
  <2>1. M' = Len(list) - 5
    BY DEF M, list
  <2> QED
    BY <1>1, <1>6, <2>1, SameChains DEF read
<1>11. Laid(Chains, Lead, operators, M, Len(props))' /\ Ending(operators, M)'
  BY <1>7, <1>8, <1>10 DEF list
<1> QED
  BY <1>1, <1>6, <1>9, <1>10, <1>11 DEF LaidInv, list

\* Every step keeps the chains in one piece.
LEMMA LaidStep ==
  ASSUME config \in Configs, FileInv, LaidInv, [Next]_vars
  PROVE  LaidInv'
<1>1. CASE BuildFails
  BY <1>1 DEF BuildFails, LaidInv, read
<1>2. CASE Emit \/ Process \/ UNCHANGED vars
  <2>1. UNCHANGED <<read, operators, next>>
        /\ (phase' = phase \/ (phase \in {"ready", "flow"} /\ phase' = "flow"))
    BY <1>2 DEF Emit, Process, vars
  <2>2. UNCHANGED <<Lead, Chains, props, operators, next, M>>
    BY <2>1, SameChains DEF read, M
  <2>3. UNCHANGED <<Dangling(operators), Unique(operators), Ending(operators, M),
                    Laid(Chains, Lead, operators, M, Len(props)),
                    Laid(Chains, Lead, operators, Len(operators), next - 1)>>
    BY <2>2
  <2>4. (\A i \in DOMAIN operators : ~Misconfigured(operators[i])) =>
            (\A i \in DOMAIN operators : ~Misconfigured(operators[i]))'
    BY <2>2
  <2> QED
    BY <2>1, <2>2, <2>3, <2>4 DEF LaidInv
<1> QED
  BY <1>1, <1>2, LaidFirst, LaidProp, LaidEnd, BuildLays DEF Next
-----------------------------------------------------------------------------
(* An entry on its way. *)

\* What each prop asks for, and what of it an entry has been through.
Given == [j \in DOMAIN props |-> Settings(props[j])]
Carried == [j \in DOMAIN props |-> Done(props[j])]

\* How much of the first prop is done when an entry is at an operator.
Count ==
    IF at <= Lead + 1 THEN 0
    ELSE IF at <= Exit THEN at - Lead - 2 ELSE Len(Given[1])

\* An entry takes the first prop from its start to its end, then goes to the five last
\* operators; of the other props it sees nothing.
FlowInv ==
    /\ path \in Seq(Ids(operators)) /\ Len(path) < at
    /\ at \in 1 .. Exit \cup {M + 1, M + 2, M + 3, M + 5, M + 6}
    /\ config.cook =>
          /\ \A j \in 2 .. Len(props) : Carried[j] = <<>>
          /\ props # <<>> => Carried[1] = [i \in 1 .. Count |-> Given[1][i]]

WayInv == IF phase = "flow" THEN FlowInv ELSE at = 1 /\ path = <<>>

\* What the props ask for depends on the files only.
LEMMA SameGiven == ASSUME UNCHANGED read PROVE UNCHANGED Given
<1>1. UNCHANGED <<config, input, transforms, props>>
  BY DEF read
<1>2. ASSUME NEW j PROVE Settings(props[j])' = Settings(props[j])
  <2>1. Used(props[j])' = Used(props[j])
    BY <1>1 DEF Used, Each
  <2> QED
    BY <1>1, <2>1 DEF Settings, Each
<1> QED
  BY <1>1, <1>2 DEF Given

\* What an entry that moves on has been through.
LEMMA CarriedStep ==
  ASSUME UNCHANGED read, NEW x \in Ids(operators), path \in Seq(Ids(operators)),
         path' = Append(path, x), NEW j \in DOMAIN props
  PROVE  Carried'[j] = IF x \in Range(Given[j]) THEN Append(Carried[j], x) ELSE Carried[j]
<1>1. UNCHANGED <<Given, props>>
  BY SameGiven DEF read
<1>2. Carried = [k \in DOMAIN props |-> Kept(path, Range(Given[k]))]
  BY DEF Carried, Given, Done
<1>3. Carried' = [k \in DOMAIN props |-> Kept(path', Range(Given[k]))]
  <2>1. Carried' = [k \in DOMAIN props' |-> Kept(path', Range(Given'[k]))]
    BY DEF Carried, Given, Done
  <2> QED
    BY <1>1, <2>1
<1> DEFINE K == Range(Given[j])
<1>4. Carried[j] = Kept(path, K) /\ Carried'[j] = Kept(path', K)
  BY <1>2, <1>3
<1> HIDE DEF K
<1>5. Kept(Append(path, x), K) = IF x \in K THEN Append(Kept(path, K), x) ELSE Kept(path, K)
  BY KeptAppend
<1> QED
  BY <1>4, <1>5 DEF K

\* The prop's operators carry out what it asks for.
LEMMA ChainSettings ==
  ASSUME config \in Configs, FileInv, phase \notin {"read", "failed"}, config.cook,
         NEW j \in 1 .. Len(props)
  PROVE  /\ IsList(Given[j]) /\ Len(Given[j]) \in Nat
         /\ Len(Chains[j]) \in Nat /\ Len(Chains[j]) >= Len(Given[j]) + 2
         /\ Carries(Chains[j], Given[j])
         /\ \/ Len(Chains[j]) = Len(Given[j]) + 2
            \/ \E i \in 1 .. Len(Chains[j]) : Misconfigured(Chains[j][i])
<1> DEFINE c == Chains[j]
           s == Given[j]
           p == props[j]
<1>1. c = CreateOperatorConfigs(p) /\ s = Settings(p) /\ IsProp(p) /\ IsList(transforms)
  BY FileFacts DEF Chains, Given
<1>2. config.cook
  OBVIOUS
<1> HIDE DEF c, s, p
<1>3. IsList(s) /\ Len(s) \in Nat /\ Len(c) \in Nat /\ Len(c) >= Len(s) + 2 /\ Carries(c, s)
  BY ONLY <1>1, <1>2, ChainIs
<1>4. /\ p.sourcetype = "" => Len(c) = Len(s) + 2
      /\ p.sourcetype # "" => \E i \in 1 .. Len(c) : Misconfigured(c[i])
  BY ONLY <1>1, <1>2, ChainIs
<1> QED
  BY <1>3, <1>4 DEF c, s

\* The operators after the first o + 1 are those of the settings s, and no others are.
Placed(o, s) ==
    /\ o + Len(s) + 2 <= M
    /\ \A k \in 1 .. Len(s) : operators[o + 1 + k].id = s[k]
    /\ \A a \in 1 .. M + 5 : operators[a].id \in Range(s) => a \in o + 2 .. o + 1 + Len(s)

\* A built list ends with the five operators of the ending.
LEMMA BuiltFacts ==
  ASSUME LaidInv, phase \in {"ready", "flow"}
  PROVE  M \in Nat /\ Len(operators) = M + 5 /\ DOMAIN operators = 1 .. M + 5
<1>1. M \in Nat /\ IsList(operators)
  BY DEF LaidInv, IsOperators
<1>2. Len(operators) \in Nat /\ DOMAIN operators = 1 .. Len(operators)
  BY <1>1, ListFacts
<1> DEFINE l == Len(operators)
<1>3. M = l - 5 /\ l \in Nat
  BY <1>2 DEF M
<1> HIDE DEF l
<1>4. l = M + 5
  BY <1>1, <1>3
<1> QED
  BY <1>1, <1>2, <1>4 DEF l

\* A chain in a built list places its settings there, and nowhere else.
LEMMA HeldIsPlaced ==
  ASSUME config \in Configs, FileInv, LaidInv, phase \in {"ready", "flow"}, config.cook,
         NEW j \in 1 .. Len(props), NEW o \in Nat, Holds(operators, M, o, Chains[j])
  PROVE  Placed(o, Given[j])
<1> DEFINE c == Chains[j]
           s == Given[j]
           l == Len(s)
           n == Len(c)
           m == M
<1>1. m \in Nat /\ DOMAIN operators = 1 .. m + 5 /\ Unique(operators)
  BY BuiltFacts DEF LaidInv
<1>2. IsList(s) /\ l \in Nat /\ n \in Nat /\ n >= l + 2 /\ Carries(c, s)
  BY ChainSettings
<1>3. o + n <= m /\ \A k \in 1 .. n : operators[o + k] = c[k]
  BY DEF Holds
<1>4. DOMAIN s = 1 .. l
  BY <1>2, ListFacts
<1>5. \A k \in 1 .. l : c[k + 1].id = s[k]
  BY <1>2 DEF Carries
<1> HIDE DEF c, s, l, n, m
<1>6. ASSUME NEW k \in 1 .. l
      PROVE  operators[o + 1 + k].id = s[k] /\ o + 1 + k \in 1 .. m + 5 /\ o + 1 + k \in o + 2 .. o + 1 + l
  <2>1. k + 1 \in 1 .. n /\ o + (k + 1) = o + 1 + k
    BY <1>2
  <2>2. o + 1 + k \in 1 .. m + 5 /\ o + 1 + k \in o + 2 .. o + 1 + l
    BY <1>1, <1>2, <1>3
  <2> QED
    BY <1>3, <1>5, <2>1, <2>2
<1>7. o + l + 2 <= m
  BY <1>1, <1>2, <1>3
<1>8. ASSUME NEW a \in 1 .. m + 5, operators[a].id \in Range(s)
      PROVE  a \in o + 2 .. o + 1 + l
  <2>1. PICK k \in 1 .. l : operators[a].id = s[k]
    BY <1>4, <1>8 DEF Range
  <2>2. a = o + 1 + k
    BY <1>1, <1>6, <2>1 DEF Unique
  <2> QED
    BY <1>6, <2>2
<1> QED
  BY <1>6, <1>7, <1>8 DEF Placed, l, m, s
\* The first prop begins after the first operator, and an entry that comes to its end
\* has been through all of it; the others are further down.
LEMMA PropsArePlaced ==
  ASSUME config \in Configs, FileInv, LaidInv, phase \in {"ready", "flow"}
  PROVE  /\ Exit \in Nat /\ Exit <= M
         /\ props = <<>> => Exit = M /\ Exit = Lead
         /\ props # <<>> => Exit >= Lead + 2 /\ Holds(operators, M, Lead, Chains[1])
         /\ config.cook /\ props # <<>> =>
               Placed(Lead, Given[1]) /\ Exit = Lead + Len(Given[1]) + 2
         /\ config.cook => \A j \in 2 .. Len(props) : \E o \in Nat : o >= Exit /\ Placed(o, Given[j])
<1> DEFINE n == Len(props)
           m == M
           e == Lead + Len(Chains[1])
<1>1. /\ m \in Nat /\ DOMAIN operators = 1 .. m + 5 /\ Laid(Chains, Lead, operators, m, n)
      /\ \A i \in DOMAIN operators : ~Misconfigured(operators[i])
      /\ phase \notin {"read", "failed"} /\ Lead \in Nat
  BY BuiltFacts, LeadIs DEF LaidInv
<1>2. n \in Nat /\ IsList(props)
  BY FileFacts
<1>3. /\ Exit \in Nat /\ (props = <<>> => Exit = Lead)
      /\ props # <<>> => 1 \in 1 .. n /\ Exit = e
  BY <1>1, ExitIs
<1>4. CASE props = <<>>
  <2>1. n = 0
    BY <1>4
  <2>2. m = Lead
    BY <1>1, <2>1 DEF Laid
  <2>3. \A j \in 2 .. n : FALSE
    BY <2>1
  <2> QED
    BY <1>3, <1>4, <2>2, <2>3
<1>5. CASE props # <<>>
  <2> DEFINE c == Chains[1]
             l == Len(c)
  <2>1. 1 \in 1 .. n /\ n # 0 /\ l \in Nat /\ l >= 2 /\ Exit = Lead + l
    BY <1>1, <1>3, <1>5, ChainFacts
  <2>2. Holds(operators, m, Lead, c)
    BY <1>1, <2>1 DEF Laid
  <2>3. Lead + l <= m /\ \A k \in 1 .. l : operators[Lead + k] = c[k]
    BY <2>2 DEF Holds
  <2>4. ASSUME config.cook
        PROVE  Placed(Lead, Given[1]) /\ Exit = Lead + Len(Given[1]) + 2
    <3>1. Placed(Lead, Given[1])
      BY <1>1, <2>1, <2>2, <2>4, HeldIsPlaced
    <3> DEFINE g == Len(Given[1])
    <3>2. /\ g \in Nat
          /\ l = g + 2 \/ \E i \in 1 .. l : Misconfigured(c[i])
      BY <1>1, <2>1, <2>4, ChainSettings
    <3> HIDE DEF c, l, g, m
    <3>3. ASSUME NEW i \in 1 .. l PROVE ~Misconfigured(c[i])
      <4>1. Lead + i \in 1 .. m + 5
        BY <1>1, <2>1, <2>3
      <4> QED
        BY <1>1, <2>3, <4>1
    <3>4. Exit = Lead + g + 2
      BY <1>1, <2>1, <3>2, <3>3
    <3> QED
      BY <3>1, <3>4 DEF g
  <2>5. ASSUME config.cook, NEW j \in 2 .. n
        PROVE  \E o \in Nat : o >= Exit /\ Placed(o, Given[j])
    <3>1. PICK o \in e .. m : Holds(operators, m, o, Chains[j])
      BY <1>1 DEF Laid
    <3>2. e = Exit
      BY <1>3, <1>5
    <3> HIDE DEF e, m, n, c, l
    <3>3. o \in Nat /\ o >= Exit /\ j \in 1 .. n
      BY <1>2, <1>3, <3>2
    <3>4. Placed(o, Given[j])
      BY <2>5, <3>1, <3>3, HeldIsPlaced DEF m, n
    <3> QED
      BY <3>3, <3>4
  <2>6. Exit <= m /\ Exit >= Lead + 2
    <3> HIDE DEF l, m
    <3> QED
      BY <1>1, <2>1, <2>3
  <2> QED
    BY <1>3, <1>5, <2>2, <2>4, <2>5, <2>6
<1> QED
  BY <1>4, <1>5

\* The operator that an entry goes to next.
LEMMA WayIs ==
  ASSUME config \in Configs, FileInv, LaidInv, FlowInv, Process
  PROVE  /\ at \in 1 .. M + 5 /\ at \in 1 .. Exit \cup {M + 1, M + 2, M + 3, M + 5}
         /\ at' = IF at < Exit THEN at + 1
                  ELSE IF at = Exit THEN M + 1
                  ELSE IF at = M + 3 THEN M + 5 ELSE at + 1
<1> DEFINE m == M
           Out(i) == operators[i].out
<1>1. /\ m \in Nat /\ Len(operators) = m + 5 /\ DOMAIN operators = 1 .. m + 5
      /\ Unique(operators) /\ Ending(operators, m)
      /\ Lead = 1 => Out(1) = {operators[2].id}
      /\ phase = "flow" /\ at # m + 6 /\ at' = Target(operators, at)
  BY BuiltFacts DEF LaidInv, Process, End
<1>2. /\ Exit \in Nat /\ Exit <= m /\ Lead \in 0 .. 1
      /\ props = <<>> => Exit = m /\ Exit = Lead
      /\ props # <<>> => Exit >= Lead + 2 /\ Holds(operators, m, Lead, Chains[1])
  BY <1>1, PropsArePlaced, LeadIs
<1>3. at \in 1 .. Exit \cup {m + 1, m + 2, m + 3, m + 5, m + 6}
  BY DEF FlowInv
<1> HIDE DEF m
<1>4. at \in 1 .. m + 5 /\ at \in 1 .. Exit \cup {m + 1, m + 2, m + 3, m + 5}
  BY <1>1, <1>2, <1>3
<1>5. ASSUME NEW j \in 1 .. m + 5, Out(at) = {operators[j].id} PROVE at' = j
  <2>1. at # End(operators) /\ operators[at].out = {operators[j].id}
    BY <1>1, <1>5 DEF End
  <2> HIDE DEF Out
  <2> QED
    BY <1>1, <1>4, <2>1, TargetIs DEF Unique
<1>6. CASE at = m + 1 \/ at = m + 2 \/ at = m + 3 \/ at = m + 5
  <2>1. ~(at < Exit) /\ at # Exit
    BY <1>1, <1>2, <1>6
  <2>2. {m + 2, m + 3, m + 5} \subseteq 1 .. m + 5
    BY <1>1
  <2>3. CASE at = m + 1
    <3>1. Out(at) = {operators[m + 2].id}
      BY <1>1, <2>3 DEF Ending
    <3>2. at' = m + 2
      BY <1>5, <2>2, <3>1
    <3> QED
      BY <1>1, <1>4, <2>1, <2>3, <3>2 DEF m
  <2>4. CASE at = m + 2
    <3>1. Out(at) = {operators[m + 3].id}
      BY <1>1, <2>4 DEF Ending
    <3>2. at' = m + 3
      BY <1>5, <2>2, <3>1
    <3> QED
      BY <1>1, <1>4, <2>1, <2>4, <3>2 DEF m
  <2>5. CASE at = m + 3
    <3>1. Out(at) = {operators[m + 5].id}
      BY <1>1, <2>5 DEF Ending
    <3>2. at' = m + 5
      BY <1>5, <2>2, <3>1
    <3> QED
      BY <1>1, <1>4, <2>1, <2>5, <3>2 DEF m
  <2>6. CASE at = m + 5
    <3>1. Out(at) = {}
      BY <1>1, <2>6 DEF Ending
    <3>2. at' = m + 6
      BY <1>1, <3>1 DEF Target, End
    <3> QED
      BY <1>1, <1>4, <2>1, <2>6, <3>2 DEF m
  <2> QED
    BY <1>6, <2>3, <2>4, <2>5, <2>6
<1>7. CASE at \in 1 .. Exit
  <2>1. m + 1 \in 1 .. m + 5 /\ operators[m + 1].id = <<"end">>
    BY <1>1 DEF Ending
  <2>2. CASE at = Lead
    <3>1. Lead = 1 /\ at = 1
      BY <1>2, <1>7, <2>2
    <3>2. at' = 2
      <4>1. 2 \in 1 .. m + 5 /\ Out(at) = {operators[2].id}
        BY <1>1, <3>1
      <4> QED
        BY <1>5, <4>1
    <3>3. at' = IF at < Exit THEN at + 1 ELSE m + 1
      BY <1>1, <1>2, <3>1, <3>2
    <3> QED
      BY <1>2, <1>4, <1>7, <3>3 DEF m
  <2>3. CASE at # Lead
    <3> DEFINE c == Chains[1]
               l == Len(c)
               k == at - Lead
    <3>1. props # <<>>
      BY <1>2, <1>7, <2>3
    <3>2. 1 \in 1 .. Len(props) /\ Exit = Lead + l /\ phase \notin {"read", "failed"}
      BY <1>1, <3>1, ExitIs
    <3>3. l \in Nat /\ \A i \in 1 .. l : c[i].out = {IF i = l THEN <<"end">> ELSE c[i + 1].id}
      BY <3>2, ChainFacts
    <3>4. \A i \in 1 .. l : operators[Lead + i] = c[i]
      BY <1>2, <3>1 DEF Holds
    <3> HIDE DEF c, l
    <3>5. k \in 1 .. l /\ Lead + k = at /\ (k = l <=> at = Exit)
          /\ (k # l => k + 1 \in 1 .. l /\ Lead + (k + 1) = at + 1 /\ at + 1 \in 1 .. m + 5)
      BY <1>1, <1>2, <1>7, <2>3, <3>2, <3>3
    <3> HIDE DEF k
    <3>6. CASE k = l
      <4>1. Out(at) = {operators[m + 1].id}
        BY <2>1, <3>3, <3>4, <3>5, <3>6
      <4>2. at' = m + 1 /\ at = Exit
        BY <1>5, <2>1, <3>5, <3>6, <4>1
      <4> QED
        BY <1>2, <1>4, <4>2 DEF m
    <3>7. CASE k # l
      <4>1. operators[at] = c[k] /\ operators[at + 1] = c[k + 1]
        BY <3>4, <3>5, <3>7
      <4>2. Out(at) = {operators[at + 1].id}
        BY <3>3, <3>5, <3>7, <4>1
      <4>3. at' = at + 1 /\ at < Exit
        BY <1>2, <1>5, <1>7, <3>5, <3>7, <4>2
      <4> QED
        BY <1>4, <4>3 DEF m
    <3> QED
      BY <3>6, <3>7
  <2> QED
    BY <2>2, <2>3
<1> QED
  BY <1>4, <1>6, <1>7
\* The first elements of a sequence, and one more.
LEMMA OneMore ==
  ASSUME NEW s, NEW k \in Nat, NEW d, d = [i \in 1 .. k |-> s[i]], NEW x, x = s[k + 1]
  PROVE  Append(d, x) = [i \in 1 .. k + 1 |-> s[i]]
<1> DEFINE S == {s[i] : i \in 1 .. k + 1}
           e == Append(d, x)
<1>1. \A i \in 1 .. k : i \in 1 .. k + 1 /\ s[i] \in S
  OBVIOUS
<1>2. k + 1 \in 1 .. k + 1 /\ x \in S
  OBVIOUS
<1> HIDE DEF S
<1>3. d \in Seq(S) /\ Len(d) = k /\ \A i \in 1 .. k : d[i] = s[i]
  BY <1>1
<1>4. /\ e \in Seq(S) /\ Len(e) = k + 1 /\ e[k + 1] = x
      /\ \A i \in 1 .. k : e[i] = d[i]
  BY <1>2, <1>3
<1> HIDE DEF e
<1>5. e = [i \in 1 .. k + 1 |-> e[i]]
  BY <1>4
<1>6. ASSUME NEW i \in 1 .. k + 1 PROVE e[i] = s[i]
  <2>1. i = k + 1 \/ i \in 1 .. k
    OBVIOUS
  <2> QED
    BY <1>3, <1>4, <2>1
<1>7. e = [i \in 1 .. k + 1 |-> s[i]]
  BY <1>5, <1>6
<1> QED
  BY <1>7 DEF e

LEMMA NothingYet == ASSUME NEW s PROVE [i \in 1 .. 0 |-> s[i]] = <<>>
  OBVIOUS

\* An entry starts at the first operator with nothing done.
LEMMA WayStart ==
  ASSUME config \in Configs, FileInv, LaidInv, WayInv, Emit
  PROVE  FlowInv'
<1>1. /\ UNCHANGED <<read, operators, at, path>> /\ at = 1 /\ path = <<>> /\ phase = "ready"
  BY DEF Emit, WayInv
<1>2. UNCHANGED <<props, config, Lead, Exit, Given, M>>
  BY <1>1, SameChains, SameGiven DEF read, M
<1>3. /\ M \in Nat /\ Exit \in Nat /\ Exit <= M /\ Lead \in 0 .. 1
      /\ props = <<>> => Exit = M
      /\ props # <<>> => Exit >= Lead + 2
  BY <1>1, PropsArePlaced, BuiltFacts, LeadIs
<1>4. at' \in 1 .. Exit \cup {M + 1}
  BY <1>1, <1>3
<1>5. Len(props) \in Nat /\ DOMAIN props = 1 .. Len(props)
  BY FileFacts
<1>6. \A j \in 1 .. Len(props) : Carried'[j] = <<>>
  <2>1. Carried' = [j \in DOMAIN props' |-> Kept(path', Range(Given'[j]))]
    BY DEF Carried, Given, Done
  <2> QED
    BY <1>1, <1>2, <1>5, <2>1, KeptNone
<1>7. Count' = 0
  <2>1. at' <= Lead' + 1
    BY <1>1, <1>2, <1>3
  <2> QED
    BY <2>1 DEF Count
<1>8. props # <<>> => Carried'[1] = [i \in 1 .. Count' |-> Given'[1][i]]
  <2>1. props # <<>> => 1 \in 1 .. Len(props)
    BY <1>1, ExitIs
  <2> QED
    BY <1>6, <1>7, <2>1, NothingYet
<1>9. path' \in Seq(Ids(operators)') /\ Len(path') < at'
  <2> DEFINE S == Ids(operators)'
  <2> HIDE DEF S
  <2>1. path' \in Seq(S) /\ Len(path') = 0
    BY <1>1
  <2> QED
    BY <1>1, <2>1 DEF S
<1>10. \A j \in 2 .. Len(props) : Carried'[j] = <<>>
  BY <1>5, <1>6
<1> QED
  BY <1>2, <1>4, <1>8, <1>9, <1>10 DEF FlowInv

\* What the entry does at one operator of the first prop, and at any other.
LEMMA CountIs ==
  ASSUME config \in Configs, FileInv, LaidInv, FlowInv, Process, config.cook, props # <<>>
  PROVE  /\ Count \in Nat
         /\ operators[at].id \in Range(Given[1]) =>
               Count' = Count + 1 /\ operators[at].id = Given[1][Count + 1]
         /\ operators[at].id \notin Range(Given[1]) => Count' = Count
<1> DEFINE m == M
           s == Given[1]
           l == Len(s)
           x == operators[at].id
<1>1. /\ UNCHANGED <<Lead, Exit, s>> /\ phase = "flow"
  BY SameChains, SameGiven DEF Process
<1>2. 1 \in 1 .. Len(props) /\ phase \notin {"read", "failed"}
  BY <1>1, ExitIs
<1>3. IsList(s) /\ l \in Nat /\ DOMAIN s = 1 .. l
  BY <1>2, ChainSettings, ListFacts
<1>4. /\ Exit \in Nat /\ Exit <= m /\ m \in Nat /\ Lead \in 0 .. 1 /\ Exit = Lead + l + 2
      /\ Placed(Lead, s)
  BY <1>1, PropsArePlaced, BuiltFacts, LeadIs
<1>5. /\ at \in 1 .. m + 5 /\ at \in 1 .. Exit \cup {m + 1, m + 2, m + 3, m + 5}
      /\ at' = IF at < Exit THEN at + 1
               ELSE IF at = Exit THEN m + 1
               ELSE IF at = m + 3 THEN m + 5 ELSE at + 1
  BY WayIs
<1>6. /\ \A k \in 1 .. l : operators[Lead + 1 + k].id = s[k]
      /\ x \in Range(s) => at \in Lead + 2 .. Lead + 1 + l
  BY <1>4, <1>5 DEF Placed
<1>7. /\ Count = IF at <= Lead + 1 THEN 0 ELSE IF at <= Exit THEN at - Lead - 2 ELSE l
      /\ Count' = IF at' <= Lead + 1 THEN 0 ELSE IF at' <= Exit THEN at' - Lead - 2 ELSE l
  BY <1>1 DEF Count
<1>8. at \in Lead + 2 .. Lead + 1 + l => x \in Range(s) /\ x = s[at - Lead - 1]
  <2> SUFFICES ASSUME at \in Lead + 2 .. Lead + 1 + l PROVE x \in Range(s) /\ x = s[at - Lead - 1]
    OBVIOUS
  <2> HIDE DEF m, s, l, x
  <2> DEFINE k == at - Lead - 1
  <2>1. k \in 1 .. l /\ Lead + 1 + k = at
    BY <1>3, <1>4, <1>5
  <2> HIDE DEF k
  <2>2. operators[Lead + 1 + k].id = s[k]
    BY <1>6, <2>1
  <2>3. x = s[k]
    BY <2>1, <2>2 DEF x
  <2> QED
    BY <1>3, <2>1, <2>3 DEF k, Range
<1> HIDE DEF m, s, l, x
<1>9. CASE at \in Lead + 2 .. Lead + 1 + l
  <2>1. Count = at - Lead - 2 /\ Count' = at - Lead - 1 /\ Count \in Nat /\ Count + 1 = at - Lead - 1
    BY <1>3, <1>4, <1>5, <1>7, <1>9
  <2> QED
    BY <1>8, <1>9, <2>1 DEF s, x
<1>10. CASE at \notin Lead + 2 .. Lead + 1 + l
  <2>1. Count' = Count /\ Count \in Nat
    BY <1>3, <1>4, <1>5, <1>7, <1>10
  <2> QED
    BY <1>6, <1>10, <2>1 DEF s, x
<1> QED
  BY <1>9, <1>10

\* An entry moves on: along the first chain, or to the ending.
LEMMA WayProcess ==
  ASSUME config \in Configs, FileInv, LaidInv, FlowInv, Process
  PROVE  FlowInv'
<1> DEFINE x == operators[at].id
<1>1. /\ UNCHANGED <<read, operators>> /\ path' = Append(path, x) /\ phase = "flow"
      /\ path \in Seq(Ids(operators)) /\ Len(path) < at
  BY DEF Process, FlowInv
<1>2. UNCHANGED <<props, config, Lead, Exit, Given, M>>
  BY <1>1, SameChains, SameGiven DEF read, M
<1>3. /\ M \in Nat /\ DOMAIN operators = 1 .. M + 5 /\ Exit \in Nat /\ Exit <= M
  BY <1>1, PropsArePlaced, BuiltFacts
<1>4. /\ at \in 1 .. M + 5 /\ at \in 1 .. Exit \cup {M + 1, M + 2, M + 3, M + 5}
      /\ at' = IF at < Exit THEN at + 1
               ELSE IF at = Exit THEN M + 1
               ELSE IF at = M + 3 THEN M + 5 ELSE at + 1
  BY WayIs
<1>5. x \in Ids(operators)
  BY <1>3, <1>4 DEF Ids
<1> HIDE DEF x
<1>6. at' \in 1 .. Exit \cup {M + 1, M + 2, M + 3, M + 5, M + 6} /\ at' >= at + 1
  BY <1>3, <1>4
<1>7. path' \in Seq(Ids(operators)) /\ Len(path') < at'
  <2> DEFINE S == Ids(operators)
             n == Len(path)
  <2>1. path' \in Seq(S) /\ Len(path') = n + 1 /\ n \in Nat /\ n < at
    BY <1>1, <1>5
  <2> HIDE DEF S, n
  <2>2. Len(path') < at'
    BY <1>4, <1>6, <2>1
  <2> QED
    BY <2>1, <2>2 DEF S
<1>8. Len(props) \in Nat /\ DOMAIN props = 1 .. Len(props)
  BY FileFacts
<1>9. ASSUME config.cook, NEW j \in 2 .. Len(props) PROVE Carried'[j] = <<>>
  <2>1. PICK o \in Nat : o >= Exit /\ Placed(o, Given[j])
    BY <1>1, <1>9, PropsArePlaced
  <2>2. j \in 1 .. Len(props) /\ j \in DOMAIN props
    BY <1>8
  <2>3. Len(Given[j]) \in Nat
    BY <1>1, <1>9, <2>2, ChainSettings
  <2> DEFINE l == Len(Given[j])
  <2>4. /\ l \in Nat /\ o + l + 2 <= M
        /\ x \in Range(Given[j]) => at \in o + 2 .. o + 1 + l
    BY <1>4, <2>1, <2>3 DEF Placed, x
  <2> HIDE DEF l
  <2>5. at \notin o + 2 .. o + 1 + l
    BY <1>3, <1>4, <2>1, <2>4
  <2>6. Carried[j] = <<>>
    BY <1>9 DEF FlowInv
  <2> QED
    BY <1>1, <1>5, <2>2, <2>4, <2>5, <2>6, CarriedStep
<1>10. ASSUME config.cook, props # <<>>
       PROVE  Carried'[1] = [i \in 1 .. Count' |-> Given[1][i]]
  <2>1. 1 \in DOMAIN props
    BY <1>1, <1>8, <1>10, ExitIs
  <2>2. Carried'[1] = IF x \in Range(Given[1]) THEN Append(Carried[1], x) ELSE Carried[1]
    BY <1>1, <1>5, <2>1, CarriedStep
  <2>3. Carried[1] = [i \in 1 .. Count |-> Given[1][i]]
    BY <1>10 DEF FlowInv
  <2>4. /\ Count \in Nat
        /\ x \in Range(Given[1]) => Count' = Count + 1 /\ x = Given[1][Count + 1]
        /\ x \notin Range(Given[1]) => Count' = Count
    BY <1>10, CountIs DEF x
  <2>5. CASE x \in Range(Given[1])
    <3>1. Append(Carried[1], x) = [i \in 1 .. Count + 1 |-> Given[1][i]]
      BY <2>3, <2>4, <2>5, OneMore
    <3> QED
      BY <2>2, <2>4, <2>5, <3>1
  <2>6. CASE x \notin Range(Given[1])
    BY <2>2, <2>3, <2>4, <2>6
  <2> QED
    BY <2>5, <2>6
<1> QED
  BY <1>1, <1>2, <1>6, <1>7, <1>9, <1>10 DEF FlowInv
-----------------------------------------------------------------------------
(* The theorems. *)

PropsInv == config \in Configs /\ FileInv /\ LaidInv /\ WayInv

PhaseInv == phase \in {"read", "create", "start", "list", "build", "ready", "failed", "flow"}

\* No file is read, and there is no entry.
LEMMA PropsStart == Init => PropsInv
<1> SUFFICES ASSUME Init PROVE PropsInv
  OBVIOUS
<1>1. config \in Configs /\ FileInv /\ WayInv
  BY DEF Init, FileInv, WayInv
<1> QED
  BY <1>1, LaidStart DEF PropsInv

\* Every step keeps the invariant.
LEMMA PropsStep == PropsInv /\ [Next]_vars => PropsInv'
<1> SUFFICES ASSUME PropsInv, [Next]_vars PROVE PropsInv'
  OBVIOUS
<1>1. config \in Configs /\ FileInv /\ LaidInv /\ WayInv
  BY DEF PropsInv
<1>2. FileInv' /\ LaidInv'
  BY <1>1, FileStep, LaidStep
<1>3. UNCHANGED config
  BY DEF Next, vars, read, ReadFiles, ReadFails, Create, createSetSourceOperator, AddProp,
     AddEnd, Build, BuildFails, Emit, Process
<1>4. WayInv'
  <2>1. CASE Emit
    <3>1. phase' = "flow"
      BY <2>1 DEF Emit
    <3> QED
      BY <1>1, <2>1, <3>1, WayStart DEF WayInv
  <2>2. CASE Process
    <3>1. phase = "flow" /\ phase' = "flow"
      BY <2>2 DEF Process
    <3> QED
      BY <1>1, <2>2, <3>1, WayProcess DEF WayInv
  <2>3. CASE UNCHANGED vars
    <3>1. UNCHANGED <<props, config, operators, phase, at, path, Lead, Exit, Given, M>>
      BY <2>3, SameChains, SameGiven DEF vars, read, M
    <3>2. UNCHANGED <<Carried, Count>>
      <4>1. Carried = [j \in DOMAIN props |-> Kept(path, Range(Given[j]))]
        BY DEF Carried, Given, Done
      <4>2. Carried' = [j \in DOMAIN props' |-> Kept(path', Range(Given'[j]))]
        BY DEF Carried, Given, Done
      <4> QED
        BY <3>1, <4>1, <4>2 DEF Count
    <3> QED
      BY <1>1, <3>1, <3>2 DEF WayInv, FlowInv
  <2>4. CASE ReadFiles \/ ReadFails \/ Create \/ createSetSourceOperator \/ AddProp \/ AddEnd
             \/ Build \/ BuildFails
    <3>1. phase # "flow" /\ phase' # "flow" /\ UNCHANGED <<at, path>>
      BY <2>4 DEF ReadFiles, ReadFails, Create, createSetSourceOperator, AddProp, AddEnd, Build,
         BuildFails
    <3> QED
      BY <1>1, <3>1 DEF WayInv
  <2> QED
    BY <2>1, <2>2, <2>3, <2>4 DEF Next
<1> QED
  BY <1>1, <1>2, <1>3, <1>4 DEF PropsInv

\* Every variable keeps to its type, and a built list has no loose end (TypeOK), for all
\* conf files: what BaseConfig lists and the library connects has an operator at every
\* output, and an entry goes forward only.
THEOREM PipelineTypeCorrect == Spec => []TypeOK
<1>1. PropsInv /\ PhaseInv => TypeOK
  <2> SUFFICES ASSUME PropsInv, PhaseInv PROVE TypeOK
    OBVIOUS
  <2>1. config \in Configs /\ FileInv /\ LaidInv /\ WayInv
    BY DEF PropsInv
  <2>2. phase \notin {"read", "failed"} => ~Disabled(input)
    BY <2>1 DEF FileInv
  <2>3. Len(props) <= Len(config.props) - 1
    BY <2>1, FileFacts
  <2>4. next \in 1 .. Len(props) + 1
    BY <2>1 DEF LaidInv
  <2>5. phase \in {"ready", "flow"} => ~Dangling(operators)
    BY <2>1 DEF LaidInv
  <2>6. Len(operators) \in Nat
    BY <2>1, ListFacts DEF LaidInv, IsOperators
  <2>7. at \in 1 .. End(operators) /\ Len(path) < at
    <3>1. CASE phase = "flow"
      <4>1. FlowInv /\ M \in Nat /\ Len(operators) = M + 5
        BY <2>1, <3>1, BuiltFacts DEF WayInv
      <4>2. Exit \in Nat /\ Exit <= M
        BY <2>1, <3>1, PropsArePlaced
      <4>3. at \in 1 .. Exit \cup {M + 1, M + 2, M + 3, M + 5, M + 6} /\ Len(path) < at
        BY <4>1 DEF FlowInv
      <4> QED
        BY <4>1, <4>2, <4>3 DEF End
    <3>2. CASE phase # "flow"
      BY <2>1, <2>6, <3>2 DEF WayInv, End
    <3> QED
      BY <3>1, <3>2
  <2> QED
    BY <2>2, <2>3, <2>4, <2>5, <2>7 DEF TypeOK, PhaseInv
<1>2. Init => PhaseInv
  BY DEF Init, PhaseInv
<1>3. PhaseInv /\ [Next]_vars => PhaseInv'
  BY DEF PhaseInv, Next, vars, ReadFiles, ReadFails, Create, createSetSourceOperator, AddProp,
     AddEnd, Build, BuildFails, Emit, Process
<1> QED
  BY <1>1, <1>2, <1>3, PropsStart, PropsStep, PTL DEF Spec

\* An entry that arrives has been through all of the first prop and nothing of the others.
LEMMA AtTheEnd ==
  ASSUME PropsInv, Delivered, config.cook
  PROVE  /\ DOMAIN props = 1 .. Len(props) /\ Len(props) \in Nat
         /\ \A j \in DOMAIN props : j # 1 => Done(props[j]) = <<>>
         /\ \A j \in DOMAIN props : j = 1 => Done(props[j]) = Settings(props[j])
<1>1. config \in Configs /\ FileInv /\ LaidInv /\ FlowInv /\ phase = "flow" /\ at = End(operators)
  BY DEF PropsInv, WayInv, Delivered
<1>2. DOMAIN props = 1 .. Len(props) /\ Len(props) \in Nat
  BY <1>1, FileFacts
<1>3. \A j \in DOMAIN props : Carried[j] = Done(props[j]) /\ Given[j] = Settings(props[j])
  BY DEF Carried, Given
<1>4. ASSUME NEW j \in DOMAIN props, j # 1 PROVE Done(props[j]) = <<>>
  <2>1. j \in 2 .. Len(props)
    BY <1>2, <1>4
  <2> QED
    BY <1>1, <1>3, <2>1 DEF FlowInv
<1>5. ASSUME 1 \in DOMAIN props PROVE Done(props[1]) = Settings(props[1])
  <2> DEFINE s == Given[1]
  <2>1. props # <<>>
    BY <1>5
  <2>2. Carried[1] = [i \in 1 .. Count |-> s[i]]
    BY <1>1, <2>1 DEF FlowInv
  <2>3. Count = Len(s)
    <3>1. M \in Nat /\ at = M + 6 /\ Exit \in Nat /\ Exit <= M /\ Exit >= Lead + 2 /\ Lead \in Nat
      BY <1>1, <2>1, BuiltFacts, PropsArePlaced, LeadIs DEF End
    <3>2. ~(at <= Lead + 1) /\ ~(at <= Exit)
      BY <3>1
    <3> QED
      BY <3>2 DEF Count
  <2>4. IsList(s)
    BY <1>1, <1>2, <1>5, ChainSettings
  <2> HIDE DEF s
  <2>5. s = [i \in 1 .. Len(s) |-> s[i]]
    BY <2>4, ListFacts
  <2> QED
    BY <1>3, <1>5, <2>2, <2>3, <2>5 DEF s
<1> QED
  BY <1>2, <1>4, <1>5

\* A prop is carried out whole, once and in its own order, or not at all (PropsWhole), for
\* all conf files: the operators of the first prop are in one piece, and no id that
\* CreateOperatorConfigs gives can lead an entry into the middle of another prop.
THEOREM PropsStayWhole == Spec => []PropsWhole
<1>1. PropsInv => PropsWhole
  BY AtTheEnd DEF PropsWhole
<1> QED
  BY <1>1, PropsStart, PropsStep, PTL DEF Spec

\* No prop is carried out where one that overrides it is passed over (SpecificFirst), for
\* all conf files: the prop that is carried out is the first one, and none that orderProps
\* puts behind it comes before it in the order of types.
THEOREM SpecificComesFirst == Spec => []SpecificFirst
<1>1. PropsInv => SpecificFirst
  <2> SUFFICES ASSUME PropsInv, Delivered, config.cook,
                      NEW i \in DOMAIN props, NEW j \in DOMAIN props,
                      <<Type(props[i].name), Type(props[j].name)>> \in Overrides,
                      Done(props[j]) # <<>>
               PROVE  FALSE
    BY DEF SpecificFirst
  <2>1. j = 1
    BY AtTheEnd
  <2>2. Level(props[i]) < Level(props[j])
    BY DEF Overrides, Level, TypeRank
  <2>3. Less(props[i], props[j])
    BY <2>2, LevelIs
  <2>4. ~Less(props[i], props[1])
    BY FileFacts DEF PropsInv
  <2> QED
    BY <2>1, <2>3, <2>4
<1> QED
  BY <1>1, PropsStart, PropsStep, PTL DEF Spec
=============================================================================
