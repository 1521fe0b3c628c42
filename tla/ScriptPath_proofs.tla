-------------------------- MODULE ScriptPath_proofs --------------------------
(***************************************************************************)
(* Proofs about ScriptPath: for all paths, a command is accepted if and    *)
(* only if the file it names lies in the base directory, and is that file. *)
(* GetPath cleans paths several times on the way; that comes to the same   *)
(* as walking them once, element by element.                               *)
(***************************************************************************)
EXTENDS ScriptPath, WellFoundedInduction, TLAPS

-----------------------------------------------------------------------------
(* Induction and recursion over numbers and sequences, stated about sets and *)
(* functions.  The library's theorems take an operator for what is proved by *)
(* induction; here it is the set of the numbers, or sequences, that have the *)
(* property.  All rests on a set of numbers having a least one.              *)

\* A set of numbers that is not empty has a least element.
LEMMA Least ==
  ASSUME NEW T, T \subseteq Nat, T # {}
  PROVE  \E x \in T : \A y \in T : x <= y
<1> DEFINE R == OpToRel(<, Nat)
<1>1. IsWellFoundedOn(R, Nat)
  BY NatLessThanWellFounded
<1>2. \A x, y \in Nat : x < y => <<x, y>> \in R
  BY DEF OpToRel
<1> HIDE DEF R
<1>3. PICK x \in T : \A y \in T : ~ (<<y, x>> \in R)
  BY <1>1, WFMin
<1>4. ASSUME NEW y \in T PROVE x <= y
  <2>1. x \in Nat /\ y \in Nat /\ ~ (y < x)
    BY <1>2, <1>3
  <2> QED
    BY <2>1
<1> QED
  BY <1>4

\* A set with 0 that has n + 1 with every n has all numbers.
LEMMA Induction ==
  ASSUME NEW P, 0 \in P, \A n \in Nat : n \in P => n + 1 \in P
  PROVE  Nat \subseteq P
<1> DEFINE T == Nat \ P
<1> SUFFICES ASSUME T # {} PROVE FALSE
  OBVIOUS
<1>1. PICK n \in T : \A m \in T : n <= m
  BY Least
<1>2. n # 0 /\ n - 1 \in Nat /\ (n - 1) + 1 = n
  OBVIOUS
<1>3. n - 1 \in P
  BY <1>1, <1>2
<1> QED
  BY <1>2, <1>3

\* A set with <<>> that has Append(s, e) with every s has all sequences.
LEMMA SequenceInduction ==
  ASSUME NEW E, NEW P, <<>> \in P,
         \A s \in Seq(E), e \in E : s \in P => Append(s, e) \in P
  PROVE  Seq(E) \subseteq P
<1> DEFINE T == {n \in Nat : \A s \in Seq(E) : Len(s) = n => s \in P}
<1>1. 0 \in T
  OBVIOUS
<1>2. ASSUME NEW n \in Nat, n \in T PROVE n + 1 \in T
  <2> SUFFICES ASSUME NEW s \in Seq(E), Len(s) = n + 1 PROVE s \in P
    OBVIOUS
  <2> DEFINE front == SubSeq(s, 1, n)
  <2>1. front \in Seq(E) /\ Len(front) = n /\ s[n + 1] \in E /\ s = Append(front, s[n + 1])
    OBVIOUS
  <2> HIDE DEF front
  <2>2. front \in P
    BY <1>2, <2>1
  <2> QED
    BY <2>1, <2>2
<1> HIDE DEF T
<1>3. Nat \subseteq T
  BY <1>1, <1>2, Induction
<1> QED
  BY <1>3 DEF T

\* f is what F makes of start, step by step.
Recursive(S, start, N, F, f) ==
    f \in [0 .. N -> S] /\ f[0] = start /\ \A n \in 1 .. N : f[n] = F[n][f[n - 1]]

\* There is a function that begins with start and goes on by F, up to N.
LEMMA Recursion ==
  ASSUME NEW S, NEW start \in S, NEW N \in Nat, NEW F \in [1 .. N -> [S -> S]]
  PROVE  \E f : Recursive(S, start, N, F, f)
<1> DEFINE Defined(f, m) == \A n \in 0 .. m : f[n] = IF n = 0 THEN start ELSE F[n][f[n - 1]]
           T == {m \in Nat : m <= N => \E f \in [0 .. m -> S] : Defined(f, m)}
<1>1. 0 \in T
  <2> DEFINE f == [n \in 0 .. 0 |-> start]
  <2>1. f \in [0 .. 0 -> S] /\ Defined(f, 0)
    OBVIOUS
  <2> QED
    BY <2>1
<1>2. ASSUME NEW m \in Nat, m \in T PROVE m + 1 \in T
  <2> SUFFICES ASSUME m + 1 <= N PROVE \E f \in [0 .. m + 1 -> S] : Defined(f, m + 1)
    OBVIOUS
  <2>1. PICK g \in [0 .. m -> S] : Defined(g, m)
    BY <1>2
  <2> DEFINE f == [n \in 0 .. m + 1 |-> IF n = m + 1 THEN F[n][g[m]] ELSE g[n]]
  <2>2. F[m + 1][g[m]] \in S
    OBVIOUS
  <2>3. f \in [0 .. m + 1 -> S]
    BY <2>2
  <2>4. ASSUME NEW n \in 0 .. m + 1 PROVE f[n] = IF n = 0 THEN start ELSE F[n][f[n - 1]]
    <3>1. CASE n = m + 1
      <4>1. n # 0 /\ n - 1 = m /\ m \in 0 .. m + 1 /\ m # m + 1
        BY <3>1
      <4>2. f[m] = g[m]
        BY <4>1
      <4> QED
        BY <3>1, <4>1, <4>2
    <3>2. CASE n \in 0 .. m
      <4>1. f[n] = g[n] /\ (n # 0 => n - 1 \in 0 .. m /\ f[n - 1] = g[n - 1])
        BY <3>2
      <4> QED
        BY <2>1, <3>2, <4>1
    <3> QED
      BY <3>1, <3>2
  <2> QED
    BY <2>3, <2>4
<1> HIDE DEF T
<1>3. N \in T
  BY <1>1, <1>2, Induction
<1>4. PICK f \in [0 .. N -> S] : Defined(f, N)
  BY <1>3 DEF T
<1>5. f[0] = start /\ \A n \in 1 .. N : f[n] = F[n][f[n - 1]]
  BY <1>4
<1> QED
  BY <1>5 DEF Recursive

-----------------------------------------------------------------------------
(* Sequences of names. *)

\* A sequence that is not empty is its front and its last element.
LEMMA FrontFacts ==
  ASSUME NEW S, NEW s \in Seq(S), s # <<>>
  PROVE  /\ Front(s) \in Seq(S) /\ Len(Front(s)) = Len(s) - 1
         /\ Last(s) \in S /\ s = Append(Front(s), Last(s))
<1>1. PICK n \in Nat : Len(s) = n + 1
  <2>1. Len(s) \in Nat /\ Len(s) # 0
    OBVIOUS
  <2>2. Len(s) - 1 \in Nat /\ Len(s) = (Len(s) - 1) + 1
    BY <2>1
  <2> QED
    BY <2>2
<1>2. Front(s) = SubSeq(s, 1, n) /\ Last(s) = s[n + 1]
  BY <1>1 DEF Front, Last
<1>3. /\ SubSeq(s, 1, n) \in Seq(S) /\ Len(SubSeq(s, 1, n)) = n
      /\ s[n + 1] \in S /\ s = Append(SubSeq(s, 1, n), s[n + 1])
  BY <1>1
<1> QED
  BY <1>1, <1>2, <1>3

LEMMA Nothing == <<>> \in Seq(Elements) /\ <<>> \in Seq(Files)
  OBVIOUS

LEMMA FilesElements ==
  /\ Files \subseteq Elements /\ Seq(Files) \subseteq Seq(Elements)
  /\ Files \cup {".."} \subseteq Elements
<1>1. Files \subseteq Elements /\ Files \cup {".."} \subseteq Elements
  BY DEF Elements
<1>2. Seq(Files) \subseteq Seq(Elements)
  BY <1>1
<1> QED
  BY <1>1, <1>2

LEMMA Single == ASSUME NEW S, NEW x \in S PROVE <<x>> \in Seq(S)
  OBVIOUS

LEMMA Pair == ASSUME NEW S, NEW x \in S, NEW y \in S PROVE <<x, y>> \in Seq(S)
  OBVIOUS

LEMMA Concat ==
  ASSUME NEW S, NEW s \in Seq(S), NEW t \in Seq(S)
  PROVE  s \o t \in Seq(S) /\ (s = <<>> => s \o t = t)
  OBVIOUS

LEMMA AddedType == ASSUME NEW abs, NEW d \in Seq(Elements), NEW x \in Elements
                   PROVE  Added(abs, d, x) \in Seq(Elements)
<1>1. d # <<>> => Front(d) \in Seq(Elements)
  BY FrontFacts
<1>2. ".." \in Elements
  BY DEF Elements
<1>3. Append(d, x) \in Seq(Elements) /\ Append(d, "..") \in Seq(Elements) /\ <<"..">> \in Seq(Elements)
  BY <1>2, Single
<1> QED
  BY <1>1, <1>3 DEF Added

LEMMA StepType == ASSUME NEW d \in Seq(Files), NEW x \in Elements PROVE Step(d, x) \in Seq(Files)
<1>1. d # <<>> => Front(d) \in Seq(Files)
  BY FrontFacts
<1>2. x \notin {"", ".", ".."} => x \in Files
  BY DEF Elements
<1>3. x \in Files => Append(d, x) \in Seq(Files)
  OBVIOUS
<1> QED
  BY <1>1, <1>2, <1>3 DEF Step

\* f holds what Cleaned, and Walk, come to after each of the elements.
Cleaning(abs, s, f) ==
    /\ f \in [0 .. Len(s) -> Seq(Elements)] /\ f[0] = <<>>
    /\ \A n \in 1 .. Len(s) : f[n] = Added(abs, f[n - 1], s[n])

Walking(from, s, f) ==
    /\ f \in [0 .. Len(s) -> Seq(Files)] /\ f[0] = from
    /\ \A n \in 1 .. Len(s) : f[n] = Step(f[n - 1], s[n])

\* The function that Cleaned defines by recursion.
LEMMA CleanedIs ==
  ASSUME NEW abs, NEW s \in Seq(Elements)
  PROVE  \E f : Cleaning(abs, s, f) /\ Cleaned(abs, s) = f[Len(s)]
<1> DEFINE N == Len(s)
           S == Seq(Elements)
           F == [n \in 1 .. N |-> [d \in S |-> Added(abs, d, s[n])]]
           Is(f) == f = [n \in 0 .. N |-> IF n = 0 THEN <<>> ELSE Added(abs, f[n - 1], s[n])]
           c == CHOOSE f : Is(f)
<1>1. N \in Nat /\ \A n \in 1 .. N : s[n] \in Elements
  OBVIOUS
<1>2. <<>> \in S /\ \A d \in S : \A n \in 1 .. N : Added(abs, d, s[n]) \in S
  BY <1>1, AddedType
<1>3. Cleaned(abs, s) = c[N]
  BY DEF Cleaned
<1> HIDE DEF N, S, Is, c
<1>4. F \in [1 .. N -> [S -> S]]
  BY <1>2
<1>5. \A n \in 1 .. N : \A d \in S : F[n][d] = Added(abs, d, s[n])
  OBVIOUS
<1> HIDE DEF F
<1> DEFINE start == <<>>
<1>6. start \in S /\ N \in Nat
  BY <1>1, <1>2
<1> HIDE DEF start
<1>7. PICK f : Recursive(S, start, N, F, f)
  BY <1>6, <1>4, Recursion
<1>8. f \in [0 .. N -> S] /\ f[0] = start /\ \A n \in 1 .. N : f[n] = F[n][f[n - 1]]
  BY <1>7 DEF Recursive
<1>9. ASSUME NEW n \in 1 .. N PROVE f[n] = Added(abs, f[n - 1], s[n])
  <2>1. n - 1 \in 0 .. N
    BY <1>1
  <2>2. f[n - 1] \in S
    BY <1>8, <2>1
  <2>3. f[n] = F[n][f[n - 1]]
    BY <1>8
  <2> QED
    BY <1>5, <2>2, <2>3
<1> USE DEF start, Is
<1>10. Is(f)
  BY <1>1, <1>8, <1>9
<1>11. Is(c)
  BY <1>10 DEF c
<1>12. /\ c = [n \in 0 .. N |-> c[n]] /\ c[0] = <<>>
      /\ \A n \in 1 .. N : c[n] = Added(abs, c[n - 1], s[n])
  <2>1. c = [n \in 0 .. N |-> IF n = 0 THEN <<>> ELSE Added(abs, c[n - 1], s[n])]
    BY <1>11
  <2>2. c = [n \in 0 .. N |-> c[n]]
    BY <2>1
  <2>3. c[0] = <<>>
    BY <1>1, <2>1
  <2>4. \A n \in 1 .. N : n \in 0 .. N /\ n # 0
    BY <1>1
  <2> QED
    BY <2>1, <2>2, <2>3, <2>4
<1> HIDE DEF Is
<1> DEFINE P == {n \in Nat : n <= N => c[n] \in S}
<1>13. 0 \in P
  BY <1>2, <1>12
<1>14. ASSUME NEW n \in Nat, n \in P PROVE n + 1 \in P
  <2> SUFFICES ASSUME n + 1 <= N PROVE c[n + 1] \in S
    OBVIOUS
  <2>1. c[n] \in S /\ n + 1 \in 1 .. N /\ (n + 1) - 1 = n
    BY <1>1, <1>14
  <2>2. c[n + 1] = Added(abs, c[n], s[n + 1])
    BY <1>12, <2>1
  <2> QED
    BY <1>2, <2>1, <2>2
<1> HIDE DEF P
<1>15. Nat \subseteq P
  BY <1>13, <1>14, Induction
<1>16. c \in [0 .. N -> S]
  BY <1>1, <1>12, <1>15 DEF P
<1> QED
  BY <1>3, <1>12, <1>16 DEF N, S, Cleaning

\* The function that Walk defines by recursion.
LEMMA WalkIs ==
  ASSUME NEW from \in Seq(Files), NEW s \in Seq(Elements)
  PROVE  \E f : Walking(from, s, f) /\ Walk(from, s) = f[Len(s)]
<1> DEFINE N == Len(s)
           S == Seq(Files)
           F == [n \in 1 .. N |-> [d \in S |-> Step(d, s[n])]]
           Is(f) == f = [n \in 0 .. N |-> IF n = 0 THEN from ELSE Step(f[n - 1], s[n])]
           c == CHOOSE f : Is(f)
<1>1. N \in Nat /\ \A n \in 1 .. N : s[n] \in Elements
  OBVIOUS
<1>2. from \in S /\ \A d \in S : \A n \in 1 .. N : Step(d, s[n]) \in S
  BY <1>1, StepType
<1>3. Walk(from, s) = c[N]
  BY DEF Walk
<1> HIDE DEF N, S, Is, c
<1>4. F \in [1 .. N -> [S -> S]]
  BY <1>2
<1>5. \A n \in 1 .. N : \A d \in S : F[n][d] = Step(d, s[n])
  OBVIOUS
<1> HIDE DEF F
<1> DEFINE start == from
<1>6. start \in S /\ N \in Nat
  BY <1>1, <1>2
<1> HIDE DEF start
<1>7. PICK f : Recursive(S, start, N, F, f)
  BY <1>6, <1>4, Recursion
<1>8. f \in [0 .. N -> S] /\ f[0] = start /\ \A n \in 1 .. N : f[n] = F[n][f[n - 1]]
  BY <1>7 DEF Recursive
<1>9. ASSUME NEW n \in 1 .. N PROVE f[n] = Step(f[n - 1], s[n])
  <2>1. n - 1 \in 0 .. N
    BY <1>1
  <2>2. f[n - 1] \in S
    BY <1>8, <2>1
  <2>3. f[n] = F[n][f[n - 1]]
    BY <1>8
  <2> QED
    BY <1>5, <2>2, <2>3
<1> USE DEF start, Is
<1>10. Is(f)
  BY <1>1, <1>8, <1>9
<1>11. Is(c)
  BY <1>10 DEF c
<1>12. /\ c = [n \in 0 .. N |-> c[n]] /\ c[0] = from
      /\ \A n \in 1 .. N : c[n] = Step(c[n - 1], s[n])
  <2>1. c = [n \in 0 .. N |-> IF n = 0 THEN from ELSE Step(c[n - 1], s[n])]
    BY <1>11
  <2>2. c = [n \in 0 .. N |-> c[n]]
    BY <2>1
  <2>3. c[0] = from
    BY <1>1, <2>1
  <2>4. \A n \in 1 .. N : n \in 0 .. N /\ n # 0
    BY <1>1
  <2> QED
    BY <2>1, <2>2, <2>3, <2>4
<1> HIDE DEF Is
<1> DEFINE P == {n \in Nat : n <= N => c[n] \in S}
<1>13. 0 \in P
  BY <1>2, <1>12
<1>14. ASSUME NEW n \in Nat, n \in P PROVE n + 1 \in P
  <2> SUFFICES ASSUME n + 1 <= N PROVE c[n + 1] \in S
    OBVIOUS
  <2>1. c[n] \in S /\ n + 1 \in 1 .. N /\ (n + 1) - 1 = n
    BY <1>1, <1>14
  <2>2. c[n + 1] = Step(c[n], s[n + 1])
    BY <1>12, <2>1
  <2> QED
    BY <1>2, <2>1, <2>2
<1> HIDE DEF P
<1>15. Nat \subseteq P
  BY <1>13, <1>14, Induction
<1>16. c \in [0 .. N -> S]
  BY <1>1, <1>12, <1>15 DEF P
<1> QED
  BY <1>3, <1>12, <1>16 DEF N, S, Walking

\* Cleaned and Walk, element by element.
LEMMA CleanedAppend ==
  ASSUME NEW abs
  PROVE  /\ Cleaned(abs, <<>>) = <<>>
         /\ \A s \in Seq(Elements) : Cleaned(abs, s) \in Seq(Elements)
         /\ \A s \in Seq(Elements), x \in Elements :
               Cleaned(abs, Append(s, x)) = Added(abs, Cleaned(abs, s), x)
<1>1. <<>> \in Seq(Elements) /\ Len(<<>>) = 0
  OBVIOUS
<1>2. Cleaned(abs, <<>>) = <<>>
  <2> DEFINE none == <<>>
  <2>1. none \in Seq(Elements) /\ Len(none) = 0
    OBVIOUS
  <2> HIDE DEF none
  <2>2. PICK f : Cleaning(abs, none, f) /\ Cleaned(abs, none) = f[Len(none)]
    BY <2>1, CleanedIs
  <2>3. Cleaned(abs, none) = <<>>
    BY <2>1, <2>2 DEF Cleaning
  <2> QED
    BY <2>3 DEF none
<1>3. ASSUME NEW s \in Seq(Elements) PROVE Cleaned(abs, s) \in Seq(Elements)
  <2>1. PICK f : Cleaning(abs, s, f) /\ Cleaned(abs, s) = f[Len(s)]
    BY CleanedIs
  <2>2. Len(s) \in 0 .. Len(s)
    OBVIOUS
  <2> QED
    BY <2>1, <2>2 DEF Cleaning
<1>4. ASSUME NEW s \in Seq(Elements), NEW x \in Elements
      PROVE  Cleaned(abs, Append(s, x)) = Added(abs, Cleaned(abs, s), x)
  <2> DEFINE t == Append(s, x)
             N == Len(s)
  <2>1. /\ t \in Seq(Elements) /\ N \in Nat /\ Len(t) = N + 1 /\ t[N + 1] = x
        /\ \A n \in 1 .. N : t[n] = s[n]
    OBVIOUS
  <2> HIDE DEF t
  <2>2. PICK f : Cleaning(abs, s, f) /\ Cleaned(abs, s) = f[N]
    BY CleanedIs
  <2>3. PICK g : Cleaning(abs, t, g) /\ Cleaned(abs, t) = g[Len(t)]
    BY <2>1, CleanedIs
  <2>4. /\ f \in [0 .. N -> Seq(Elements)] /\ f[0] = <<>>
        /\ \A n \in 1 .. N : f[n] = Added(abs, f[n - 1], s[n])
    BY <2>2 DEF Cleaning
  <2>5. /\ g \in [0 .. Len(t) -> Seq(Elements)] /\ g[0] = <<>>
        /\ \A n \in 1 .. Len(t) : g[n] = Added(abs, g[n - 1], t[n])
    BY <2>3 DEF Cleaning
  <2> HIDE DEF N
  <2> DEFINE P == {n \in Nat : n <= N => g[n] = f[n]}
  <2>6. 0 \in P
    BY <2>4, <2>5
  <2>7. ASSUME NEW n \in Nat, n \in P PROVE n + 1 \in P
    <3> SUFFICES ASSUME n + 1 <= N PROVE g[n + 1] = f[n + 1]
      OBVIOUS
    <3>1. /\ n + 1 \in 1 .. N /\ n + 1 \in 1 .. Len(t) /\ (n + 1) - 1 = n /\ n <= N
      BY <2>1
    <3>2. g[n] = f[n] /\ t[n + 1] = s[n + 1]
      BY <2>1, <2>7, <3>1
    <3>3. g[n + 1] = Added(abs, g[n], t[n + 1]) /\ f[n + 1] = Added(abs, f[n], s[n + 1])
      BY <2>4, <2>5, <3>1
    <3> QED
      BY <3>2, <3>3
  <2> HIDE DEF P
  <2>8. Nat \subseteq P
    BY <2>6, <2>7, Induction
  <2>9. g[N] = f[N]
    BY <2>1, <2>8 DEF P
  <2>10. g[N + 1] = Added(abs, g[N], x)
    <3>1. N + 1 \in 1 .. Len(t) /\ (N + 1) - 1 = N
      BY <2>1
    <3> QED
      BY <2>1, <2>5, <3>1
  <2> QED
    BY <2>1, <2>2, <2>3, <2>9, <2>10 DEF t
<1> QED
  BY <1>2, <1>3, <1>4

\* A walk of one more element takes one more step.
LEMMA WalkAppend ==
  ASSUME NEW from \in Seq(Files)
  PROVE  /\ Walk(from, <<>>) = from
         /\ \A s \in Seq(Elements) : Walk(from, s) \in Seq(Files)
         /\ \A s \in Seq(Elements), x \in Elements :
               Walk(from, Append(s, x)) = Step(Walk(from, s), x)
<1>1. <<>> \in Seq(Elements) /\ Len(<<>>) = 0
  OBVIOUS
<1>2. Walk(from, <<>>) = from
  <2> DEFINE none == <<>>
  <2>1. none \in Seq(Elements) /\ Len(none) = 0
    OBVIOUS
  <2> HIDE DEF none
  <2>2. PICK f : Walking(from, none, f) /\ Walk(from, none) = f[Len(none)]
    BY <2>1, WalkIs
  <2>3. Walk(from, none) = from
    BY <2>1, <2>2 DEF Walking
  <2> QED
    BY <2>3 DEF none
<1>3. ASSUME NEW s \in Seq(Elements) PROVE Walk(from, s) \in Seq(Files)
  <2>1. PICK f : Walking(from, s, f) /\ Walk(from, s) = f[Len(s)]
    BY WalkIs
  <2>2. Len(s) \in 0 .. Len(s)
    OBVIOUS
  <2> QED
    BY <2>1, <2>2 DEF Walking
<1>4. ASSUME NEW s \in Seq(Elements), NEW x \in Elements
      PROVE  Walk(from, Append(s, x)) = Step(Walk(from, s), x)
  <2> DEFINE t == Append(s, x)
             N == Len(s)
  <2>1. /\ t \in Seq(Elements) /\ N \in Nat /\ Len(t) = N + 1 /\ t[N + 1] = x
        /\ \A n \in 1 .. N : t[n] = s[n]
    OBVIOUS
  <2> HIDE DEF t
  <2>2. PICK f : Walking(from, s, f) /\ Walk(from, s) = f[N]
    BY WalkIs
  <2>3. PICK g : Walking(from, t, g) /\ Walk(from, t) = g[Len(t)]
    BY <2>1, WalkIs
  <2>4. /\ f \in [0 .. N -> Seq(Files)] /\ f[0] = from
        /\ \A n \in 1 .. N : f[n] = Step(f[n - 1], s[n])
    BY <2>2 DEF Walking
  <2>5. /\ g \in [0 .. Len(t) -> Seq(Files)] /\ g[0] = from
        /\ \A n \in 1 .. Len(t) : g[n] = Step(g[n - 1], t[n])
    BY <2>3 DEF Walking
  <2> HIDE DEF N
  <2> DEFINE P == {n \in Nat : n <= N => g[n] = f[n]}
  <2>6. 0 \in P
    BY <2>4, <2>5
  <2>7. ASSUME NEW n \in Nat, n \in P PROVE n + 1 \in P
    <3> SUFFICES ASSUME n + 1 <= N PROVE g[n + 1] = f[n + 1]
      OBVIOUS
    <3>1. /\ n + 1 \in 1 .. N /\ n + 1 \in 1 .. Len(t) /\ (n + 1) - 1 = n /\ n <= N
      BY <2>1
    <3>2. g[n] = f[n] /\ t[n + 1] = s[n + 1]
      BY <2>1, <2>7, <3>1
    <3>3. g[n + 1] = Step(g[n], t[n + 1]) /\ f[n + 1] = Step(f[n], s[n + 1])
      BY <2>4, <2>5, <3>1
    <3> QED
      BY <3>2, <3>3
  <2> HIDE DEF P
  <2>8. Nat \subseteq P
    BY <2>6, <2>7, Induction
  <2>9. g[N] = f[N]
    BY <2>1, <2>8 DEF P
  <2>10. g[N + 1] = Step(g[N], x)
    <3>1. N + 1 \in 1 .. Len(t) /\ (N + 1) - 1 = N
      BY <2>1
    <3> QED
      BY <2>1, <2>5, <3>1
  <2> QED
    BY <2>1, <2>2, <2>3, <2>9, <2>10 DEF t
<1> QED
  BY <1>2, <1>3, <1>4

-----------------------------------------------------------------------------
(* To clean a path and to walk it comes to the same. *)

\* A walk can be interrupted anywhere.
LEMMA WalkConcat ==
  ASSUME NEW from \in Seq(Files), NEW s \in Seq(Elements), NEW t \in Seq(Elements)
  PROVE  Walk(from, s \o t) = Walk(Walk(from, s), t)
<1> DEFINE P == {u \in Seq(Elements) : Walk(from, s \o u) = Walk(Walk(from, s), u)}
<1>1. Walk(from, s) \in Seq(Files)
  BY WalkAppend
<1>2. <<>> \in P
  <2>1. s \o <<>> = s
    OBVIOUS
  <2>2. Walk(Walk(from, s), <<>>) = Walk(from, s)
    BY <1>1, WalkAppend
  <2> QED
    BY <2>1, <2>2
<1>3. ASSUME NEW u \in Seq(Elements), NEW x \in Elements, u \in P PROVE Append(u, x) \in P
  <2>1. s \o Append(u, x) = Append(s \o u, x) /\ s \o u \in Seq(Elements) /\ Append(u, x) \in Seq(Elements)
    OBVIOUS
  <2>2. Walk(from, Append(s \o u, x)) = Step(Walk(from, s \o u), x)
    BY <2>1, WalkAppend
  <2>3. Walk(Walk(from, s), Append(u, x)) = Step(Walk(Walk(from, s), u), x)
    BY <1>1, WalkAppend
  <2> QED
    BY <1>3, <2>1, <2>2, <2>3
<1> HIDE DEF P
<1>4. Seq(Elements) \subseteq P
  BY <1>2, <1>3, SequenceInduction
<1> QED
  BY <1>4 DEF P

\* Cleaning an absolute path is walking it from the root.
LEMMA CleanedAbsolute ==
  ASSUME NEW s \in Seq(Elements)
  PROVE  Cleaned(TRUE, s) = Walk(<<>>, s)
<1> DEFINE P == {u \in Seq(Elements) : Cleaned(TRUE, u) = Walk(<<>>, u)}
<1>1. <<>> \in Seq(Files)
  OBVIOUS
<1>2. <<>> \in P
  <2>1. Cleaned(TRUE, <<>>) = <<>> /\ Walk(<<>>, <<>>) = <<>>
    BY Nothing, CleanedAppend, WalkAppend
  <2> QED
    BY <2>1, Nothing
<1>3. ASSUME NEW u \in Seq(Elements), NEW x \in Elements, u \in P PROVE Append(u, x) \in P
  <2> DEFINE d == Walk(<<>>, u)
  <2>1. d \in Seq(Files) /\ Walk(<<>>, Append(u, x)) = Step(d, x)
    BY <1>1, WalkAppend
  <2>2. Cleaned(TRUE, Append(u, x)) = Added(TRUE, d, x)
    <3>1. Cleaned(TRUE, Append(u, x)) = Added(TRUE, Cleaned(TRUE, u), x)
      BY CleanedAppend
    <3>2. Cleaned(TRUE, u) = d
      BY <1>3
    <3> QED
      BY <3>1, <3>2
  <2> HIDE DEF d
  <2>3. d # <<>> => Last(d) # ".."
    BY <2>1, FrontFacts, PathAssumption
  <2>4. Added(TRUE, d, x) = Step(d, x)
    BY <2>3 DEF Added, Step
  <2>5. Cleaned(TRUE, Append(u, x)) = Walk(<<>>, Append(u, x))
    BY <2>1, <2>2, <2>4, Zenon
  <2>6. Append(u, x) \in Seq(Elements)
    OBVIOUS
  <2> QED
    BY <2>5, <2>6
<1> HIDE DEF P
<1>4. Seq(Elements) \subseteq P
  BY <1>2, <1>3, SequenceInduction
<1> QED
  BY <1>4 DEF P

\* A cleaned path has no empty element and no ".".
LEMMA CleanedTidy ==
  ASSUME NEW abs, NEW s \in Seq(Elements)
  PROVE  Cleaned(abs, s) \in Seq(Files \cup {".."})
<1> DEFINE Tidy == Files \cup {".."}
           P == {u \in Seq(Elements) : Cleaned(abs, u) \in Seq(Tidy)}
<1>1. <<>> \in P
  <2>1. Cleaned(abs, <<>>) = <<>> /\ <<>> \in Seq(Tidy)
    BY CleanedAppend
  <2> QED
    BY <2>1, Nothing
<1>2. ASSUME NEW u \in Seq(Elements), NEW x \in Elements, u \in P PROVE Append(u, x) \in P
  <2> DEFINE d == Cleaned(abs, u)
  <2>1. d \in Seq(Tidy) /\ Cleaned(abs, Append(u, x)) = Added(abs, d, x)
    BY <1>2, CleanedAppend
  <2> HIDE DEF d
  <2>2. x \notin {"", "."} => x \in Tidy
    BY DEF Elements
  <2>3. ".." \in Tidy
    OBVIOUS
  <2> HIDE DEF Tidy
  <2>4. d # <<>> => Front(d) \in Seq(Tidy)
    BY <2>1, FrontFacts
  <2>5. Append(d, "..") \in Seq(Tidy) /\ <<"..">> \in Seq(Tidy) /\ (x \in Tidy => Append(d, x) \in Seq(Tidy))
    BY <2>1, <2>3, Single
  <2>6. Added(abs, d, x) \in Seq(Tidy)
    BY <2>1, <2>2, <2>4, <2>5 DEF Added
  <2> QED
    BY <2>1, <2>6
<1> HIDE DEF P
<1>3. Seq(Elements) \subseteq P
  BY <1>1, <1>2, SequenceInduction
<1> QED
  BY <1>3 DEF P

\* A path and what is left of it when it is cleaned lead to the same place.
LEMMA WalkCleaned ==
  ASSUME NEW from \in Seq(Files), NEW s \in Seq(Elements)
  PROVE  Walk(from, Cleaned(FALSE, s)) = Walk(from, s)
<1> DEFINE P == {u \in Seq(Elements) : Walk(from, Cleaned(FALSE, u)) = Walk(from, u)}
<1>1. <<>> \in P
  <2>1. Cleaned(FALSE, <<>>) = <<>>
    BY CleanedAppend
  <2> QED
    BY <2>1, Nothing
<1>2. ASSUME NEW u \in Seq(Elements), NEW x \in Elements, u \in P PROVE Append(u, x) \in P
  <2> DEFINE d == Cleaned(FALSE, u)
             w == Walk(from, u)
  <2>1. d \in Seq(Elements) /\ Cleaned(FALSE, Append(u, x)) = Added(FALSE, d, x)
    BY CleanedAppend
  <2>2. w \in Seq(Files) /\ Walk(from, Append(u, x)) = Step(w, x)
    BY WalkAppend
  <2>3. Walk(from, d) = w
    BY <1>2
  <2>4. d \in Seq(Files \cup {".."})
    BY CleanedTidy
  <2> HIDE DEF d, w
  <2>5. \A y \in Elements : Walk(from, Append(d, y)) = Step(w, y)
    BY <2>1, <2>3, WalkAppend
  <2>6. Walk(from, Added(FALSE, d, x)) = Step(w, x)
    <3>1. CASE x \in {"", "."}
      BY <2>3, <3>1 DEF Added, Step
    <3>2. CASE x \notin {"", ".", ".."}
      BY <2>5, <3>2 DEF Added
    <3>3. CASE x = ".." /\ d = <<>>
      <4>1. Added(FALSE, d, x) = Append(d, "..")
        <5>1. Added(FALSE, d, x) = <<"..">>
          BY <3>3 DEF Added
        <5>2. Append(<<>>, "..") = <<"..">>
          OBVIOUS
        <5> QED
          BY <3>3, <5>1, <5>2
      <4> QED
        BY <2>5, <3>3, <4>1
    <3>4. CASE x = ".." /\ d # <<>> /\ Last(d) = ".."
      BY <2>5, <3>4 DEF Added
    <3>5. CASE x = ".." /\ d # <<>> /\ Last(d) # ".."
      <4> DEFINE f == Front(d)
                 y == Last(d)
                 v == Walk(from, f)
      <4>1. f \in Seq(Elements) /\ y \in Elements /\ d = Append(f, y)
        BY <2>1, <3>5, FrontFacts
      <4>2. y \in Files
        BY <2>4, <3>5, FrontFacts
      <4> HIDE DEF f, y
      <4>3. v \in Seq(Files) /\ Walk(from, Append(f, y)) = Step(v, y)
        BY <4>1, WalkAppend
      <4>4. v \in Seq(Files) /\ w = Step(v, y)
        BY <2>3, <4>1, <4>3
      <4>5. Added(FALSE, d, x) = f
        BY <3>5 DEF Added, f
      <4> HIDE DEF v
      <4>6. w = Append(v, y)
        BY <4>2, <4>4, PathAssumption DEF Step
      <4>7. w # <<>> /\ Front(w) = v
        BY <4>2, <4>4, <4>6 DEF Front
      <4>8. Step(w, x) = v
        BY <3>5, <4>7 DEF Step
      <4> QED
        BY <4>5, <4>8 DEF v
    <3> QED
      BY <3>1, <3>2, <3>3, <3>4, <3>5
  <2>7. Walk(from, Cleaned(FALSE, Append(u, x))) = Walk(from, Append(u, x))
    BY <2>1, <2>2, <2>6, Zenon
  <2>8. Append(u, x) \in Seq(Elements)
    OBVIOUS
  <2> QED
    BY <2>7, <2>8
<1> HIDE DEF P
<1>3. Seq(Elements) \subseteq P
  BY <1>1, <1>2, SequenceInduction
<1> QED
  BY <1>3 DEF P

\* A path of names only leads to itself.
LEMMA WalkFiles == ASSUME NEW s \in Seq(Files) PROVE Walk(<<>>, s) = s
<1> DEFINE P == {u \in Seq(Files) : Walk(<<>>, u) = u}
<1>1. <<>> \in Seq(Files)
  OBVIOUS
<1>2. <<>> \in P
  BY <1>1, WalkAppend
<1>3. ASSUME NEW u \in Seq(Files), NEW x \in Files, u \in P PROVE Append(u, x) \in P
  <2>1. u \in Seq(Elements) /\ x \in Elements
    BY FilesElements
  <2>2. Walk(<<>>, Append(u, x)) = Step(Walk(<<>>, u), x)
    BY <2>1, Nothing, WalkAppend
  <2>3. Walk(<<>>, Append(u, x)) = Step(u, x)
    BY <1>3, <2>2
  <2>4. Step(u, x) = Append(u, x)
    BY PathAssumption DEF Step
  <2> QED
    BY <2>3, <2>4
<1> HIDE DEF P
<1>4. Seq(Files) \subseteq P
  BY <1>2, <1>3, SequenceInduction
<1> QED
  BY <1>4 DEF P

-----------------------------------------------------------------------------
(* Clean, Abs and Join. *)

\* Clean cleans the elements of a path and keeps whether it is absolute.
LEMMA CleanIs ==
  ASSUME NEW p \in Paths
  PROVE  /\ p = [abs |-> p.abs, elements |-> p.elements]
         /\ Clean(p) = [abs |-> p.abs, elements |-> Cleaned(p.abs, p.elements)]
         /\ Clean(p) \in Paths
<1>1. p.abs \in BOOLEAN /\ p.elements \in Seq(Elements) /\ p = [abs |-> p.abs, elements |-> p.elements]
  BY DEF Paths
<1>2. Cleaned(p.abs, p.elements) \in Seq(Elements)
  BY <1>1, CleanedAppend
<1>3. Clean(p) = [abs |-> p.abs, elements |-> Cleaned(p.abs, p.elements)]
  BY <1>1 DEF Clean
<1> QED
  BY <1>1, <1>2, <1>3 DEF Paths

\* Abs of a path is its base directory.
LEMMA AbsIs ==
  ASSUME NEW p \in Paths
  PROVE  Abs(p) = Absolute(BaseDir(p)) /\ BaseDir(p) \in Seq(Files)
<1>1. p.abs \in BOOLEAN /\ p.elements \in Seq(Elements) /\ p = [abs |-> p.abs, elements |-> p.elements]
  BY CleanIs DEF Paths
<1>2. Cwd \in Seq(Files) /\ Cwd \in Seq(Elements)
  BY PathAssumption, FilesElements
<1>3. CASE p.abs = TRUE
  <2>1. Abs(p) = [abs |-> TRUE, elements |-> Cleaned(TRUE, p.elements)]
    BY <1>3, CleanIs DEF Abs
  <2>2. Cleaned(TRUE, p.elements) = Walk(<<>>, p.elements)
    BY <1>1, CleanedAbsolute
  <2>3. BaseDir(p) = Walk(<<>>, p.elements)
    BY <1>3 DEF BaseDir
  <2>4. Walk(<<>>, p.elements) \in Seq(Files)
    BY <1>1, Nothing, WalkAppend
  <2> QED
    BY <2>1, <2>2, <2>3, <2>4 DEF Absolute
<1>4. CASE p.abs = FALSE
  <2> DEFINE both == Cwd \o p.elements
             q == [abs |-> TRUE, elements |-> both]
  <2>1. both \in Seq(Elements)
    BY <1>1, <1>2
  <2>2. Absolute(Cwd) # Nowhere
    BY DEF Absolute, Nowhere, Relative
  <2>3. Abs(p) = Clean(q)
    <3>1. Abs(p) = Join(Absolute(Cwd), p)
      BY <1>4 DEF Abs
    <3>2. Join(Absolute(Cwd), p) = Clean([Absolute(Cwd) EXCEPT !.elements = @ \o p.elements])
      BY <2>2 DEF Join
    <3>3. [Absolute(Cwd) EXCEPT !.elements = @ \o p.elements] = q
      <4> DEFINE a == [abs |-> TRUE, elements |-> Cwd]
      <4>1. Absolute(Cwd) = a /\ a.elements \o p.elements = both
        BY DEF Absolute
      <4> HIDE DEF both
      <4>2. a \in [abs : BOOLEAN, elements : Seq(Elements)] /\ a.abs = TRUE
        BY <1>2
      <4> HIDE DEF a
      <4>3. [a EXCEPT !.elements = both] = [abs |-> a.abs, elements |-> both]
        BY <4>2
      <4> HIDE DEF q
      <4> QED
        BY <4>1, <4>2, <4>3 DEF q
    <3> QED
      BY <3>1, <3>2, <3>3
  <2> HIDE DEF both
  <2>4. q \in Paths /\ q.abs = TRUE /\ q.elements = both
    BY <2>1 DEF Paths
  <2> HIDE DEF q
  <2>5. Abs(p) = [abs |-> TRUE, elements |-> Cleaned(TRUE, both)]
    BY <2>3, <2>4, CleanIs
  <2>6. Cleaned(TRUE, both) = Walk(<<>>, both)
    BY <2>1, CleanedAbsolute
  <2>7. Walk(<<>>, both) = Walk(Walk(<<>>, Cwd), p.elements)
    BY <1>1, <1>2, Nothing, WalkConcat DEF both
  <2>8. Walk(<<>>, Cwd) = Cwd
    BY <1>2, WalkFiles
  <2>9. BaseDir(p) = Walk(Cwd, p.elements)
    BY <1>4 DEF BaseDir
  <2>10. Walk(Cwd, p.elements) \in Seq(Files)
    BY <1>1, <1>2, WalkAppend
  <2> QED
    BY <2>5, <2>6, <2>7, <2>8, <2>9, <2>10 DEF Absolute
<1> QED
  BY <1>1, <1>3, <1>4

LEMMA NowhereIs == Nowhere \in Paths /\ Nowhere.abs = FALSE /\ Nowhere.elements = <<>>
  BY Nothing DEF Nowhere, Relative, Paths

\* Joined, two paths have the elements of both.
LEMMA JoinIs ==
  ASSUME NEW p \in Paths, NEW q \in Paths, p # Nowhere \/ q.abs = FALSE
  PROVE  /\ Join(p, q) \in Paths
         /\ Join(p, q) = [abs |-> p.abs, elements |-> Cleaned(p.abs, p.elements \o q.elements)]
<1> DEFINE both == p.elements \o q.elements
           r == [abs |-> p.abs, elements |-> both]
<1>1. /\ p.abs \in BOOLEAN /\ p.elements \in Seq(Elements) /\ q.elements \in Seq(Elements)
      /\ p = [abs |-> p.abs, elements |-> p.elements]
  BY CleanIs DEF Paths
<1>2. both \in Seq(Elements)
  BY <1>1
<1>3. r \in Paths /\ r.abs = p.abs /\ r.elements = both
  BY <1>1, <1>2 DEF Paths
<1>4. Join(p, q) = Clean(r)
  <2>1. CASE p # Nowhere
    <3>1. Join(p, q) = Clean([p EXCEPT !.elements = both])
      BY <2>1 DEF Join
    <3>2. [p EXCEPT !.elements = both] = r
      <4> HIDE DEF both
      <4>1. p = [abs |-> p.abs, elements |-> p.elements]
        BY <1>1
      <4> QED
        BY <4>1
    <3> QED
      BY <3>1, <3>2
  <2>2. CASE p = Nowhere
    <3>1. both = q.elements
      BY <1>1, <2>2, NowhereIs
    <3>2. q = r
      <4>1. q = [abs |-> q.abs, elements |-> q.elements]
        BY CleanIs
      <4>2. q.abs = p.abs
        BY <2>2, NowhereIs
      <4> HIDE DEF both
      <4> QED
        BY <3>1, <4>1, <4>2
    <3> QED
      BY <2>2, <3>2 DEF Join
  <2> QED
    BY <2>1, <2>2
<1> HIDE DEF r
<1> QED
  BY <1>3, <1>4, CleanIs DEF both

\* Joined to a base directory, a relative path leads from there.
LEMMA JoinPlace ==
  ASSUME NEW base \in Paths, NEW path \in Paths, path.abs = FALSE
  PROVE  /\ Abs(Join(base, path)) = Absolute(Walk(BaseDir(base), path.elements))
         /\ Walk(BaseDir(base), path.elements) \in Seq(Files)
<1> DEFINE both == base.elements \o path.elements
           j == Join(base, path)
           from == IF base.abs THEN <<>> ELSE Cwd
<1>1. /\ base.abs \in BOOLEAN /\ base.elements \in Seq(Elements) /\ path.elements \in Seq(Elements)
      /\ both \in Seq(Elements)
  BY DEF Paths
<1>2. Cwd \in Seq(Files) /\ from \in Seq(Files)
  BY PathAssumption, Nothing
<1>3. j \in Paths /\ j = [abs |-> base.abs, elements |-> Cleaned(base.abs, both)]
  BY JoinIs
<1> HIDE DEF j
<1>4. BaseDir(base) = Walk(from, base.elements)
  BY DEF BaseDir
<1>5. BaseDir(j) = Walk(from, Cleaned(base.abs, both))
  BY <1>3 DEF BaseDir
<1> HIDE DEF both
<1>6. Walk(from, Cleaned(base.abs, both)) = Walk(from, both)
  <2>1. CASE base.abs = TRUE
    <3>1. Cleaned(TRUE, both) = Walk(<<>>, both) /\ Walk(<<>>, both) \in Seq(Files)
      BY <1>1, Nothing, CleanedAbsolute, WalkAppend
    <3>2. Walk(<<>>, Walk(<<>>, both)) = Walk(<<>>, both)
      BY <3>1, WalkFiles
    <3> QED
      BY <2>1, <3>1, <3>2
  <2>2. CASE base.abs = FALSE
    BY <1>1, <1>2, <2>2, WalkCleaned
  <2> QED
    BY <1>1, <2>1, <2>2
<1> HIDE DEF from
<1>7. Walk(from, both) = Walk(BaseDir(base), path.elements)
  BY <1>1, <1>2, <1>4, WalkConcat DEF both
<1>8. Abs(j) = Absolute(BaseDir(j)) /\ BaseDir(j) \in Seq(Files)
  BY <1>3, AbsIs
<1> QED
  BY <1>5, <1>6, <1>7, <1>8 DEF j

-----------------------------------------------------------------------------
(* Rel *)

\* A prefix is no longer than what it begins, and the whole of it if as long.
LEMMA PrefixFacts ==
  ASSUME NEW S, NEW s \in Seq(S), NEW t \in Seq(S)
  PROVE  /\ IsPrefix(s, s) /\ IsPrefix(<<>>, s)
         /\ IsPrefix(s, t) => Len(s) <= Len(t)
         /\ IsPrefix(s, t) /\ Len(s) = Len(t) => s = t
<1>1. SubSeq(s, 1, Len(s)) = s /\ SubSeq(t, 1, Len(t)) = t
  OBVIOUS
<1>2. IsPrefix(s, s)
  BY DEF IsPrefix
<1>3. IsPrefix(<<>>, s)
  <2> DEFINE none == <<>>
  <2>1. Len(none) = 0 /\ SubSeq(none, 1, 0) = <<>> /\ SubSeq(s, 1, 0) = <<>> /\ 0 <= Len(s)
    OBVIOUS
  <2> HIDE DEF none
  <2>2. IsPrefix(none, s)
    BY <2>1 DEF IsPrefix
  <2> QED
    BY <2>2 DEF none
<1> QED
  BY <1>1, <1>2, <1>3 DEF IsPrefix

\* The common prefix is all of s where s is a prefix of t.
LEMMA CommonIs ==
  ASSUME NEW s \in Seq(Files), NEW t \in Seq(Files)
  PROVE  LET c == LongestCommonPrefix({s, t})
         IN  /\ c \in Seq(Files) /\ Len(c) <= Len(s) /\ Len(c) <= Len(t)
             /\ Len(c) = Len(s) <=> IsPrefix(s, t)
<1> DEFINE Common == CommonPrefixes({s, t})
           c == CHOOSE longest \in Common : \A other \in Common : Len(other) <= Len(longest)
<1>1. \A p \in Common : p \in Seq(Files) /\ IsPrefix(p, s) /\ IsPrefix(p, t)
  <2> SUFFICES ASSUME NEW p \in Common PROVE p \in Seq(Files) /\ IsPrefix(p, s) /\ IsPrefix(p, t)
    OBVIOUS
  <2>1. PICK u \in {s, t} : p \in Prefixes(u)
    BY DEF CommonPrefixes
  <2>2. PICK n \in 0 .. Len(u) : p = SubSeq(u, 1, n)
    BY <2>1 DEF Prefixes
  <2>3. u \in Seq(Files)
    BY <2>1
  <2>4. p \in Seq(Files)
    BY <2>2, <2>3
  <2> QED
    BY <2>4 DEF CommonPrefixes
<1>2. \A p : p \in Prefixes(s) /\ IsPrefix(p, s) /\ IsPrefix(p, t) => p \in Common
  BY DEF CommonPrefixes
<1>3. <<>> \in Common
  <2>1. <<>> \in Prefixes(s)
    <3>1. <<>> = SubSeq(s, 1, 0) /\ 0 \in 0 .. Len(s)
      OBVIOUS
    <3> QED
      BY <3>1 DEF Prefixes
  <2> QED
    BY <1>2, <2>1, PrefixFacts
<1>4. IsPrefix(s, t) => s \in Common
  <2>1. s \in Prefixes(s)
    <3>1. s = SubSeq(s, 1, Len(s)) /\ Len(s) \in 0 .. Len(s)
      OBVIOUS
    <3> QED
      BY <3>1 DEF Prefixes
  <2> QED
    BY <1>2, <2>1, PrefixFacts
<1>5. LongestCommonPrefix({s, t}) = c
  BY DEF LongestCommonPrefix
<1> HIDE DEF Common
<1>6. \E longest \in Common : \A other \in Common : Len(other) <= Len(longest)
  <2> DEFINE T == {Len(s) - Len(p) : p \in Common}
  <2>1. \A p \in Common : Len(p) \in Nat /\ Len(p) <= Len(s) /\ Len(s) \in Nat
    BY <1>1, PrefixFacts
  <2>2. T \subseteq Nat /\ T # {}
    BY <1>3, <2>1
  <2>3. PICK x \in T : \A y \in T : x <= y
    BY <2>2, Least
  <2>4. PICK longest \in Common : x = Len(s) - Len(longest)
    OBVIOUS
  <2>5. ASSUME NEW other \in Common PROVE Len(other) <= Len(longest)
    <3>1. Len(s) - Len(longest) <= Len(s) - Len(other)
      BY <2>3, <2>4
    <3> QED
      BY <2>1, <3>1
  <2> QED
    BY <2>5
<1>7. c \in Common /\ \A other \in Common : Len(other) <= Len(c)
  BY <1>6
<1> HIDE DEF c
<1>8. c \in Seq(Files) /\ IsPrefix(c, s) /\ IsPrefix(c, t)
  BY <1>1, <1>7
<1>9. Len(c) <= Len(s) /\ Len(c) <= Len(t)
  BY <1>8, PrefixFacts
<1>10. ASSUME Len(c) = Len(s) PROVE IsPrefix(s, t)
  <2>1. c = s
    BY <1>8, <1>10, PrefixFacts
  <2> QED
    BY <1>8, <2>1
<1>11. ASSUME IsPrefix(s, t) PROVE Len(c) = Len(s)
  <2>1. Len(s) <= Len(c)
    BY <1>4, <1>7, <1>11
  <2> QED
    BY <1>8, <1>9, <2>1
<1> QED
  BY <1>5, <1>8, <1>9, <1>10, <1>11

\* The relative path begins with two dots where t is not inside s.
LEMMA RelIs ==
  ASSUME NEW s \in Seq(Files), NEW t \in Seq(Files)
  PROVE  LET rel == Rel(Absolute(s), Absolute(t))
         IN  (rel = <<>> \/ Head(rel) \in {".."} \cup Dotted) <=> ~Inside(s, t)
<1> DEFINE c == LongestCommonPrefix({s, t})
           up == [i \in 1 .. Len(s) - Len(c) |-> ".."]
           rest == SubSeq(t, Len(c) + 1, Len(t))
           rel == Rel(Absolute(s), Absolute(t))
<1> SUFFICES (rel = <<>> \/ Head(rel) \in {".."} \cup Dotted) <=> ~Inside(s, t)
  OBVIOUS
<1>1. rel = up \o rest
  BY DEF Rel, Absolute
<1>2. /\ c \in Seq(Files) /\ Len(c) <= Len(s) /\ Len(c) <= Len(t)
      /\ Len(c) = Len(s) <=> IsPrefix(s, t)
  BY CommonIs
<1> HIDE DEF c, rel
<1>3. PICK m, n, k \in Nat : m = Len(c) /\ n = Len(s) /\ k = Len(t)
  BY <1>2
<1>4. rest \in Seq(Files) /\ Len(rest) = k - m /\ (m < k => rest[1] = t[m + 1])
  BY <1>2, <1>3
<1>5. up \in Seq({".."}) /\ Len(up) = n - m /\ (m < n => up[1] = "..")
  BY <1>2, <1>3
<1> HIDE DEF up, rest
<1>6. CASE m < n
  <2>1. rel # <<>> /\ Head(rel) = ".."
    <3>1. Len(rel) > 0 /\ rel[1] = ".."
      BY <1>1, <1>2, <1>3, <1>4, <1>5, <1>6
    <3> QED
      BY <3>1
  <2>2. ~IsPrefix(s, t)
    BY <1>2, <1>3, <1>6
  <2> QED
    BY <2>1, <2>2 DEF Inside, IsStrictPrefix
<1>7. CASE m = n
  <2>1. rel = rest
    <3>1. up = <<>>
      BY <1>5, <1>7
    <3> QED
      BY <1>1, <1>4, <3>1
  <2>2. IsPrefix(s, t)
    BY <1>2, <1>3, <1>7
  <2>3. CASE m = k
    <3>1. rel = <<>>
      BY <1>4, <2>1, <2>3
    <3>2. s = t
      BY <1>3, <1>7, <2>2, <2>3, PrefixFacts
    <3> QED
      BY <3>1, <3>2 DEF Inside, IsStrictPrefix
  <2>4. CASE m < k
    <3>1. rel # <<>> /\ Head(rel) = t[n + 1] /\ t[n + 1] \in Files
      BY <1>2, <1>3, <1>4, <1>7, <2>1, <2>4
    <3>2. s # t
      BY <1>3, <1>7, <2>4
    <3>3. t[n + 1] # ".."
      BY <3>1, PathAssumption
    <3> QED
      BY <1>3, <2>2, <3>1, <3>2, <3>3 DEF Inside, IsStrictPrefix
  <2> QED
    BY <1>2, <1>3, <2>3, <2>4
<1> QED
  BY <1>2, <1>3, <1>6, <1>7

-----------------------------------------------------------------------------
(* GetPath and DetermineCommandName *)

\* Where GetPath's path leads, an absolute one being clean.
Place(base, path) ==
    IF path.abs THEN path.elements ELSE Walk(BaseDir(base), path.elements)

\* GetPath accepts a path that leads to a place inside the base directory.
LEMMA GetPathIs ==
  ASSUME NEW base \in Paths, NEW path \in Paths, path.abs => path.elements \in Seq(Files)
  PROVE  LET place == Place(base, path)
         IN  GetPath(base, path)
               = IF Inside(BaseDir(base), place) THEN Accepted(Absolute(place)) ELSE Rejected
<1> DEFINE place == Place(base, path)
           resolved == IF path.abs THEN path ELSE Abs(Join(base, path))
           rel == Rel(Abs(base), resolved)
<1>1. resolved = Absolute(place) /\ place \in Seq(Files)
  <2>1. CASE path.abs = TRUE
    <3>1. path = [abs |-> path.abs, elements |-> path.elements]
      BY CleanIs
    <3> QED
      BY <2>1, <3>1 DEF Place, Absolute
  <2>2. CASE path.abs = FALSE
    BY <2>2, JoinPlace DEF Place
  <2>3. path.abs \in BOOLEAN
    BY DEF Paths
  <2> QED
    BY <2>1, <2>2, <2>3
<1>2. Abs(base) = Absolute(BaseDir(base)) /\ BaseDir(base) \in Seq(Files)
  BY AbsIs
<1>3. GetPath(base, path)
        = IF rel = <<>> \/ Head(rel) \in {".."} \cup Dotted THEN Rejected ELSE Accepted(resolved)
  BY DEF GetPath
<1> HIDE DEF place, resolved
<1>4. (rel = <<>> \/ Head(rel) \in {".."} \cup Dotted) <=> ~Inside(BaseDir(base), place)
  BY <1>1, <1>2, RelIs
<1> HIDE DEF rel
<1> QED
  BY <1>1, <1>3, <1>4 DEF place

\* The command of a script is the file that its stanza names, and is accepted if and only
\* if that file lies in the base directory, in no directory there whose name begins with
\* dots (DetermineCommandName and GetPath in command.go).
THEOREM CommandIsInside ==
  ASSUME NEW base \in Paths, NEW name \in StanzaNames, Lower[name.scheme] \in {"script", ""}
  PROVE  LET place == Named(base, name)
         IN  DetermineCommandName(base, name)
               = IF Inside(BaseDir(base), place) THEN Accepted(Absolute(place)) ELSE Rejected
<1> DEFINE host == name.host.elements
           file == name.path.elements
           from == BaseDir(base)
           Is(path) == GetPath(base, path)
                         = IF Inside(from, Place(base, path)) THEN Accepted(Absolute(Place(base, path)))
                           ELSE Rejected
<1>1. /\ name.host \in Paths /\ name.path \in Paths /\ name.host.abs = FALSE
      /\ host \in Seq(Elements) /\ file \in Seq(Elements) /\ name.path.abs \in BOOLEAN
      /\ host \o file \in Seq(Elements)
  <2>1. name.host \in Paths /\ name.path \in Paths /\ ~name.host.abs
    BY DEF StanzaNames
  <2>2. /\ host \in Seq(Elements) /\ file \in Seq(Elements)
        /\ name.host.abs \in BOOLEAN /\ name.path.abs \in BOOLEAN
    BY <2>1 DEF Paths
  <2>3. host \o file \in Seq(Elements)
    BY <2>2, Concat
  <2> QED
    BY <2>1, <2>2, <2>3
<1>2. from \in Seq(Files)
  BY AbsIs
<1>3. CASE Lower[name.scheme] = ""
  <2> DEFINE bin == Relative(<<"bin", Binary>>)
             dir == <<"bin", Binary>>
             path == Join(bin, name.path)
  <2>1. dir \in Seq(Elements)
    <3>1. "bin" \in Elements /\ Binary \in Elements
      BY PathAssumption, FilesElements
    <3> QED
      BY <3>1, Pair
  <2>2. bin \in Paths /\ bin.abs = FALSE /\ bin.elements = dir /\ bin # Nowhere
    BY <2>1 DEF Paths, Relative, Nowhere
  <2>3. DetermineCommandName(base, name) = GetPath(base, path)
    BY <1>3, Zenon DEF DetermineCommandName
  <2>4. host = <<>>
    BY <1>3, NowhereIs DEF StanzaNames
  <2>5. dir \o (host \o file) = dir \o file /\ dir \o file \in Seq(Elements)
    BY <1>1, <2>1, <2>4, Concat
  <2>6. Named(base, name) = Walk(from, dir \o (host \o file))
    BY <1>3, Zenon DEF Named
  <2> HIDE DEF dir, bin
  <2>7. path \in Paths /\ path = [abs |-> FALSE, elements |-> Cleaned(FALSE, dir \o file)]
    BY <1>1, <2>2, JoinIs
  <2> HIDE DEF path, from, host, file
  <2>8. Place(base, path) = Walk(from, dir \o file)
    BY <1>2, <2>5, <2>7, WalkCleaned DEF Place, from
  <2>9. Is(path)
    BY <2>7, GetPathIs DEF from
  <2> QED
    BY <2>3, <2>5, <2>6, <2>8, <2>9 DEF from
<1>4. CASE Lower[name.scheme] = "script"
  <2> DEFINE path == Join(name.host, name.path)
  <2>1. DetermineCommandName(base, name) = GetPath(base, path)
    BY <1>4, Zenon DEF DetermineCommandName
  <2>2. CASE name.host = Nowhere /\ name.path.abs
    <3>1. Named(base, name) = Walk(<<>>, host \o file)
      BY <1>4, <2>2, Zenon DEF Named
    <3>2. host \o file = file
      <4>1. host = <<>> /\ host \in Seq(Elements) /\ file \in Seq(Elements)
        BY <1>1, <2>2, NowhereIs
      <4> HIDE DEF host, file
      <4> QED
        BY ONLY <4>1, Concat
    <3>3. path = Clean(name.path)
      BY <2>2 DEF Join
    <3>4. path \in Paths /\ path = [abs |-> TRUE, elements |-> Cleaned(TRUE, file)]
      BY <1>1, <2>2, <3>3, CleanIs
    <3> HIDE DEF path, from, host, file
    <3>5. Cleaned(TRUE, file) = Walk(<<>>, file) /\ Walk(<<>>, file) \in Seq(Files)
      BY <1>1, Nothing, CleanedAbsolute, WalkAppend
    <3>6. Place(base, path) = Walk(<<>>, file) /\ path.elements \in Seq(Files)
      BY <3>4, <3>5 DEF Place
    <3>7. Is(path)
      BY <3>4, <3>6, GetPathIs DEF from
    <3> QED
      BY <2>1, <3>1, <3>2, <3>6, <3>7 DEF from
  <2>3. CASE ~(name.host = Nowhere /\ name.path.abs)
    <3>1. Named(base, name) = Walk(from, host \o file)
      BY <1>4, <2>3, Zenon DEF Named
    <3>2. path \in Paths /\ path = [abs |-> FALSE, elements |-> Cleaned(FALSE, host \o file)]
      BY <1>1, <2>3, JoinIs
    <3> HIDE DEF path, from, host, file
    <3>3. Place(base, path) = Walk(from, host \o file)
      BY <1>1, <1>2, <3>2, WalkCleaned DEF Place, from
    <3>4. Is(path)
      BY <3>2, GetPathIs DEF from
    <3> QED
      BY <2>1, <3>1, <3>3, <3>4 DEF from
  <2> QED
    BY <2>2, <2>3
<1> QED
  BY <1>3, <1>4
=============================================================================
