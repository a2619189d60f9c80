---------------------------- MODULE AnswerProofs ----------------------------
(***************************************************************************)
(* Proofs about the answer of the chat, for any number of lines, chunks    *)
(* and messages: what the agent sends comes out whole, and its steps find  *)
(* their place in the tree. The lemmas about FlattenSeq and SelectSeq, and *)
(* induction on the naturals, serve the other panels too.                  *)
(***************************************************************************)
EXTENDS AnswerStream, IntermediateSteps, FiniteSetTheorems, SequenceTheorems,
        NaturalsInduction, TLAPS

-----------------------------------------------------------------------------
(* Smallest elements *)

LEMMA LeastNatural ==
    ASSUME NEW S \in SUBSET Nat, S # {}
    PROVE  \E n \in S : \A m \in S : n <= m
<1>1. IsWellFoundedOn(OpToRel(<, Nat), Nat)
  BY NatLessThanWellFounded
<1>2. PICK n \in S : \A m \in S : ~(<<m, n>> \in OpToRel(<, Nat))
  BY <1>1, WFMin
<1>3. \A m \in S : ~(m < n)
  BY <1>2 DEF OpToRel
<1>4. QED
  BY <1>3

LEMMA MinIsMember ==
    ASSUME NEW S \in SUBSET Nat, S # {}
    PROVE  Min(S) \in S
BY LeastNatural DEF Min

\* Induction on the naturals, with a set for the predicate.
LEMMA FullByInduction ==
    ASSUME NEW T, 0 \in T, \A n \in Nat : n \in T => n + 1 \in T
    PROVE  Nat \subseteq T
<1> SUFFICES ASSUME Nat \ T # {} PROVE FALSE
  OBVIOUS
<1>1. PICK m \in Nat \ T : \A k \in Nat \ T : m <= k
  BY LeastNatural
<1>2. m # 0 /\ m - 1 \in Nat /\ m - 1 + 1 = m
  BY <1>1
<1>3. m - 1 \in T
  BY <1>1, <1>2
<1> QED BY <1>1, <1>2, <1>3

-----------------------------------------------------------------------------
(* Sequences taken apart and put together *)

\* The partial results of FlattenSeq.
FlattensTo(g, s, n) ==
    \A i \in 1 .. n : g[i] = IF i = 1 THEN s[i] ELSE g[i - 1] \o s[i]

\* The concatenations that the recursion of FlattenSeq builds exist, as one function.
LEMMA FlattenExists ==
    ASSUME NEW S, NEW s \in Seq(Seq(S))
    PROVE  \A n \in Nat : n <= Len(s) => \E g \in [1 .. n -> Seq(S)] : FlattensTo(g, s, n)
<1> DEFINE T == {n \in Nat : n <= Len(s) => \E g \in [1 .. n -> Seq(S)] : FlattensTo(g, s, n)}
<1>1. 0 \in T
  <2>1. [i \in 1 .. 0 |-> <<>>] \in [1 .. 0 -> Seq(S)]
    OBVIOUS
  <2>2. \A i \in 1 .. 0 : FALSE
    OBVIOUS
  <2>3. FlattensTo([i \in 1 .. 0 |-> <<>>], s, 0)
    BY <2>2 DEF FlattensTo
  <2> QED BY <2>1, <2>3
<1>2. ASSUME NEW n \in Nat, n \in T PROVE n + 1 \in T
  <2> SUFFICES ASSUME n + 1 <= Len(s)
               PROVE  \E g \in [1 .. n + 1 -> Seq(S)] : FlattensTo(g, s, n + 1)
    OBVIOUS
  <2>0. Len(s) \in Nat /\ DOMAIN s = 1 .. Len(s)
    OBVIOUS
  <2>1. PICK g \in [1 .. n -> Seq(S)] : FlattensTo(g, s, n)
    BY <1>2, <2>0
  <2> DEFINE h == [i \in 1 .. n + 1 |-> IF i = n + 1 THEN (IF i = 1 THEN s[i] ELSE g[n] \o s[i]) ELSE g[i]]
  <2>2. ASSUME NEW i \in 1 .. n + 1 PROVE h[i] \in Seq(S)
    <3>1. s[i] \in Seq(S)
      BY <2>0
    <3>2. CASE i # n + 1
      BY <3>2
    <3>3. CASE i = n + 1 /\ i = 1
      BY <3>1, <3>3
    <3>4. CASE i = n + 1 /\ i # 1
      <4>1. g[n] \in Seq(S)
        BY <3>4
      <4> QED BY <3>1, <3>4, <4>1, ConcatProperties
    <3> QED BY <3>2, <3>3, <3>4
  <2>3. h \in [1 .. n + 1 -> Seq(S)]
    BY <2>2
  <2>4. ASSUME NEW i \in 1 .. n + 1
        PROVE  h[i] = IF i = 1 THEN s[i] ELSE h[i - 1] \o s[i]
    <3>1. CASE i # n + 1
      <4>1. i \in 1 .. n /\ (i # 1 => i - 1 \in 1 .. n /\ i - 1 # n + 1)
        BY <3>1
      <4>2. g[i] = IF i = 1 THEN s[i] ELSE g[i - 1] \o s[i]
        BY <2>1, <4>1 DEF FlattensTo
      <4>3. h[i] = g[i] /\ (i # 1 => h[i - 1] = g[i - 1])
        BY <3>1, <4>1
      <4> QED BY <4>2, <4>3
    <3>2. CASE i = n + 1
      <4>1. i # 1 => i - 1 = n /\ n \in 1 .. n + 1 /\ n # n + 1
        BY <3>2
      <4>2. i # 1 => h[i - 1] = g[n]
        BY <4>1
      <4>3. h[i] = IF i = 1 THEN s[i] ELSE g[n] \o s[i]
        BY <3>2
      <4> QED BY <4>2, <4>3
    <3> QED BY <3>1, <3>2
  <2>5. FlattensTo(h, s, n + 1)
    BY <2>4 DEF FlattensTo
  <2> HIDE DEF h
  <2> QED BY <2>3, <2>5
<1> HIDE DEF T
<1>3. Nat \subseteq T
  BY <1>1, <1>2, FullByInduction
<1> QED BY <1>3 DEF T

LEMMA FlattensStep ==
    ASSUME NEW g, NEW s, NEW n, FlattensTo(g, s, n), NEW i \in 1 .. n
    PROVE  g[i] = IF i = 1 THEN s[i] ELSE g[i - 1] \o s[i]
BY Zenon DEF FlattensTo

\* Two such functions agree on the sequences they have in common.
LEMMA FlattenUnique ==
    ASSUME NEW g, NEW h, NEW s, NEW t, NEW m \in Nat, NEW n \in Nat, n <= m,
           \A i \in 1 .. n : s[i] = t[i],
           FlattensTo(g, s, m), FlattensTo(h, t, n)
    PROVE  \A i \in 1 .. n : g[i] = h[i]
<1> DEFINE T == {i \in Nat : i \in 1 .. n => g[i] = h[i]}
<1>1. 0 \in T
  OBVIOUS
<1>2. ASSUME NEW i \in Nat, i \in T PROVE i + 1 \in T
  <2> SUFFICES ASSUME i + 1 \in 1 .. n PROVE g[i + 1] = h[i + 1]
    OBVIOUS
  <2>1. i + 1 \in 1 .. m
    OBVIOUS
  <2>2. g[i + 1] = IF i + 1 = 1 THEN s[i + 1] ELSE g[i + 1 - 1] \o s[i + 1]
    BY <2>1 DEF FlattensTo
  <2>3. h[i + 1] = IF i + 1 = 1 THEN t[i + 1] ELSE h[i + 1 - 1] \o t[i + 1]
    BY DEF FlattensTo
  <2>4. i + 1 # 1 => i + 1 - 1 = i /\ i \in 1 .. n
    OBVIOUS
  <2>5. i + 1 # 1 => g[i] = h[i]
    BY <1>2, <2>4
  <2>6. s[i + 1] = t[i + 1]
    OBVIOUS
  <2>7. CASE i + 1 = 1
    BY <2>2, <2>3, <2>6, <2>7
  <2>8. CASE i + 1 # 1
    BY <2>2, <2>3, <2>4, <2>5, <2>6, <2>8
  <2> QED BY <2>7, <2>8
<1> HIDE DEF T
<1>3. Nat \subseteq T
  BY <1>1, <1>2, FullByInduction
<1> QED BY <1>3 DEF T

\* So the recursion of FlattenSeq gives what it says.
LEMMA FlattenDefined ==
    ASSUME NEW S, NEW s \in Seq(Seq(S)), s # <<>>
    PROVE  \E g \in [1 .. Len(s) -> Seq(S)] : FlattensTo(g, s, Len(s)) /\ FlattenSeq(s) = g[Len(s)]
<1>0. Len(s) \in Nat /\ Len(s) # 0
  BY EmptySeq
<1> DEFINE f == CHOOSE flatten :
                    flatten = [i \in 1 .. Len(s) |-> IF i = 1 THEN s[i] ELSE flatten[i - 1] \o s[i]]
<1>6. \E g \in [1 .. Len(s) -> Seq(S)] : FlattensTo(g, s, Len(s))
  <2>1. \A n \in Nat : n <= Len(s) => \E g \in [1 .. n -> Seq(S)] : FlattensTo(g, s, n)
    BY FlattenExists
  <2> QED BY <1>0, <2>1
<1>1. PICK g \in [1 .. Len(s) -> Seq(S)] : FlattensTo(g, s, Len(s))
  BY <1>6
<1>2. g = [i \in 1 .. Len(s) |-> IF i = 1 THEN s[i] ELSE g[i - 1] \o s[i]]
  BY <1>1 DEF FlattensTo
<1>3. f = [i \in 1 .. Len(s) |-> IF i = 1 THEN s[i] ELSE f[i - 1] \o s[i]]
  BY <1>2
<1>4. FlattenSeq(s) = f[Len(s)]
  BY <1>0 DEF FlattenSeq
<1> HIDE DEF f
<1>5. FlattensTo(f, s, Len(s))
  BY <1>3 DEF FlattensTo
<1>8. \A i \in 1 .. Len(s) : f[i] = g[i]
  BY <1>0, <1>1, <1>5, FlattenUnique
<1>7. f[Len(s)] = g[Len(s)]
  BY <1>0, <1>8
<1> QED BY <1>1, <1>4, <1>7

LEMMA FlattenEmpty == FlattenSeq(<<>>) = <<>>
BY DEF FlattenSeq

LEMMA FlattenType ==
    ASSUME NEW S, NEW s \in Seq(Seq(S))
    PROVE  FlattenSeq(s) \in Seq(S)
<1>1. CASE s = <<>>
  <2>1. <<>> \in Seq(S)
    BY EmptySeq
  <2>2. FlattenSeq(s) = <<>>
    BY <1>1, FlattenEmpty
  <2> QED BY <2>1, <2>2
<1>2. CASE s # <<>>
  <2>1. PICK g \in [1 .. Len(s) -> Seq(S)] : FlattenSeq(s) = g[Len(s)]
    BY <1>2, FlattenDefined
  <2>2. Len(s) \in 1 .. Len(s)
    BY <1>2, EmptySeq
  <2> QED BY <2>1, <2>2
<1> QED BY <1>1, <1>2

\* One more sequence is put at the end.
LEMMA FlattenAppend ==
    ASSUME NEW S, NEW s \in Seq(Seq(S)), NEW x \in Seq(S)
    PROVE  FlattenSeq(Append(s, x)) = FlattenSeq(s) \o x
<1> DEFINE t == Append(s, x)
<1>1. t \in Seq(Seq(S)) /\ t # <<>> /\ Len(t) = Len(s) + 1 /\ t[Len(s) + 1] = x
      /\ \A i \in 1 .. Len(s) : t[i] = s[i]
  BY AppendProperties
<1>2. Len(s) \in Nat
  OBVIOUS
<1> HIDE DEF t
<1>3. PICK g \in [1 .. Len(t) -> Seq(S)] : FlattensTo(g, t, Len(t)) /\ FlattenSeq(t) = g[Len(t)]
  BY <1>1, FlattenDefined
<1>4. g[Len(s) + 1] = IF Len(s) + 1 = 1 THEN x ELSE g[Len(s)] \o x
  <2>1. Len(s) + 1 \in 1 .. Len(t) /\ Len(s) + 1 - 1 = Len(s)
    BY <1>1, <1>2
  <2>3. FlattensTo(g, t, Len(t))
    BY <1>3
  <2>2. g[Len(s) + 1] = IF Len(s) + 1 = 1 THEN t[Len(s) + 1] ELSE g[Len(s) + 1 - 1] \o t[Len(s) + 1]
    BY <2>1, <2>3, FlattensStep
  <2> QED BY <1>1, <2>1, <2>2
<1>5. CASE s = <<>>
  <2>1. Len(s) = 0 /\ FlattenSeq(s) = <<>>
    BY <1>5, FlattenEmpty
  <2>2. FlattenSeq(t) = x
    BY <1>1, <1>3, <1>4, <2>1
  <2>3. <<>> \o x = x
    BY ConcatEmptySeq
  <2> QED BY <2>1, <2>2, <2>3 DEF t
<1>6. CASE s # <<>>
  <2>0. Len(s) # 0 /\ Len(s) \in 1 .. Len(s)
    BY <1>2, <1>6, EmptySeq
  <2>1. PICK h \in [1 .. Len(s) -> Seq(S)] : FlattensTo(h, s, Len(s)) /\ FlattenSeq(s) = h[Len(s)]
    BY <1>6, FlattenDefined
  <2>2. \A i \in 1 .. Len(s) : g[i] = h[i]
    <3>1. Len(s) <= Len(t) /\ Len(t) \in Nat
      BY <1>1, <1>2
    <3>2. FlattensTo(g, t, Len(t))
      BY <1>3
    <3>3. FlattensTo(h, s, Len(s))
      BY <2>1
    <3>4. \A i \in 1 .. Len(s) : t[i] = s[i]
      BY <1>1
    <3> DEFINE m == Len(t)
               n == Len(s)
    <3>5. m \in Nat /\ n \in Nat /\ n <= m
      BY <1>2, <3>1
    <3>6. FlattensTo(g, t, m) /\ FlattensTo(h, s, n) /\ \A i \in 1 .. n : t[i] = s[i]
      BY <3>2, <3>3, <3>4
    <3> HIDE DEF m, n
    <3>7. \A i \in 1 .. n : g[i] = h[i]
      BY <3>5, <3>6, FlattenUnique
    <3> QED BY <3>7 DEF n
  <2>3. FlattenSeq(t) = g[Len(s)] \o x
    BY <1>1, <1>3, <1>4, <2>0, <1>2
  <2> QED BY <2>0, <2>1, <2>2, <2>3 DEF t
<1> QED BY <1>5, <1>6

LEMMA FlattenOne ==
    ASSUME NEW S, NEW x \in Seq(S)
    PROVE  FlattenSeq(<<x>>) = x
<1>1. <<x>> = Append(<<>>, x) /\ <<>> \in Seq(Seq(S)) /\ <<>> \o x = x
  BY ConcatEmptySeq
<1> QED BY <1>1, FlattenAppend, FlattenEmpty

\* A sequence that is not empty has a last element.
EndsApart(E, s, u, n) ==
    \E v \in Seq(E), x \in E : /\ Len(v) = n /\ u = Append(v, x)
                               /\ s \o v \in Seq(E) /\ s \o u = Append(s \o v, x)

\* A sequence that is not empty is one shorter sequence and its last element.
LEMMA LastApart ==
    ASSUME NEW E, NEW s \in Seq(E), NEW n \in Nat, NEW u \in Seq(E), Len(u) = n + 1
    PROVE  EndsApart(E, s, u, n)
<1>1. u # <<>>
  BY EmptySeq
<1>2. PICK v \in Seq(E), x \in E : u = Append(v, x)
  BY <1>1, SequenceEmptyOrAppend
<1>3. Len(v) = n
  <2>1. Len(Append(v, x)) = Len(v) + 1 /\ Len(v) \in Nat
    BY AppendProperties, LenProperties
  <2> QED BY <1>2, <2>1
<1>4. s \o v \in Seq(E) /\ <<x>> \in Seq(E)
  BY ConcatProperties
<1>5. s \o u = Append(s \o v, x)
  <2>1. u = v \o <<x>> /\ Append(s \o v, x) = (s \o v) \o <<x>>
    BY <1>2, <1>4, AppendIsConcat
  <2>2. (s \o v) \o <<x>> = s \o (v \o <<x>>)
    BY <1>4, ConcatAssociative
  <2> QED BY <2>1, <2>2
<1> QED BY <1>2, <1>3, <1>4, <1>5 DEF EndsApart

\* Concatenations of concatenations, over a set of sequences closed under \o.
LEMMA FlattenConcatSteps ==
    ASSUME NEW E, NEW s \in Seq(E)
    PROVE  /\ \A u \in Seq(E), x \in E : FlattenSeq(Append(u, x)) = FlattenSeq(u) \o x
           /\ \A u \in Seq(E) : FlattenSeq(u) \in E
           /\ \A a, b, c \in E : (a \o b) \o c = a \o (b \o c)
           /\ \A a \in E : a \o FlattenSeq(<<>>) = a
           => \A u \in Seq(E) : FlattenSeq(s \o u) = FlattenSeq(s) \o FlattenSeq(u)
<1>a. SUFFICES ASSUME \A u \in Seq(E), x \in E : FlattenSeq(Append(u, x)) = FlattenSeq(u) \o x,
                      \A u \in Seq(E) : FlattenSeq(u) \in E,
                      \A a, b, c \in E : (a \o b) \o c = a \o (b \o c),
                      \A a \in E : a \o FlattenSeq(<<>>) = a
               PROVE  \A u \in Seq(E) : FlattenSeq(s \o u) = FlattenSeq(s) \o FlattenSeq(u)
  OBVIOUS
<1> DEFINE T == {n \in Nat : \A u \in Seq(E) :
                     Len(u) = n => FlattenSeq(s \o u) = FlattenSeq(s) \o FlattenSeq(u)}
<1>1. 0 \in T
  <2> SUFFICES ASSUME NEW u \in Seq(E), Len(u) = 0
               PROVE  FlattenSeq(s \o u) = FlattenSeq(s) \o FlattenSeq(u)
    OBVIOUS
  <2>1. u = <<>> /\ s \o u = s
    BY EmptySeq, ConcatEmptySeq
  <2>2. FlattenSeq(s) \in E
    BY <1>a
  <2> QED BY <1>a, <2>1, <2>2
<1>2. ASSUME NEW n \in Nat, n \in T PROVE n + 1 \in T
  <2> SUFFICES ASSUME NEW u \in Seq(E), Len(u) = n + 1
               PROVE  FlattenSeq(s \o u) = FlattenSeq(s) \o FlattenSeq(u)
    OBVIOUS
  <2>1. PICK v \in Seq(E), x \in E : /\ Len(v) = n /\ u = Append(v, x)
                                     /\ s \o v \in Seq(E) /\ s \o u = Append(s \o v, x)
    <3>1. EndsApart(E, s, u, n)
      BY LastApart
    <3> QED BY <3>1 DEF EndsApart
  <2>2. FlattenSeq(s \o v) = FlattenSeq(s) \o FlattenSeq(v)
    BY <1>2, <2>1
  <2>6. FlattenSeq(Append(s \o v, x)) = FlattenSeq(s \o v) \o x
          /\ FlattenSeq(Append(v, x)) = FlattenSeq(v) \o x
    BY <1>a, <2>1, Zenon
  <2>3. FlattenSeq(s \o u) = FlattenSeq(s \o v) \o x /\ FlattenSeq(u) = FlattenSeq(v) \o x
    BY <2>1, <2>6
  <2>4. FlattenSeq(s) \in E /\ FlattenSeq(v) \in E
    BY <1>a
  <2>5. (FlattenSeq(s) \o FlattenSeq(v)) \o x = FlattenSeq(s) \o (FlattenSeq(v) \o x)
    BY <1>a, <2>4
  <2> QED BY <2>2, <2>3, <2>5
<1> HIDE DEF T
<1>3. Nat \subseteq T
  BY <1>1, <1>2, FullByInduction
<1>4. ASSUME NEW u \in Seq(E) PROVE FlattenSeq(s \o u) = FlattenSeq(s) \o FlattenSeq(u)
  <2>1. Len(u) \in T
    BY <1>3
  <2> QED BY <2>1 DEF T
<1> QED BY <1>4

\* Flattening takes concatenations apart.
LEMMA FlattenConcat ==
    ASSUME NEW S
    PROVE  \A s, t \in Seq(Seq(S)) : FlattenSeq(s \o t) = FlattenSeq(s) \o FlattenSeq(t)
<1> DEFINE E == Seq(S)
<1>1. \A u \in Seq(E), x \in E : FlattenSeq(Append(u, x)) = FlattenSeq(u) \o x
  BY FlattenAppend
<1>2. \A u \in Seq(E) : FlattenSeq(u) \in E
  BY FlattenType
<1>3. \A a, b, c \in E : (a \o b) \o c = a \o (b \o c)
  BY ConcatAssociative
<1>4. \A a \in E : a \o FlattenSeq(<<>>) = a
  BY ConcatEmptySeq, FlattenEmpty
<1> HIDE DEF E
<1>5. \A s, t \in Seq(E) : FlattenSeq(s \o t) = FlattenSeq(s) \o FlattenSeq(t)
  <2> SUFFICES ASSUME NEW s \in Seq(E)
               PROVE  \A t \in Seq(E) : FlattenSeq(s \o t) = FlattenSeq(s) \o FlattenSeq(t)
    OBVIOUS
  <2> QED BY <1>1, <1>2, <1>3, <1>4, FlattenConcatSteps
<1> QED BY <1>5 DEF E

\* A filter: its parts, and what it keeps.
Chosen(s, K) == [i \in DOMAIN s |-> IF s[i] \in K THEN <<s[i]>> ELSE <<>>]
Filtered(s, K) == FlattenSeq(Chosen(s, K))

LEMMA ChosenType ==
    ASSUME NEW S, NEW s \in Seq(S), NEW K
    PROVE  Chosen(s, K) \in Seq(Seq(S)) /\ Len(Chosen(s, K)) = Len(s)
<1>1. DOMAIN s = 1 .. Len(s) /\ Len(s) \in Nat
  OBVIOUS
<1>2. ASSUME NEW i \in 1 .. Len(s) PROVE (IF s[i] \in K THEN <<s[i]>> ELSE <<>>) \in Seq(S)
  <2>1. s[i] \in S
    BY <1>1
  <2>2. <<s[i]>> \in Seq(S) /\ <<>> \in Seq(S)
    BY <2>1
  <2> QED BY <2>2
<1>3. [i \in 1 .. Len(s) |-> IF s[i] \in K THEN <<s[i]>> ELSE <<>>] \in [1 .. Len(s) -> Seq(S)]
  BY <1>2
<1> DEFINE E == Seq(S)
           c == Chosen(s, K)
<1>4. c \in [1 .. Len(s) -> E]
  BY <1>1, <1>3 DEF Chosen
<1> HIDE DEF E, c
<1>5. c \in Seq(E) /\ Len(c) = Len(s)
  BY <1>1, <1>4
<1> QED BY <1>5 DEF E, c

LEMMA ChosenAppend ==
    ASSUME NEW S, NEW s \in Seq(S), NEW x \in S, NEW K
    PROVE  Chosen(Append(s, x), K) = Append(Chosen(s, K), IF x \in K THEN <<x>> ELSE <<>>)
<1> DEFINE E == Seq(S)
           a == Chosen(Append(s, x), K)
           c == Chosen(s, K)
           y == IF x \in K THEN <<x>> ELSE <<>>
<1>1. Append(s, x) \in Seq(S) /\ Len(Append(s, x)) = Len(s) + 1 /\ Append(s, x)[Len(s) + 1] = x
      /\ Len(s) \in Nat
  BY AppendProperties
<1>9. \A i \in 1 .. Len(s) : Append(s, x)[i] = s[i]
  BY AppendProperties
<1>2. a \in Seq(E) /\ Len(a) = Len(s) + 1 /\ c \in Seq(E) /\ Len(c) = Len(s)
  BY <1>1, ChosenType
<1>3. y \in E
  OBVIOUS
<1>4. DOMAIN s = 1 .. Len(s) /\ DOMAIN Append(s, x) = 1 .. Len(s) + 1
  BY <1>1
<1>5. \A i \in 1 .. Len(s) : a[i] = c[i]
  BY <1>1, <1>4, <1>9 DEF Chosen
<1>6. a[Len(s) + 1] = y
  BY <1>1, <1>4 DEF Chosen
<1> HIDE DEF E, a, c, y
<1>7. Append(c, y) \in Seq(E) /\ Len(Append(c, y)) = Len(s) + 1
      /\ Append(c, y)[Len(s) + 1] = y
      /\ \A i \in 1 .. Len(s) : Append(c, y)[i] = c[i]
  BY <1>2, <1>3, AppendProperties
<1>8. \A i \in 1 .. Len(s) + 1 : a[i] = Append(c, y)[i]
  <2> SUFFICES ASSUME NEW i \in 1 .. Len(s) + 1 PROVE a[i] = Append(c, y)[i]
    OBVIOUS
  <2>1. CASE i = Len(s) + 1
    BY <1>6, <1>7, <2>1
  <2>2. CASE i # Len(s) + 1
    <3>1. i \in 1 .. Len(s)
      BY <1>1, <2>2
    <3> QED BY <1>5, <1>7, <3>1
  <2> QED BY <2>1, <2>2
<1>10. a = Append(c, y)
  BY <1>2, <1>7, <1>8, SeqEqual
<1> QED BY <1>10 DEF a, c, y

LEMMA FilteredType ==
    ASSUME NEW S, NEW s \in Seq(S), NEW K
    PROVE  Filtered(s, K) \in Seq(S)
BY ChosenType, FlattenType DEF Filtered

LEMMA FilteredEmpty ==
    ASSUME NEW K
    PROVE  Filtered(<<>>, K) = <<>>
<1>1. Chosen(<<>>, K) = <<>>
  BY DEF Chosen
<1> QED BY <1>1, FlattenEmpty DEF Filtered

LEMMA FilteredAppend ==
    ASSUME NEW S, NEW s \in Seq(S), NEW x \in S, NEW K
    PROVE  Filtered(Append(s, x), K) = IF x \in K THEN Append(Filtered(s, K), x) ELSE Filtered(s, K)
<1> DEFINE y == IF x \in K THEN <<x>> ELSE <<>>
<1>1. y \in Seq(S)
  OBVIOUS
<1>2. Filtered(Append(s, x), K) = FlattenSeq(Append(Chosen(s, K), y))
  BY ChosenAppend DEF Filtered
<1>3. Filtered(s, K) \in Seq(S)
  BY FilteredType
<1> HIDE DEF y
<1>4. FlattenSeq(Append(Chosen(s, K), y)) = Filtered(s, K) \o y
  BY <1>1, ChosenType, FlattenAppend DEF Filtered
<1>5. CASE x \in K
  <2>1. y = <<x>> /\ Append(Filtered(s, K), x) = Filtered(s, K) \o <<x>>
    BY <1>3, <1>5, AppendIsConcat DEF y
  <2> QED BY <1>2, <1>4, <1>5, <2>1
<1>6. CASE x \notin K
  <2>1. y = <<>> /\ Filtered(s, K) \o <<>> = Filtered(s, K)
    BY <1>3, <1>6, ConcatEmptySeq DEF y
  <2> QED BY <1>2, <1>4, <1>6, <2>1
<1> QED BY <1>5, <1>6

Regroups(a, b, x) == Append(a \o b, x) = a \o Append(b, x)

LEMMA AppendRegroups ==
    ASSUME NEW S, NEW a \in Seq(S), NEW b \in Seq(S), NEW x \in S
    PROVE  Regroups(a, b, x)
<1>1. a \o b \in Seq(S) /\ <<x>> \in Seq(S)
  BY ConcatProperties
<1>2. Append(b, x) = b \o <<x>> /\ Append(a \o b, x) = (a \o b) \o <<x>>
  BY <1>1, AppendIsConcat
<1>3. (a \o b) \o <<x>> = a \o (b \o <<x>>)
  BY <1>1, ConcatAssociative
<1> QED BY <1>2, <1>3 DEF Regroups

\* A filter takes concatenations apart.
LEMMA FilteredConcat ==
    ASSUME NEW S, NEW s \in Seq(S), NEW K
    PROVE  \A t \in Seq(S) : Filtered(s \o t, K) = Filtered(s, K) \o Filtered(t, K)
<1> DEFINE T == {n \in Nat : \A u \in Seq(S) :
      Len(u) = n => Filtered(s \o u, K) = Filtered(s, K) \o Filtered(u, K)}
<1>0. Filtered(s, K) \in Seq(S)
  BY FilteredType
<1>1. 0 \in T
  <2> SUFFICES ASSUME NEW u \in Seq(S), Len(u) = 0
               PROVE  Filtered(s \o u, K) = Filtered(s, K) \o Filtered(u, K)
    OBVIOUS
  <2>1. u = <<>> /\ s \o u = s
    BY EmptySeq, ConcatEmptySeq
  <2>2. Filtered(s, K) \o <<>> = Filtered(s, K)
    BY <1>0, ConcatEmptySeq
  <2> QED BY <2>1, <2>2, FilteredEmpty
<1>2. ASSUME NEW n \in Nat, n \in T PROVE n + 1 \in T
  <2> SUFFICES ASSUME NEW u \in Seq(S), Len(u) = n + 1
               PROVE  Filtered(s \o u, K) = Filtered(s, K) \o Filtered(u, K)
    OBVIOUS
  <2>1. PICK v \in Seq(S), x \in S : /\ Len(v) = n /\ u = Append(v, x)
                                     /\ s \o v \in Seq(S) /\ s \o u = Append(s \o v, x)
    <3>1. EndsApart(S, s, u, n)
      BY LastApart
    <3> QED BY <3>1 DEF EndsApart
  <2>2. Filtered(s \o v, K) = Filtered(s, K) \o Filtered(v, K)
    BY <1>2, <2>1
  <2>3. Filtered(v, K) \in Seq(S)
    BY FilteredType
  <2>4. Filtered(s \o u, K) = IF x \in K THEN Append(Filtered(s \o v, K), x) ELSE Filtered(s \o v, K)
    <3> DEFINE w == s \o v
    <3>1. w \in Seq(S) /\ s \o u = Append(w, x)
      BY <2>1
    <3> HIDE DEF w
    <3>2. Filtered(Append(w, x), K) = IF x \in K THEN Append(Filtered(w, K), x) ELSE Filtered(w, K)
      BY <3>1, FilteredAppend
    <3> QED BY <3>1, <3>2 DEF w
  <2>5. Filtered(u, K) = IF x \in K THEN Append(Filtered(v, K), x) ELSE Filtered(v, K)
    BY <2>1, FilteredAppend
  <2>6. Append(Filtered(s, K) \o Filtered(v, K), x) = Filtered(s, K) \o Append(Filtered(v, K), x)
    <3> DEFINE a == Filtered(s, K)
               b == Filtered(v, K)
    <3>1. a \in Seq(S) /\ b \in Seq(S)
      BY <1>0, <2>3
    <3> HIDE DEF a, b
    <3>2. Regroups(a, b, x)
      BY <3>1, AppendRegroups
    <3> QED BY <3>2 DEF a, b, Regroups
  <2> QED BY <2>2, <2>4, <2>5, <2>6
<1> HIDE DEF T
<1>3. Nat \subseteq T
  BY <1>1, <1>2, FullByInduction
<1>4. ASSUME NEW t \in Seq(S) PROVE Filtered(s \o t, K) = Filtered(s, K) \o Filtered(t, K)
  <2>1. Len(t) \in T
    BY <1>3
  <2> QED BY <2>1 DEF T
<1> QED BY <1>4

\* What is kept stands in the sequence, in its order.
Embeds(h, a, s, K) ==
    /\ h \in [1 .. Len(a) -> 1 .. Len(s)]
    /\ \A i \in 1 .. Len(a) : a[i] = s[h[i]] /\ a[i] \in K
    /\ \A i, j \in 1 .. Len(a) : i < j => h[i] < h[j]

\* The place of what is kept survives one more element.
LEMMA EmbedsMore ==
    ASSUME NEW S, NEW s \in Seq(S), NEW x \in S, NEW K, NEW a \in Seq(S), NEW h, Embeds(h, a, s, K)
    PROVE  /\ Embeds(h, a, Append(s, x), K)
           /\ x \in K => Embeds([i \in 1 .. Len(a) + 1 |-> IF i = Len(a) + 1 THEN Len(s) + 1 ELSE h[i]],
                                Append(a, x), Append(s, x), K)
<1> DEFINE t == Append(s, x)
           b == Append(a, x)
           g == [i \in 1 .. Len(a) + 1 |-> IF i = Len(a) + 1 THEN Len(s) + 1 ELSE h[i]]
<1>1. Len(t) = Len(s) + 1 /\ t[Len(s) + 1] = x /\ \A i \in 1 .. Len(s) : t[i] = s[i]
  BY AppendProperties
<1>2. Len(b) = Len(a) + 1 /\ b[Len(a) + 1] = x /\ \A i \in 1 .. Len(a) : b[i] = a[i]
  BY AppendProperties
<1>3. Len(s) \in Nat /\ Len(a) \in Nat
  OBVIOUS
<1> HIDE DEF t, b
<1>4. /\ h \in [1 .. Len(a) -> 1 .. Len(s)]
      /\ \A i \in 1 .. Len(a) : a[i] = s[h[i]] /\ a[i] \in K
      /\ \A i, j \in 1 .. Len(a) : i < j => h[i] < h[j]
  BY DEF Embeds
<1>5. Embeds(h, a, t, K)
  <2>1. h \in [1 .. Len(a) -> 1 .. Len(t)]
    BY <1>1, <1>3, <1>4
  <2>2. ASSUME NEW i \in 1 .. Len(a) PROVE a[i] = t[h[i]] /\ a[i] \in K
    <3>1. h[i] \in 1 .. Len(s) /\ a[i] = s[h[i]] /\ a[i] \in K
      BY <1>4
    <3> QED BY <1>1, <3>1
  <2> QED BY <1>4, <2>1, <2>2, Zenon DEF Embeds
<1>6. ASSUME x \in K PROVE Embeds(g, b, t, K)
  <2>1. g \in [1 .. Len(b) -> 1 .. Len(t)]
    BY <1>1, <1>2, <1>3, <1>4
  <2>2. ASSUME NEW i \in 1 .. Len(b) PROVE b[i] = t[g[i]] /\ b[i] \in K
    <3>1. CASE i = Len(a) + 1
      BY <1>1, <1>2, <1>3, <1>6, <3>1
    <3>2. CASE i # Len(a) + 1
      <4>1. i \in 1 .. Len(a) /\ g[i] = h[i]
        BY <1>2, <1>3, <3>2
      <4>2. h[i] \in 1 .. Len(s) /\ a[i] = s[h[i]] /\ a[i] \in K
        BY <1>4, <4>1
      <4> QED BY <1>1, <1>2, <4>1, <4>2
    <3> QED BY <3>1, <3>2
  <2>3. ASSUME NEW i \in 1 .. Len(b), NEW j \in 1 .. Len(b), i < j PROVE g[i] < g[j]
    <3>1. i \in 1 .. Len(a) /\ g[i] = h[i] /\ h[i] \in 1 .. Len(s)
      BY <1>2, <1>3, <1>4, <2>3
    <3>2. CASE j = Len(a) + 1
      <4>1. g[j] = Len(s) + 1
        BY <1>2, <3>2
      <4> QED BY <1>3, <3>1, <4>1
    <3>3. CASE j # Len(a) + 1
      <4>1. j \in 1 .. Len(a) /\ g[j] = h[j]
        BY <1>2, <1>3, <3>3
      <4> QED BY <1>4, <2>3, <3>1, <4>1
    <3> QED BY <3>2, <3>3
  <2> HIDE DEF g
  <2> QED BY <2>1, <2>2, <2>3, Zenon DEF Embeds
<1> QED BY <1>5, <1>6 DEF t, b

\* Whatever the sequence, what is kept of it stands in it, in its order.
LEMMA FilteredEmbeds ==
    ASSUME NEW S, NEW K
    PROVE  \A s \in Seq(S) : \E h : Embeds(h, Filtered(s, K), s, K)
<1> DEFINE T == {n \in Nat : \A s \in Seq(S) : Len(s) = n => \E h : Embeds(h, Filtered(s, K), s, K)}
<1>1. 0 \in T
  <2> SUFFICES ASSUME NEW s \in Seq(S), Len(s) = 0 PROVE \E h : Embeds(h, Filtered(s, K), s, K)
    OBVIOUS
  <2>1. s = <<>> /\ Filtered(s, K) = <<>>
    BY EmptySeq, FilteredEmpty
  <2>2. Embeds(<<>>, <<>>, <<>>, K)
    BY DEF Embeds
  <2> QED BY <2>1, <2>2
<1>2. ASSUME NEW n \in Nat, n \in T PROVE n + 1 \in T
  <2> SUFFICES ASSUME NEW u \in Seq(S), Len(u) = n + 1 PROVE \E h : Embeds(h, Filtered(u, K), u, K)
    OBVIOUS
  <2>1. PICK v \in Seq(S), x \in S : Len(v) = n /\ u = Append(v, x)
    <3>1. EndsApart(S, u, u, n)
      BY LastApart
    <3> QED BY <3>1 DEF EndsApart
  <2>2. PICK h : Embeds(h, Filtered(v, K), v, K)
    BY <1>2, <2>1
  <2>3. Filtered(v, K) \in Seq(S)
    BY FilteredType
  <2>4. Filtered(u, K) = IF x \in K THEN Append(Filtered(v, K), x) ELSE Filtered(v, K)
    BY <2>1, FilteredAppend
  <2> DEFINE a == Filtered(v, K)
             g == [i \in 1 .. Len(a) + 1 |-> IF i = Len(a) + 1 THEN Len(v) + 1 ELSE h[i]]
  <2>5. Embeds(h, a, u, K) /\ (x \in K => Embeds(g, Append(a, x), u, K))
    BY <2>1, <2>2, <2>3, EmbedsMore
  <2> HIDE DEF a, g
  <2> QED BY <2>4, <2>5 DEF a
<1> HIDE DEF T
<1>3. Nat \subseteq T
  BY <1>1, <1>2, FullByInduction
<1>4. ASSUME NEW s \in Seq(S) PROVE \E h : Embeds(h, Filtered(s, K), s, K)
  <2>1. Len(s) \in T
    BY <1>3
  <2> QED BY <2>1 DEF T
<1> QED BY <1>4

-----------------------------------------------------------------------------
(* The steps of an answer *)

-----------------------------------------------------------------------------
\* A tree in the order it is walked: an entry is at most one deeper than the one before.
Walked(t) ==
    /\ \A i \in DOMAIN t : i = 1 => t[i].depth = 0
    /\ \A i \in DOMAIN t : i + 1 \in DOMAIN t => t[i + 1].depth <= t[i].depth + 1

\* Entry i is under entry p, and entries i and j are beside each other.
IsAbove(t, p, i) ==
    /\ p < i /\ t[p].depth + 1 = t[i].depth
    /\ \A k \in DOMAIN t : p < k /\ k < i => t[k].depth >= t[i].depth

Beside(t, i, j) ==
    /\ i < j /\ t[i].depth = t[j].depth
    /\ \A k \in DOMAIN t : i < k /\ k < j => t[k].depth >= t[i].depth

UnderTheirParents(t) == \A p, i \in DOMAIN t : IsAbove(t, p, i) => t[p].id = ParentId(t[i].id)
InOrder(t) == \A i, j \in DOMAIN t : Beside(t, i, j) => t[i].index < t[j].index

\* Entry e is the only one of its step, and shows the last message of it.
Differ(t) == \A i, j \in DOMAIN t : t[i].id = t[j].id /\ t[i].name = t[j].name => i = j

IsLastOf(n, e, messages) ==
    /\ n \in DOMAIN messages /\ messages[n].id = e.id /\ messages[n].name = e.name
    /\ \A m \in DOMAIN messages : messages[m].id = e.id /\ messages[m].name = e.name => m <= n

ShowTheLast(t, messages) == \A i \in DOMAIN t : IsLastOf(t[i].payload, t[i], messages)

Indexed(t, n) == \A i \in DOMAIN t : t[i].index <= n

TreeInv(t, n) == t \in Seq(Entries) /\ Walked(t) /\ UnderTheirParents(t) /\ InOrder(t) /\ Indexed(t, n)

StepInv ==
    /\ StepTypeOK
    /\ TreeInv(tree, Len(stepMessages))
    /\ overrides => Differ(tree) /\ ShowTheLast(tree, stepMessages)

LEMMA EntryTypes ==
    ASSUME NEW t \in Seq(Entries)
    PROVE  /\ DOMAIN t = 1 .. Len(t) /\ Len(t) \in Nat
           /\ \A i \in DOMAIN t : /\ t[i] \in Entries /\ t[i].depth \in Nat /\ t[i].index \in Nat
                                  /\ t[i].payload \in Nat /\ t[i].id \in StepIds
<1>1. DOMAIN t = 1 .. Len(t) /\ Len(t) \in Nat
  OBVIOUS
<1>2. ASSUME NEW i \in DOMAIN t
      PROVE  /\ t[i] \in Entries /\ t[i].depth \in Nat /\ t[i].index \in Nat
             /\ t[i].payload \in Nat /\ t[i].id \in StepIds
  <2>1. t[i] \in Entries
    BY <1>1
  <2> QED BY <2>1 DEF Entries
<1> QED BY <1>1, <1>2

LEMMA LeastIs ==
    ASSUME NEW S \in SUBSET Nat, S # {}
    PROVE  Min(S) \in S /\ \A x \in S : Min(S) <= x
BY LeastNatural DEF Min

LEMMA GreatestIs ==
    ASSUME NEW S \in SUBSET Nat, NEW m \in S, \A x \in S : x <= m
    PROVE  Max(S) = m
<1>1. \E x \in S : \A y \in S : y <= x
  OBVIOUS
<1>2. Max(S) \in S /\ \A y \in S : y <= Max(S)
  BY <1>1 DEF Max
<1>3. Max(S) \in Nat /\ m \in Nat /\ Max(S) <= m /\ m <= Max(S)
  BY <1>2
<1> QED BY <1>3

\* What hangs under an entry is the run of deeper ones behind it.
LEMMA EndOfEntry ==
    ASSUME tree \in Seq(Entries), NEW i \in DOMAIN tree
    PROVE  /\ EndOf(i) \in i .. Len(tree)
           /\ \A k \in DOMAIN tree : i < k /\ k <= EndOf(i) => tree[k].depth > tree[i].depth
           /\ EndOf(i) + 1 \in DOMAIN tree => tree[EndOf(i) + 1].depth <= tree[i].depth
<1> DEFINE after == {j \in DOMAIN tree : j > i /\ tree[j].depth <= tree[i].depth}
<1>1. DOMAIN tree = 1 .. Len(tree) /\ Len(tree) \in Nat /\ \A k \in DOMAIN tree : tree[k].depth \in Nat
  BY EntryTypes
<1>2. CASE after = {}
  <2>1. EndOf(i) = Len(tree)
    BY <1>2 DEF EndOf
  <2>2. ASSUME NEW k \in DOMAIN tree, i < k PROVE tree[k].depth > tree[i].depth
    <3>1. k \notin after
      BY <1>2
    <3> QED BY <1>1, <2>2, <3>1
  <2> QED BY <1>1, <2>1, <2>2
<1>3. CASE after # {}
  <2>1. EndOf(i) = Min(after) - 1
    BY <1>3 DEF EndOf
  <2>2. after \in SUBSET Nat
    BY <1>1
  <2> DEFINE m == Min(after)
  <2>3. m \in after /\ \A x \in after : m <= x
    BY <1>3, <2>2, LeastIs
  <2> HIDE DEF m
  <2>4. m \in 1 .. Len(tree) /\ m > i /\ tree[m].depth <= tree[i].depth
    BY <1>1, <2>3
  <2>5. ASSUME NEW k \in DOMAIN tree, i < k, k < m PROVE tree[k].depth > tree[i].depth
    <3>1. k \notin after
      BY <1>1, <2>3, <2>4, <2>5
    <3> QED BY <1>1, <2>5, <3>1
  <2>6. EndOf(i) = m - 1
    BY <2>1 DEF m
  <2> HIDE DEF after
  <2> QED BY <1>1, <2>4, <2>5, <2>6
<1> QED BY <1>2, <1>3

\* Entry e between what sequence t has up to place a and what it has after place b.
HasThreeParts(u, t, e, a, b) ==
    /\ Len(u) = a + 1 + Len(t) - b
    /\ \A k \in 1 .. a : u[k] = t[k]
    /\ u[a + 1] = e
    /\ \A k \in a + 2 .. a + 1 + Len(t) - b : u[k] = t[k - 1 - a + b]

ThreePartsOf(t, e, a, b) == SubSeq(t, 1, a) \o <<e>> \o SubSeq(t, b + 1, Len(t))

\* A tree cut in three, with one entry in the place of the middle.
LEMMA ThreeParts ==
    ASSUME NEW S, NEW t \in Seq(S), NEW e \in S, NEW a \in 0 .. Len(t), NEW b \in a .. Len(t)
    PROVE  ThreePartsOf(t, e, a, b) \in Seq(S) /\ HasThreeParts(ThreePartsOf(t, e, a, b), t, e, a, b)
<1> DEFINE x == SubSeq(t, 1, a)
           z == SubSeq(t, b + 1, Len(t))
           y == x \o <<e>>
           u == y \o z
<1>0. Len(t) \in Nat /\ a \in Nat /\ b \in Nat
  OBVIOUS
<1>1. x \in Seq(S) /\ Len(x) = a /\ \A k \in 1 .. a : x[k] = t[k]
  OBVIOUS
<1>2. z \in Seq(S) /\ Len(z) = Len(t) - b /\ \A k \in 1 .. Len(t) - b : z[k] = t[b + k]
  <2>1. z \in Seq(S) /\ Len(z) = Len(t) - b
    OBVIOUS
  <2>2. ASSUME NEW k \in 1 .. Len(t) - b PROVE z[k] = t[b + k]
    OBVIOUS
  <2> QED BY <2>1, <2>2
<1> HIDE DEF x, z
<1>3. y \in Seq(S) /\ Len(y) = a + 1 /\ y[a + 1] = e /\ \A k \in 1 .. a : y[k] = x[k]
  <2>1. <<e>> \in Seq(S) /\ Len(<<e>>) = 1 /\ <<e>>[1] = e
    OBVIOUS
  <2> QED BY <1>0, <1>1, <2>1, ConcatProperties
<1> HIDE DEF y
<1>4. u \in Seq(S) /\ Len(u) = a + 1 + (Len(t) - b)
      /\ \A k \in 1 .. a + 1 + (Len(t) - b) : u[k] = IF k <= a + 1 THEN y[k] ELSE z[k - (a + 1)]
  <2>1. y \in Seq(S) /\ z \in Seq(S)
    BY <1>2, <1>3
  <2>2. u \in Seq(S) /\ Len(u) = Len(y) + Len(z)
        /\ \A k \in 1 .. Len(y) + Len(z) : u[k] = IF k <= Len(y) THEN y[k] ELSE z[k - Len(y)]
    BY <2>1, ConcatProperties
  <2>3. Len(y) = a + 1 /\ Len(z) = Len(t) - b
    BY <1>2, <1>3
  <2> HIDE DEF u
  <2> QED BY <2>2, <2>3
<1> HIDE DEF u
<1>5. Len(u) = a + 1 + Len(t) - b
  BY <1>0, <1>4
<1>6. ASSUME NEW k \in 1 .. a PROVE u[k] = t[k]
  BY <1>0, <1>1, <1>3, <1>4
<1>7. u[a + 1] = e
  BY <1>0, <1>3, <1>4
<1>8. ASSUME NEW k \in a + 2 .. a + 1 + Len(t) - b PROVE u[k] = t[k - 1 - a + b]
  <2>1. k \in 1 .. a + 1 + (Len(t) - b) /\ ~(k <= a + 1) /\ k - (a + 1) \in 1 .. Len(t) - b
    BY <1>0
  <2>2. u[k] = z[k - (a + 1)]
    BY <1>4, <2>1
  <2>3. z[k - (a + 1)] = t[b + (k - (a + 1))]
    BY <1>2, <2>1
  <2>4. b + (k - (a + 1)) = k - 1 - a + b
    BY <1>0
  <2> QED BY <2>2, <2>3, <2>4
<1> QED BY <1>4, <1>5, <1>6, <1>7, <1>8 DEF u, y, x, z, HasThreeParts, ThreePartsOf

\* What an entry at place at + 1 has to fit: the entries before and after it.
Fits(t, e, at) ==
    /\ e \in Entries /\ at \in 0 .. Len(t)
    /\ at = 0 => e.depth = 0
    /\ at \in DOMAIN t => e.depth <= t[at].depth + 1
    /\ at + 1 \in DOMAIN t => t[at + 1].depth < e.depth
    /\ \A q \in 1 .. at :
           /\ t[q].depth + 1 = e.depth
           /\ \A k \in DOMAIN t : q < k /\ k <= at => t[k].depth >= e.depth
           => t[q].id = ParentId(e.id)

HasEntryAt(u, t, e, at) ==
    /\ u \in Seq(Entries) /\ Len(u) = Len(t) + 1
    /\ \A k \in 1 .. at : u[k] = t[k]
    /\ u[at + 1] = e
    /\ \A k \in at + 2 .. Len(t) + 1 : u[k] = t[k - 1]

\* A tree that takes one more entry where it fits stays a tree.
LEMMA GrownTree ==
    ASSUME NEW t, NEW n \in Nat, TreeInv(t, n), NEW e, NEW at, Fits(t, e, at), e.index = n + 1,
           NEW u, HasEntryAt(u, t, e, at)
    PROVE  TreeInv(u, n + 1)
<1> DEFINE old(k) == IF k <= at THEN k ELSE k - 1
<1>1. /\ DOMAIN t = 1 .. Len(t) /\ Len(t) \in Nat
      /\ \A i \in DOMAIN t : t[i].depth \in Nat /\ t[i].index \in Nat
  BY EntryTypes DEF TreeInv
<1>2. /\ DOMAIN u = 1 .. Len(t) + 1 /\ u \in Seq(Entries) /\ Len(u) = Len(t) + 1
      /\ \A i \in DOMAIN u : u[i].depth \in Nat /\ u[i].index \in Nat
  BY EntryTypes DEF HasEntryAt
<1>3. at \in 0 .. Len(t) /\ at \in Nat /\ e.depth \in Nat /\ u[at + 1] = e
  BY <1>1 DEF Fits, HasEntryAt, Entries
<1>4. ASSUME NEW k \in DOMAIN u, k # at + 1 PROVE old(k) \in DOMAIN t /\ u[k] = t[old(k)]
  <2>1. CASE k <= at
    BY <1>1, <1>2, <1>3, <1>4, <2>1 DEF HasEntryAt
  <2>2. CASE ~(k <= at)
    <3>1. k \in at + 2 .. Len(t) + 1
      BY <1>1, <1>2, <1>3, <1>4, <2>2
    <3>2. u[k] = t[k - 1]
      BY <3>1 DEF HasEntryAt
    <3> QED BY <1>1, <1>3, <2>2, <3>1, <3>2
  <2> QED BY <2>1, <2>2
<1>5. ASSUME NEW k \in DOMAIN t
      PROVE  LET j == IF k <= at THEN k ELSE k + 1
               IN j \in DOMAIN u /\ j # at + 1 /\ old(j) = k /\ u[j] = t[k]
  <2> DEFINE j == IF k <= at THEN k ELSE k + 1
  <2>1. j \in DOMAIN u /\ j # at + 1 /\ old(j) = k
    BY <1>1, <1>2, <1>3
  <2> HIDE DEF j
  <2>2. u[j] = t[old(j)]
    BY <1>4, <2>1
  <2>3. u[j] = t[k]
    BY <2>1, <2>2
  <2> QED BY <2>1, <2>3 DEF j
<1>6. ASSUME NEW i \in DOMAIN u, NEW j \in DOMAIN u, i # at + 1, j # at + 1, i < j PROVE old(i) < old(j)
  BY <1>1, <1>2, <1>3, <1>6
<1>e. at + 1 \in DOMAIN t => /\ at + 2 \in DOMAIN u /\ u[at + 2] = t[at + 1] /\ at + 1 < at + 2
                           /\ t[at + 1].depth < e.depth /\ t[at + 1].depth \in Nat
  <2> SUFFICES ASSUME at + 1 \in DOMAIN t
               PROVE  /\ at + 2 \in DOMAIN u /\ u[at + 2] = t[at + 1] /\ at + 1 < at + 2
                      /\ t[at + 1].depth < e.depth /\ t[at + 1].depth \in Nat
    OBVIOUS
  <2>1. at + 2 \in at + 2 .. Len(t) + 1 /\ at + 2 - 1 = at + 1 /\ at + 2 \in DOMAIN u /\ at + 1 < at + 2
    BY <1>1, <1>2, <1>3
  <2>2. \A k \in at + 2 .. Len(t) + 1 : u[k] = t[k - 1]
    BY DEF HasEntryAt
  <2>3. u[at + 2] = t[at + 1]
    <3> DEFINE k == at + 2
    <3>1. k \in at + 2 .. Len(t) + 1 /\ k - 1 = at + 1
      BY <1>3, <2>1
    <3> HIDE DEF k
    <3>2. u[k] = t[k - 1]
      BY <2>2, <3>1
    <3> QED BY <3>1, <3>2 DEF k
  <2>4. t[at + 1].depth < e.depth
    BY DEF Fits
  <2> QED BY <1>1, <2>1, <2>3, <2>4
<1>f. \A j \in DOMAIN u : j > at + 1 => at + 1 \in DOMAIN t /\ (at + 2 < j \/ at + 2 = j)
  BY <1>1, <1>2, <1>3
<1>7. Walked(u)
  <2>1. ASSUME NEW i \in DOMAIN u, i = 1 PROVE u[i].depth = 0
    <3>1. CASE at = 0
      BY <1>3, <2>1, <3>1 DEF Fits
    <3>2. CASE at # 0
      <4>1. 1 \in DOMAIN t /\ u[1] = t[1]
        BY <1>1, <1>3, <3>2 DEF HasEntryAt
      <4> QED BY <2>1, <4>1 DEF TreeInv, Walked
    <3> QED BY <3>1, <3>2
  <2>2. ASSUME NEW i \in DOMAIN u, i + 1 \in DOMAIN u PROVE u[i + 1].depth <= u[i].depth + 1
    <3>1. CASE i = at
      <4>1. i \in DOMAIN t /\ u[i] = t[at]
        BY <1>1, <1>2, <1>3, <2>2, <3>1 DEF HasEntryAt
      <4> QED BY <1>3, <3>1, <4>1 DEF Fits
    <3>2. CASE i = at + 1
      <4>1. at + 1 \in DOMAIN t /\ i + 1 = at + 2
        BY <1>1, <1>2, <1>3, <2>2, <3>2
      <4>2. u[i + 1] = t[at + 1] /\ u[i] = e /\ t[at + 1].depth < e.depth /\ t[at + 1].depth \in Nat
        BY <1>3, <1>e, <3>2, <4>1
      <4> QED BY <1>3, <4>2
    <3>3. CASE i # at /\ i # at + 1
      <4>1. i + 1 # at + 1 /\ i # at + 1 /\ old(i + 1) = old(i) + 1
        BY <1>1, <1>2, <1>3, <2>2, <3>3
      <4>2. old(i) \in DOMAIN t /\ u[i] = t[old(i)] /\ old(i + 1) \in DOMAIN t /\ u[i + 1] = t[old(i + 1)]
        BY <1>4, <2>2, <4>1
      <4>3. old(i) + 1 \in DOMAIN t /\ u[i + 1] = t[old(i) + 1]
        BY <4>1, <4>2
      <4> HIDE DEF old
      <4> QED BY <4>2, <4>3 DEF TreeInv, Walked
    <3> QED BY <3>1, <3>2, <3>3
  <2> QED BY <2>1, <2>2 DEF Walked
<1> HIDE DEF old
<1>8. ASSUME NEW i \in DOMAIN u, NEW j \in DOMAIN u, i # at + 1, j # at + 1, i < j,
             NEW d, \A k \in DOMAIN u : i < k /\ k < j => u[k].depth >= d
      PROVE  \A k \in DOMAIN t : old(i) < k /\ k < old(j) => t[k].depth >= d
  <2> SUFFICES ASSUME NEW k \in DOMAIN t, old(i) < k, k < old(j) PROVE t[k].depth >= d
    OBVIOUS
  <2>1. PICK m \in DOMAIN u : m # at + 1 /\ old(m) = k /\ u[m] = t[k]
    BY <1>5
  <2>2. i < m /\ m < j
    BY <1>1, <1>2, <1>3, <1>8, <2>1 DEF old
  <2> QED BY <1>8, <2>1, <2>2
<1>9. UnderTheirParents(u)
  <2> SUFFICES ASSUME NEW p \in DOMAIN u, NEW i \in DOMAIN u, IsAbove(u, p, i)
               PROVE  u[p].id = ParentId(u[i].id)
    BY DEF UnderTheirParents
  <2>0. /\ p < i /\ u[p].depth + 1 = u[i].depth
        /\ \A k \in DOMAIN u : p < k /\ k < i => u[k].depth >= u[i].depth
    BY DEF IsAbove
  <2>1. CASE p # at + 1 /\ i # at + 1
    <3>1. old(p) \in DOMAIN t /\ u[p] = t[old(p)] /\ old(i) \in DOMAIN t /\ u[i] = t[old(i)]
            /\ old(p) < old(i)
      BY <1>4, <1>6, <2>0, <2>1
    <3>2. \A k \in DOMAIN t : old(p) < k /\ k < old(i) => t[k].depth >= t[old(i)].depth
      BY <1>8, <2>0, <2>1, <3>1
    <3>3. IsAbove(t, old(p), old(i))
      BY <2>0, <3>1, <3>2 DEF IsAbove
    <3> QED BY <3>1, <3>3 DEF TreeInv, UnderTheirParents
  <2>2. CASE i = at + 1
    <3>1. p \in 1 .. at /\ u[p] = t[p] /\ u[i] = e
      BY <1>2, <1>3, <2>0, <2>2 DEF HasEntryAt
    <3>2. ASSUME NEW k \in DOMAIN t, p < k, k <= at PROVE t[k].depth >= e.depth
      <4>1. k \in DOMAIN u /\ k < i /\ u[k] = t[k]
        BY <1>1, <1>2, <1>3, <2>2, <3>2 DEF HasEntryAt
      <4> QED BY <2>0, <3>1, <3>2, <4>1
    <3>3. t[p].depth + 1 = e.depth
      BY <2>0, <3>1
    <3> QED BY <3>1, <3>2, <3>3 DEF Fits
  <2>3. CASE p = at + 1
    <3>1. at + 1 \in DOMAIN t /\ (at + 2 < i \/ at + 2 = i)
      BY <1>2, <1>f, <2>0, <2>3
    <3>2. at + 2 \in DOMAIN u /\ u[at + 2].depth < e.depth /\ at + 1 < at + 2
      BY <1>e, <3>1
    <3>3. u[i].depth >= e.depth
      BY <1>2, <1>3, <2>0, <2>3
    <3>4. CASE at + 2 = i
      BY <1>2, <1>3, <3>2, <3>3, <3>4
    <3>5. CASE at + 2 < i
      <4>1. u[at + 2].depth >= u[i].depth
        BY <2>0, <2>3, <3>2, <3>5
      <4>2. u[at + 2].depth \in Nat /\ u[i].depth \in Nat
        BY <1>2, <3>2
      <4>3. u[at + 2].depth < e.depth
        BY <3>2
      <4> QED BY <1>3, <3>3, <4>1, <4>2, <4>3
    <3> QED BY <3>1, <3>4, <3>5
  <2> QED BY <2>1, <2>2, <2>3
<1>10. Indexed(u, n + 1)
  <2> SUFFICES ASSUME NEW i \in DOMAIN u PROVE u[i].index <= n + 1
    BY DEF Indexed
  <2>1. CASE i = at + 1
    BY <1>3, <2>1
  <2>2. CASE i # at + 1
    <3>1. old(i) \in DOMAIN t /\ u[i] = t[old(i)]
      BY <1>4, <2>2
    <3>2. t[old(i)].index <= n
      BY <3>1 DEF TreeInv, Indexed
    <3> QED BY <1>1, <3>1, <3>2
  <2> QED BY <2>1, <2>2
<1>11. InOrder(u)
  <2> SUFFICES ASSUME NEW i \in DOMAIN u, NEW j \in DOMAIN u, Beside(u, i, j)
               PROVE  u[i].index < u[j].index
    BY DEF InOrder
  <2>0. /\ i < j /\ u[i].depth = u[j].depth
        /\ \A k \in DOMAIN u : i < k /\ k < j => u[k].depth >= u[i].depth
    BY DEF Beside
  <2>1. CASE i # at + 1 /\ j # at + 1
    <3>1. old(i) \in DOMAIN t /\ u[i] = t[old(i)] /\ old(j) \in DOMAIN t /\ u[j] = t[old(j)]
            /\ old(i) < old(j)
      BY <1>4, <1>6, <2>0, <2>1
    <3>2. \A k \in DOMAIN t : old(i) < k /\ k < old(j) => t[k].depth >= t[old(i)].depth
      BY <1>8, <2>0, <2>1, <3>1
    <3>3. Beside(t, old(i), old(j))
      BY <2>0, <3>1, <3>2 DEF Beside
    <3> QED BY <3>1, <3>3 DEF TreeInv, InOrder
  <2>2. CASE j = at + 1
    <3>1. i \in DOMAIN t /\ u[i] = t[i] /\ u[j].index = n + 1
      BY <1>1, <1>2, <1>3, <2>0, <2>2 DEF HasEntryAt
    <3>2. t[i].index <= n /\ t[i].index \in Nat
      BY <1>1, <3>1 DEF TreeInv, Indexed
    <3> QED BY <3>1, <3>2
  <2>3. CASE i = at + 1
    <3>1. at + 1 \in DOMAIN t /\ (at + 2 < j \/ at + 2 = j)
      BY <1>2, <1>f, <2>0, <2>3
    <3>2. at + 2 \in DOMAIN u /\ u[at + 2].depth < e.depth /\ at + 1 < at + 2
      BY <1>e, <3>1
    <3>3. u[j].depth >= e.depth
      BY <1>2, <1>3, <2>0, <2>3
    <3>4. CASE at + 2 = j
      BY <1>2, <1>3, <3>2, <3>3, <3>4
    <3>5. CASE at + 2 < j
      <4>1. u[at + 2].depth >= u[j].depth
        BY <2>0, <2>3, <3>2, <3>5
      <4>2. u[at + 2].depth \in Nat /\ u[j].depth \in Nat
        BY <1>2, <3>2
      <4>3. u[at + 2].depth < e.depth
        BY <3>2
      <4> QED BY <1>3, <3>3, <4>1, <4>2, <4>3
    <3> QED BY <3>1, <3>4, <3>5
  <2> QED BY <2>1, <2>2, <2>3
<1> QED BY <1>2, <1>7, <1>9, <1>10, <1>11 DEF TreeInv

\* Entry e in the place of entry i, and what is between i and last gone.
HasEntryFor(u, t, e, i, last) ==
    /\ u \in Seq(Entries) /\ Len(u) = i + Len(t) - last
    /\ \A k \in 1 .. i - 1 : u[k] = t[k]
    /\ u[i] = e
    /\ \A k \in i + 1 .. i + Len(t) - last : u[k] = t[k - i + last]

EndsAt(t, i, last) ==
    /\ last \in i .. Len(t)
    /\ \A k \in DOMAIN t : i < k /\ k <= last => t[k].depth > t[i].depth
    /\ last + 1 \in DOMAIN t => t[last + 1].depth <= t[i].depth

\* So does one whose entry takes the place of all that hung under it.
LEMMA CutTree ==
    ASSUME NEW t, NEW n \in Nat, TreeInv(t, n), NEW i \in DOMAIN t, NEW last, EndsAt(t, i, last),
           NEW e, e.depth = t[i].depth, e.id = t[i].id, e.index = t[i].index,
           NEW u, HasEntryFor(u, t, e, i, last)
    PROVE  TreeInv(u, n + 1)
<1> DEFINE old(k) == IF k <= i THEN k ELSE k - i + last
<1>1. /\ DOMAIN t = 1 .. Len(t) /\ Len(t) \in Nat
      /\ \A k \in DOMAIN t : t[k].depth \in Nat /\ t[k].index \in Nat
  BY EntryTypes DEF TreeInv
<1>2. /\ DOMAIN u = 1 .. i + Len(t) - last /\ u \in Seq(Entries) /\ Len(u) = i + Len(t) - last
      /\ \A k \in DOMAIN u : u[k].depth \in Nat /\ u[k].index \in Nat
  BY EntryTypes DEF HasEntryFor
<1>3. i \in 1 .. Len(t) /\ last \in i .. Len(t) /\ i \in Nat /\ last \in Nat
  BY <1>1 DEF EndsAt
<1>4. ASSUME NEW k \in DOMAIN u
      PROVE  /\ old(k) \in DOMAIN t /\ u[k].depth = t[old(k)].depth
             /\ u[k].id = t[old(k)].id /\ u[k].index = t[old(k)].index
  <2>1. CASE k < i
    <3>1. k \in 1 .. i - 1 /\ k \in DOMAIN t /\ old(k) = k
      BY <1>1, <1>2, <1>3, <2>1
    <3>2. u[k] = t[k]
      BY <3>1 DEF HasEntryFor
    <3> QED BY <3>1, <3>2
  <2>2. CASE k = i
    <3>1. u[k] = e
      BY <2>2 DEF HasEntryFor
    <3> QED BY <1>3, <2>2, <3>1
  <2>3. CASE k > i
    <3>1. k \in i + 1 .. i + Len(t) - last /\ old(k) = k - i + last /\ old(k) \in DOMAIN t
      BY <1>1, <1>2, <1>3, <2>3
    <3>2. u[k] = t[old(k)]
      BY <3>1 DEF HasEntryFor
    <3> QED BY <3>1, <3>2
  <2> QED BY <1>2, <1>3, <2>1, <2>2, <2>3
<1>5. ASSUME NEW k \in DOMAIN t, k <= i \/ last < k
      PROVE  \E m \in DOMAIN u : old(m) = k
  <2>1. CASE k <= i
    <3>1. k \in DOMAIN u /\ old(k) = k
      BY <1>1, <1>2, <1>3, <2>1
    <3> QED BY <3>1
  <2>2. CASE last < k
    <3>1. k - last + i \in DOMAIN u /\ old(k - last + i) = k
      BY <1>1, <1>2, <1>3, <2>2
    <3> QED BY <3>1
  <2> QED BY <1>5, <2>1, <2>2
<1>6. \A k, m \in DOMAIN u : k < m <=> old(k) < old(m)
  BY <1>1, <1>2, <1>3
<1>7. /\ old(1) = 1 /\ old(i) = i /\ i \in DOMAIN u /\ old(i + 1) = last + 1
      /\ \A k \in DOMAIN u : k # i => old(k + 1) = old(k) + 1
  <2>1. old(1) = 1 /\ old(i) = i /\ old(i + 1) = last + 1
    BY <1>3
  <2>2. i \in DOMAIN u
    BY <1>1, <1>2, <1>3
  <2>3. \A k \in DOMAIN u : k # i => old(k + 1) = old(k) + 1
    <3> SUFFICES ASSUME NEW k \in DOMAIN u, k # i PROVE old(k + 1) = old(k) + 1
      OBVIOUS
    <3>1. k \in Nat
      BY <1>2
    <3>2. CASE k < i
      BY <1>3, <3>1, <3>2
    <3>3. CASE i < k
      BY <1>3, <3>1, <3>3
    <3> QED BY <1>3, <3>1, <3>2, <3>3
  <2> QED BY <2>1, <2>2, <2>3
<1>b. \A k \in DOMAIN u : k > i => k = i + 1 \/ i + 1 < k
  BY <1>1, <1>2, <1>3
<1>c. \A k \in DOMAIN u : k > i => i + 1 \in DOMAIN u
  BY <1>1, <1>2, <1>3
<1>d. \A k \in DOMAIN u : k \in Nat
  BY <1>2
<1> HIDE DEF old
<1>8. Walked(u)
  <2>1. ASSUME NEW k \in DOMAIN u, k = 1 PROVE u[k].depth = 0
    <3>1. 1 \in DOMAIN t /\ u[k].depth = t[1].depth
      BY <1>4, <1>7, <2>1
    <3> QED BY <3>1 DEF TreeInv, Walked
  <2>2. ASSUME NEW k \in DOMAIN u, k + 1 \in DOMAIN u PROVE u[k + 1].depth <= u[k].depth + 1
    <3>0. /\ old(k) \in DOMAIN t /\ u[k].depth = t[old(k)].depth
          /\ old(k + 1) \in DOMAIN t /\ u[k + 1].depth = t[old(k + 1)].depth
      BY <1>4, <2>2
    <3>1. CASE k = i
      <4>a. k + 1 = i + 1
        BY <3>1
      <4>0. old(k) = i /\ old(k + 1) = last + 1
        <5>1. old(i) = i /\ old(i + 1) = last + 1
          BY <1>7
        <5>2. old(k) = old(i)
          BY <3>1, Zenon
        <5>3. old(k + 1) = old(i + 1)
          BY <4>a, Zenon
        <5> QED BY <5>1, <5>2, <5>3, Zenon
      <4>1. last + 1 \in DOMAIN t /\ t[last + 1].depth <= t[i].depth
        BY <3>0, <4>0 DEF EndsAt
      <4>2. u[k + 1].depth = t[last + 1].depth /\ u[k].depth = t[i].depth
        BY <3>0, <4>0
      <4> QED BY <1>1, <4>1, <4>2
    <3>2. CASE k # i
      <4>1. old(k) + 1 \in DOMAIN t /\ u[k + 1].depth = t[old(k) + 1].depth
        BY <1>7, <3>0, <3>2
      <4> QED BY <3>0, <4>1 DEF TreeInv, Walked
    <3> QED BY <3>1, <3>2
  <2> QED BY <2>1, <2>2 DEF Walked
<1>9. ASSUME NEW a \in DOMAIN u, NEW b \in DOMAIN u, a < b, u[b].depth <= u[a].depth + 1,
             \A k \in DOMAIN u : a < k /\ k < b => u[k].depth >= u[b].depth,
             a = i => u[b].depth <= u[a].depth \/ u[i + 1].depth >= u[b].depth
      PROVE  \A k \in DOMAIN t : old(a) < k /\ k < old(b) => t[k].depth >= t[old(b)].depth
  <2> SUFFICES ASSUME NEW k \in DOMAIN t, old(a) < k, k < old(b) PROVE t[k].depth >= t[old(b)].depth
    OBVIOUS
  <2>0. old(a) \in DOMAIN t /\ old(b) \in DOMAIN t /\ u[b].depth = t[old(b)].depth
        /\ u[a].depth = t[old(a)].depth
    BY <1>4
  <2>1. CASE k <= i \/ last < k
    <3>1. PICK m \in DOMAIN u : old(m) = k
      BY <1>5, <2>1
    <3>2. a < m /\ m < b /\ u[m].depth = t[k].depth
      BY <1>4, <1>6, <3>1
    <3> QED BY <1>9, <2>0, <3>2
  <2>2. CASE i < k /\ k <= last
    <3>1. t[k].depth > t[i].depth
      BY <2>2 DEF EndsAt
    <3>2. a <= i /\ i < b
      <4>1. ~(i < a)
        BY <1>1, <1>2, <1>3, <2>0, <2>2 DEF old
      <4>2. ~(b <= i)
        BY <1>1, <1>2, <1>3, <2>0, <2>2 DEF old
      <4> QED BY <1>3, <1>d, <4>1, <4>2
    <3>3. t[i].depth = u[i].depth
      BY <1>4, <1>7
    <3>4. t[i].depth + 1 >= t[old(b)].depth
      <4>1. CASE a < i
        <5>1. u[i].depth >= u[b].depth
          BY <1>7, <1>9, <3>2, <4>1
        <5> QED BY <1>1, <1>2, <2>0, <3>3, <5>1, <1>7
      <4>2. CASE a = i
        BY <1>9, <2>0, <3>3, <4>2
      <4> QED BY <1>3, <1>d, <3>2, <4>1, <4>2
    <3> QED BY <1>1, <2>0, <3>1, <3>4
  <2> QED BY <1>1, <1>3, <2>1, <2>2
<1>10. UnderTheirParents(u)
  <2> SUFFICES ASSUME NEW p \in DOMAIN u, NEW j \in DOMAIN u, IsAbove(u, p, j)
               PROVE  u[p].id = ParentId(u[j].id)
    BY DEF UnderTheirParents
  <2>0. /\ p < j /\ u[p].depth + 1 = u[j].depth
        /\ \A k \in DOMAIN u : p < k /\ k < j => u[k].depth >= u[j].depth
    BY DEF IsAbove
  <2>1. /\ old(p) \in DOMAIN t /\ u[p].depth = t[old(p)].depth /\ u[p].id = t[old(p)].id
        /\ old(j) \in DOMAIN t /\ u[j].depth = t[old(j)].depth /\ u[j].id = t[old(j)].id
        /\ old(p) < old(j)
    BY <1>4, <1>6, <2>0
  <2>2. p = i => u[i + 1].depth >= u[j].depth
    <3> SUFFICES ASSUME p = i PROVE u[i + 1].depth >= u[j].depth
      OBVIOUS
    <3>1. i + 1 \in DOMAIN u /\ (j = i + 1 \/ i + 1 < j) /\ i < i + 1
      BY <1>3, <1>b, <1>c, <2>0
    <3> QED BY <1>2, <2>0, <3>1
  <2>3. u[j].depth <= u[p].depth + 1
    BY <1>2, <2>0
  <2>4. \A k \in DOMAIN t : old(p) < k /\ k < old(j) => t[k].depth >= t[old(j)].depth
    BY <1>9, <2>0, <2>2, <2>3
  <2>5. IsAbove(t, old(p), old(j))
    BY <2>0, <2>1, <2>4 DEF IsAbove
  <2>6. t[old(p)].id = ParentId(t[old(j)].id)
    BY <2>1, <2>5 DEF TreeInv, UnderTheirParents
  <2> QED BY <2>1, <2>6
<1>11. InOrder(u)
  <2> SUFFICES ASSUME NEW a \in DOMAIN u, NEW b \in DOMAIN u, Beside(u, a, b)
               PROVE  u[a].index < u[b].index
    BY DEF InOrder
  <2>0. /\ a < b /\ u[a].depth = u[b].depth
        /\ \A k \in DOMAIN u : a < k /\ k < b => u[k].depth >= u[b].depth
    BY DEF Beside
  <2>1. /\ old(a) \in DOMAIN t /\ u[a].depth = t[old(a)].depth /\ u[a].index = t[old(a)].index
        /\ old(b) \in DOMAIN t /\ u[b].depth = t[old(b)].depth /\ u[b].index = t[old(b)].index
        /\ old(a) < old(b)
    BY <1>4, <1>6, <2>0
  <2>2. u[b].depth <= u[a].depth /\ u[b].depth <= u[a].depth + 1
    BY <1>2, <2>0
  <2>3. \A k \in DOMAIN t : old(a) < k /\ k < old(b) => t[k].depth >= t[old(b)].depth
    BY <1>9, <2>0, <2>2
  <2>4. Beside(t, old(a), old(b))
    BY <2>0, <2>1, <2>3 DEF Beside
  <2>5. t[old(a)].index < t[old(b)].index
    BY <2>1, <2>4 DEF TreeInv, InOrder
  <2> QED BY <2>1, <2>5
<1>12. Indexed(u, n + 1)
  <2> SUFFICES ASSUME NEW k \in DOMAIN u PROVE u[k].index <= n + 1
    BY DEF Indexed
  <2>1. old(k) \in DOMAIN t /\ u[k].index = t[old(k)].index
    BY <1>4
  <2>2. t[old(k)].index <= n
    BY <2>1 DEF TreeInv, Indexed
  <2> QED BY <1>1, <2>1, <2>2
<1> QED BY <1>2, <1>8, <1>10, <1>11, <1>12 DEF TreeInv

\* The three ways in which a message changes the tree.
LEMMA InsertedEntry ==
    ASSUME tree \in Seq(Entries), NEW e \in Entries, NEW at \in 0 .. Len(tree)
    PROVE  HasEntryAt(Inserted(e, at), tree, e, at)
<1> DEFINE u == Inserted(e, at)
<1>1. at \in at .. Len(tree) /\ at \in Nat /\ Len(tree) \in Nat
  OBVIOUS
<1>2. /\ u \in Seq(Entries) /\ Len(u) = at + 1 + Len(tree) - at
      /\ \A k \in 1 .. at : u[k] = tree[k]
      /\ u[at + 1] = e
      /\ \A k \in at + 2 .. at + 1 + Len(tree) - at : u[k] = tree[k - 1 - at + at]
  <2> DEFINE b == at
  <2>1. b \in at .. Len(tree) /\ u = ThreePartsOf(tree, e, at, b)
    BY <1>1 DEF Inserted, ThreePartsOf
  <2> HIDE DEF b, u
  <2>2. /\ u \in Seq(Entries) /\ Len(u) = at + 1 + Len(tree) - b
        /\ \A k \in 1 .. at : u[k] = tree[k]
        /\ u[at + 1] = e
        /\ \A k \in at + 2 .. at + 1 + Len(tree) - b : u[k] = tree[k - 1 - at + b]
    <3>1. u \in Seq(Entries) /\ HasThreeParts(u, tree, e, at, b)
      BY <2>1, ThreeParts
    <3> QED BY <3>1 DEF HasThreeParts
  <2> QED BY <2>2 DEF b
<1> HIDE DEF u
<1>3. at + 1 + Len(tree) - at = Len(tree) + 1 /\ \A k \in Nat : k - 1 - at + at = k - 1
  BY <1>1
<1>4. ASSUME NEW k \in at + 2 .. Len(tree) + 1 PROVE u[k] = tree[k - 1]
  BY <1>1, <1>2, <1>3
<1> QED BY <1>2, <1>3, <1>4 DEF HasEntryAt, u

LEMMA AppendedEntry ==
    ASSUME tree \in Seq(Entries), NEW e \in Entries
    PROVE  HasEntryAt(Append(tree, e), tree, e, Len(tree))
<1>1. Append(tree, e) \in Seq(Entries) /\ Len(Append(tree, e)) = Len(tree) + 1
      /\ Append(tree, e)[Len(tree) + 1] = e
  BY AppendProperties
<1>2. \A k \in 1 .. Len(tree) : Append(tree, e)[k] = tree[k]
  BY AppendProperties
<1>3. \A k \in Len(tree) + 2 .. Len(tree) + 1 : FALSE
  <2>1. Len(tree) \in Nat
    OBVIOUS
  <2> QED BY <2>1
<1> QED BY <1>1, <1>2, <1>3 DEF HasEntryAt

LEMMA ReplacedEntry ==
    ASSUME tree \in Seq(Entries), NEW i \in DOMAIN tree, NEW n \in Nat
    PROVE  /\ HasEntryFor(Replaced(i, n), tree, [tree[i] EXCEPT !.payload = n], i, EndOf(i))
           /\ EndsAt(tree, i, EndOf(i))
<1> DEFINE u == Replaced(i, n)
           e == [tree[i] EXCEPT !.payload = n]
           last == EndOf(i)
           a == i - 1
<1>1. DOMAIN tree = 1 .. Len(tree) /\ Len(tree) \in Nat /\ tree[i] \in Entries
  BY EntryTypes
<1>2. /\ last \in i .. Len(tree)
      /\ \A k \in DOMAIN tree : i < k /\ k <= last => tree[k].depth > tree[i].depth
      /\ last + 1 \in DOMAIN tree => tree[last + 1].depth <= tree[i].depth
  BY EndOfEntry
<1>3. e \in Entries
  BY <1>1 DEF Entries
<1> HIDE DEF last
<1>4. EndsAt(tree, i, last)
  BY <1>2 DEF EndsAt
<1>5. a \in 0 .. Len(tree) /\ last \in a .. Len(tree) /\ a + 1 = i /\ i \in Nat /\ last \in Nat /\ a \in Nat
  BY <1>1, <1>2
<1>6. u = ThreePartsOf(tree, e, a, last)
  BY DEF Replaced, last, ThreePartsOf
<1> HIDE DEF u, e, a
<1>7. /\ u \in Seq(Entries) /\ Len(u) = a + 1 + Len(tree) - last
      /\ \A k \in 1 .. a : u[k] = tree[k]
      /\ u[a + 1] = e
      /\ \A k \in a + 2 .. a + 1 + Len(tree) - last : u[k] = tree[k - 1 - a + last]
  <2>1. u \in Seq(Entries) /\ HasThreeParts(u, tree, e, a, last)
    BY <1>3, <1>5, <1>6, ThreeParts
  <2> QED BY <2>1 DEF HasThreeParts
<1>8. ASSUME NEW k \in i + 1 .. i + Len(tree) - last PROVE u[k] = tree[k - i + last]
  <2>1. k \in a + 2 .. a + 1 + Len(tree) - last /\ k - 1 - a + last = k - i + last
    BY <1>1, <1>5
  <2> QED BY <1>7, <2>1
<1>9. Len(u) = i + Len(tree) - last /\ u[i] = e /\ \A k \in 1 .. i - 1 : u[k] = tree[k]
  BY <1>1, <1>5, <1>7 DEF a
<1>10. HasEntryFor(u, tree, e, i, last)
  BY <1>7, <1>8, <1>9 DEF HasEntryFor
<1> QED BY <1>4, <1>10 DEF u, e, last

-----------------------------------------------------------------------------
Messages == [id : StepIds \cup {NoStep}, name : StepNames]

\* A message is the last of its step and leaves the last of the others.
LEMMA HeardOnceMore ==
    ASSUME NEW messages \in Seq(Messages), NEW x \in Messages
    PROVE  LET longer == Append(messages, x)
               n == Len(messages) + 1
           IN  /\ n \in Nat /\ Len(longer) = n /\ longer \in Seq(Messages)
               /\ \A e : e.id = x.id /\ e.name = x.name => IsLastOf(n, e, longer)
               /\ \A e, k : ~(e.id = x.id /\ e.name = x.name) /\ IsLastOf(k, e, messages)
                        => IsLastOf(k, e, longer)
<1> DEFINE longer == Append(messages, x)
           n == Len(messages) + 1
<1>1. /\ longer \in Seq(Messages) /\ Len(longer) = n /\ longer[n] = x
      /\ \A k \in 1 .. Len(messages) : longer[k] = messages[k]
  BY AppendProperties
<1>2. Len(messages) \in Nat /\ DOMAIN messages = 1 .. Len(messages) /\ n \in Nat /\ DOMAIN longer = 1 .. n
  BY <1>1
<1> HIDE DEF longer
<1>3. \A k \in DOMAIN longer : k <= n /\ (k # n => k \in DOMAIN messages /\ longer[k] = messages[k])
  BY <1>1, <1>2
<1>4. n \in DOMAIN longer /\ \A k \in DOMAIN messages : k \in DOMAIN longer
  BY <1>2
<1> HIDE DEF n
<1>5. ASSUME NEW e, e.id = x.id, e.name = x.name PROVE IsLastOf(n, e, longer)
  BY <1>1, <1>3, <1>4, <1>5 DEF IsLastOf
<1>6. ASSUME NEW e, NEW k, ~(e.id = x.id /\ e.name = x.name), IsLastOf(k, e, messages)
      PROVE  IsLastOf(k, e, longer)
  <2>1. k \in DOMAIN messages /\ messages[k].id = e.id /\ messages[k].name = e.name
    BY <1>6 DEF IsLastOf
  <2>2. k \in DOMAIN longer /\ longer[k] = messages[k]
    BY <1>1, <1>2, <1>4, <2>1
  <2>3. ASSUME NEW m \in DOMAIN longer, longer[m].id = e.id, longer[m].name = e.name PROVE m <= k
    <3>1. m # n
      BY <1>1, <1>6, <2>3
    <3>2. m \in DOMAIN messages /\ messages[m] = longer[m]
      BY <1>3, <3>1
    <3> QED BY <1>6, <2>3, <3>2 DEF IsLastOf
  <2> QED BY <2>1, <2>2, <2>3 DEF IsLastOf
<1> QED BY <1>1, <1>2, <1>5, <1>6 DEF longer, n

\* A message of a step that has no entry yet.
LEMMA NewEntryDiffers ==
    ASSUME NEW t \in Seq(Entries), NEW e, NEW at \in 0 .. Len(t), NEW u, HasEntryAt(u, t, e, at),
           \A i \in DOMAIN t : ~(t[i].id = e.id /\ t[i].name = e.name),
           NEW messages, NEW longer,
           IsLastOf(e.payload, e, longer),
           \A i \in DOMAIN t : IsLastOf(t[i].payload, t[i], messages) => IsLastOf(t[i].payload, t[i], longer),
           Differ(t), ShowTheLast(t, messages)
    PROVE  Differ(u) /\ ShowTheLast(u, longer)
<1>1. DOMAIN t = 1 .. Len(t) /\ Len(t) \in Nat /\ DOMAIN u = 1 .. Len(t) + 1 /\ at \in Nat
  BY DEF HasEntryAt
<1>2. u[at + 1] = e
  BY DEF HasEntryAt
<1> DEFINE old(k) == IF k <= at THEN k ELSE k - 1
<1>3. ASSUME NEW k \in DOMAIN u, k # at + 1 PROVE old(k) \in DOMAIN t /\ u[k] = t[old(k)]
  <2>1. CASE k <= at
    BY <1>1, <1>3, <2>1 DEF HasEntryAt
  <2>2. CASE ~(k <= at)
    <3>1. k \in at + 2 .. Len(t) + 1
      BY <1>1, <1>3, <2>2
    <3>2. u[k] = t[k - 1]
      BY <3>1 DEF HasEntryAt
    <3> QED BY <1>1, <2>2, <3>1, <3>2
  <2> QED BY <2>1, <2>2
<1>4. \A i, j \in DOMAIN u : i # at + 1 /\ j # at + 1 /\ old(i) = old(j) => i = j
  BY <1>1
<1> HIDE DEF old
<1>5. Differ(u)
  <2> SUFFICES ASSUME NEW i \in DOMAIN u, NEW j \in DOMAIN u, u[i].id = u[j].id, u[i].name = u[j].name
               PROVE  i = j
    BY DEF Differ
  <2>1. CASE i = at + 1 /\ j = at + 1
    BY <2>1
  <2>2. CASE i = at + 1 /\ j # at + 1
    BY <1>2, <1>3, <2>2
  <2>3. CASE i # at + 1 /\ j = at + 1
    BY <1>2, <1>3, <2>3
  <2>4. CASE i # at + 1 /\ j # at + 1
    <3>1. old(i) \in DOMAIN t /\ u[i] = t[old(i)] /\ old(j) \in DOMAIN t /\ u[j] = t[old(j)]
      BY <1>3, <2>4
    <3>2. old(i) = old(j)
      BY <3>1 DEF Differ
    <3> QED BY <1>4, <2>4, <3>2
  <2> QED BY <2>1, <2>2, <2>3, <2>4
<1>6. ShowTheLast(u, longer)
  <2> SUFFICES ASSUME NEW i \in DOMAIN u PROVE IsLastOf(u[i].payload, u[i], longer)
    BY DEF ShowTheLast
  <2>1. CASE i = at + 1
    BY <1>2, <2>1
  <2>2. CASE i # at + 1
    <3>1. old(i) \in DOMAIN t /\ u[i] = t[old(i)]
      BY <1>3, <2>2
    <3>2. IsLastOf(t[old(i)].payload, t[old(i)], messages)
      BY <3>1 DEF ShowTheLast
    <3> QED BY <3>1, <3>2
  <2> QED BY <2>1, <2>2
<1> QED BY <1>5, <1>6

\* A message of a step that has one.
LEMMA ReplacedEntryDiffers ==
    ASSUME NEW t \in Seq(Entries), NEW i \in DOMAIN t, NEW last \in i .. Len(t),
           NEW e, e.id = t[i].id, e.name = t[i].name, NEW u, HasEntryFor(u, t, e, i, last),
           NEW messages, NEW longer,
           IsLastOf(e.payload, e, longer),
           \A j \in DOMAIN t : /\ ~(t[j].id = e.id /\ t[j].name = e.name)
                               /\ IsLastOf(t[j].payload, t[j], messages)
                               => IsLastOf(t[j].payload, t[j], longer),
           Differ(t), ShowTheLast(t, messages)
    PROVE  Differ(u) /\ ShowTheLast(u, longer)
<1>1. DOMAIN t = 1 .. Len(t) /\ Len(t) \in Nat /\ DOMAIN u = 1 .. i + Len(t) - last
      /\ i \in Nat /\ last \in Nat /\ i \in 1 .. Len(t)
  BY DEF HasEntryFor
<1> DEFINE old(k) == IF k <= i THEN k ELSE k - i + last
<1>2. ASSUME NEW k \in DOMAIN u
      PROVE  /\ old(k) \in DOMAIN t /\ u[k].id = t[old(k)].id /\ u[k].name = t[old(k)].name
             /\ (k = i => u[k] = e /\ old(k) = i) /\ (k # i => u[k] = t[old(k)] /\ old(k) # i)
  <2>1. CASE k < i
    <3>1. k \in 1 .. i - 1 /\ k \in DOMAIN t /\ old(k) = k
      BY <1>1, <2>1
    <3>2. u[k] = t[k]
      BY <3>1 DEF HasEntryFor
    <3> QED BY <1>1, <2>1, <3>1, <3>2
  <2>2. CASE k = i
    <3>1. u[k] = e
      BY <2>2 DEF HasEntryFor
    <3> QED BY <1>1, <2>2, <3>1
  <2>3. CASE k > i
    <3>1. k \in i + 1 .. i + Len(t) - last /\ old(k) = k - i + last /\ old(k) \in DOMAIN t /\ old(k) # i
      BY <1>1, <2>3
    <3>2. u[k] = t[old(k)]
      BY <3>1 DEF HasEntryFor
    <3> QED BY <1>1, <2>3, <3>1, <3>2
  <2> QED BY <1>1, <2>1, <2>2, <2>3
<1>3. \A k, j \in DOMAIN u : old(k) = old(j) => k = j
  <2> SUFFICES ASSUME NEW k \in DOMAIN u, NEW j \in DOMAIN u, old(k) = old(j) PROVE k = j
    OBVIOUS
  <2>1. k \in Nat /\ j \in Nat
    BY <1>1
  <2> QED BY <1>1, <2>1
<1> HIDE DEF old
<1>4. Differ(u)
  <2> SUFFICES ASSUME NEW k \in DOMAIN u, NEW j \in DOMAIN u, u[k].id = u[j].id, u[k].name = u[j].name
               PROVE  k = j
    BY DEF Differ
  <2>1. /\ old(k) \in DOMAIN t /\ u[k].id = t[old(k)].id /\ u[k].name = t[old(k)].name
        /\ old(j) \in DOMAIN t /\ u[j].id = t[old(j)].id /\ u[j].name = t[old(j)].name
    BY <1>2
  <2>2. old(k) = old(j)
    BY <2>1 DEF Differ
  <2> QED BY <1>3, <2>2
<1>5. ShowTheLast(u, longer)
  <2> SUFFICES ASSUME NEW k \in DOMAIN u PROVE IsLastOf(u[k].payload, u[k], longer)
    BY DEF ShowTheLast
  <2>1. CASE k = i
    BY <1>2, <2>1
  <2>2. CASE k # i
    <3>1. old(k) \in DOMAIN t /\ u[k] = t[old(k)] /\ old(k) # i
      BY <1>2, <2>2
    <3>2. ~(t[old(k)].id = e.id /\ t[old(k)].name = e.name)
      BY <3>1 DEF Differ
    <3>3. IsLastOf(t[old(k)].payload, t[old(k)], messages)
      BY <3>1 DEF ShowTheLast
    <3> QED BY <3>1, <3>2, <3>3
  <2> QED BY <2>1, <2>2
<1> QED BY <1>4, <1>5

-----------------------------------------------------------------------------
LEMMA StepInitInv == StepInit => StepInv
<1> SUFFICES ASSUME StepInit PROVE StepInv
  OBVIOUS
<1>1. tree = <<>> /\ overrides \in BOOLEAN /\ stepMessages = <<>>
  BY DEF StepInit
<1>2. <<>> \in Seq(Entries) /\ <<>> \in Seq([id : StepIds \cup {NoStep}, name : StepNames])
      /\ DOMAIN <<>> = {}
  OBVIOUS
<1>3. StepTypeOK
  BY <1>1, <1>2 DEF StepTypeOK
<1>4. TreeInv(tree, Len(stepMessages)) /\ Differ(tree) /\ ShowTheLast(tree, stepMessages)
  BY <1>1, <1>2 DEF TreeInv, Walked, UnderTheirParents, InOrder, Indexed, Differ, ShowTheLast
<1> QED BY <1>3, <1>4 DEF StepInv

\* A message of a step keeps the tree sound, whether the step is new or known.
LEMMA MessageKeepsTheTree ==
    ASSUME StepInv, NEW id \in StepIds \cup {NoStep}, NEW name \in StepNames,
           ProcessIntermediateMessage(id, name)
    PROVE  StepInv'
<1> DEFINE n == Len(stepMessages) + 1
           x == [id |-> id, name |-> name]
           longer == Append(stepMessages, x)
           entry(depth) == [id |-> id, name |-> name, payload |-> n, index |-> n, depth |-> depth]
<1>1. /\ tree \in Seq(Entries) /\ overrides \in BOOLEAN /\ stepMessages \in Seq(Messages)
      /\ TreeInv(tree, Len(stepMessages))
      /\ overrides => Differ(tree) /\ ShowTheLast(tree, stepMessages)
  BY DEF StepInv, StepTypeOK, Messages
<1>2. /\ DOMAIN tree = 1 .. Len(tree) /\ Len(tree) \in Nat
      /\ \A i \in DOMAIN tree : tree[i] \in Entries /\ tree[i].depth \in Nat /\ tree[i].id \in StepIds
  BY <1>1, EntryTypes
<1>3. x \in Messages /\ x.id = id /\ x.name = name
  BY DEF Messages
<1>4. /\ n \in Nat /\ Len(longer) = n /\ longer \in Seq(Messages) /\ Len(stepMessages) \in Nat
      /\ \A e : e.id = id /\ e.name = name => IsLastOf(n, e, longer)
      /\ \A e, k : ~(e.id = id /\ e.name = name) /\ IsLastOf(k, e, stepMessages) => IsLastOf(k, e, longer)
  BY <1>1, <1>3, HeardOnceMore
<1>5. stepMessages' = longer /\ overrides' = overrides
  BY DEF ProcessIntermediateMessage
<1> HIDE DEF longer, x
<1>6. SUFFICES /\ TreeInv(tree', n)
               /\ overrides => Differ(tree') /\ ShowTheLast(tree', longer)
  <2>1. tree' \in Seq(Entries)
    BY <1>6 DEF TreeInv
  <2>2. StepTypeOK'
    BY <1>1, <1>4, <1>5, <2>1 DEF StepTypeOK, Messages
  <2>3. TreeInv(tree, Len(stepMessages))'
    BY <1>4, <1>5, <1>6 DEF TreeInv, Indexed, Walked, UnderTheirParents, InOrder, IsAbove, Beside
  <2> QED BY <1>5, <1>6, <2>2, <2>3 DEF StepInv, Differ, ShowTheLast, IsLastOf
<1>7. CASE id = NoStep
  <2>1. tree' = tree
    BY <1>7 DEF ProcessIntermediateMessage
  <2>2. TreeInv(tree, n)
    <3>1. ASSUME NEW i \in DOMAIN tree PROVE tree[i].index <= n
      <4>1. tree[i].index <= Len(stepMessages) /\ tree[i].index \in Nat
        BY <1>1, EntryTypes DEF TreeInv, Indexed
      <4> QED BY <1>4, <4>1
    <3> HIDE DEF n
    <3> QED BY <1>1, <3>1 DEF TreeInv, Indexed
  <2>3. overrides => ShowTheLast(tree, longer)
    <3> SUFFICES ASSUME overrides, NEW i \in DOMAIN tree PROVE IsLastOf(tree[i].payload, tree[i], longer)
      BY DEF ShowTheLast
    <3>1. tree[i].id # id
      BY <1>2, <1>7, StepConstants
    <3>2. IsLastOf(tree[i].payload, tree[i], stepMessages)
      BY <1>1 DEF ShowTheLast
    <3> QED BY <1>4, <3>1, <3>2
  <2> QED BY <1>1, <2>1, <2>2, <2>3
<1>8. CASE id # NoStep /\ overrides /\ Matching(id, name) # {}
  <2> DEFINE i == Min(Matching(id, name))
  <2>1. tree' = Replaced(i, n)
    BY <1>8 DEF ProcessIntermediateMessage
  <2>2. i \in Matching(id, name)
    <3>1. Matching(id, name) \in SUBSET Nat
      BY <1>2 DEF Matching
    <3> QED BY <1>8, <3>1, LeastIs
  <2> HIDE DEF i
  <2>3. i \in DOMAIN tree /\ tree[i].id = id /\ tree[i].name = name
    BY <2>2 DEF Matching
  <2> DEFINE e == [tree[i] EXCEPT !.payload = n]
             last == EndOf(i)
             u == Replaced(i, n)
  <2>4. HasEntryFor(u, tree, e, i, last) /\ EndsAt(tree, i, last)
    BY <1>1, <1>4, <2>3, ReplacedEntry
  <2>5. e.depth = tree[i].depth /\ e.id = tree[i].id /\ e.index = tree[i].index /\ e.name = tree[i].name
        /\ e.payload = n
    BY <1>2, <2>3 DEF Entries
  <2> HIDE DEF e, last, u
  <2>6. TreeInv(u, Len(stepMessages) + 1)
    BY <1>1, <1>4, <2>3, <2>4, <2>5, CutTree
  <2>7. Differ(u) /\ ShowTheLast(u, longer)
    <3>1. IsLastOf(e.payload, e, longer)
      BY <1>4, <2>3, <2>5
    <3>2. \A j \in DOMAIN tree : /\ ~(tree[j].id = e.id /\ tree[j].name = e.name)
                                 /\ IsLastOf(tree[j].payload, tree[j], stepMessages)
                                 => IsLastOf(tree[j].payload, tree[j], longer)
      BY <1>4, <2>3, <2>5
    <3>3. last \in i .. Len(tree)
      BY <2>4 DEF EndsAt
    <3>4. Differ(tree) /\ ShowTheLast(tree, stepMessages)
      BY <1>1, <1>8
    <3> QED BY <1>1, <2>3, <2>4, <2>5, <3>1, <3>2, <3>3, <3>4, ReplacedEntryDiffers
  <2> QED BY <2>1, <2>6, <2>7 DEF u
<1>9. ASSUME NEW depth \in Nat, NEW at, Fits(tree, entry(depth), at), NEW u, HasEntryAt(u, tree,
               entry(depth), at),
             overrides => Matching(id, name) = {}
      PROVE  TreeInv(u, n) /\ (overrides => Differ(u) /\ ShowTheLast(u, longer))
  <2> DEFINE e == entry(depth)
  <2>1. e.index = n /\ e.id = id /\ e.name = name /\ e.payload = n
    OBVIOUS
  <2> HIDE DEF e
  <2>2. TreeInv(u, Len(stepMessages) + 1)
    BY <1>1, <1>4, <1>9, <2>1, GrownTree DEF e
  <2>3. ASSUME overrides PROVE Differ(u) /\ ShowTheLast(u, longer)
    <3>1. \A j \in DOMAIN tree : ~(tree[j].id = e.id /\ tree[j].name = e.name)
      BY <1>9, <2>1, <2>3 DEF Matching
    <3>2. IsLastOf(e.payload, e, longer)
      BY <1>4, <2>1
    <3>3. \A j \in DOMAIN tree : IsLastOf(tree[j].payload, tree[j], stepMessages)
                                 => IsLastOf(tree[j].payload, tree[j], longer)
      BY <1>4, <2>1, <3>1
    <3>4. Differ(tree) /\ ShowTheLast(tree, stepMessages)
      BY <1>1, <2>3
    <3>5. HasEntryAt(u, tree, e, at) /\ at \in 0 .. Len(tree)
      BY <1>9 DEF e, Fits
    <3> QED BY <1>1, <3>1, <3>2, <3>3, <3>4, <3>5, NewEntryDiffers
  <2> QED BY <2>2, <2>3
<1>a. id # NoStep => \A depth \in Nat : entry(depth) \in Entries
  BY <1>4 DEF Entries
<1>10. CASE id # NoStep /\ ~(overrides /\ Matching(id, name) # {}) /\ Parents(id) # {}
  <2> DEFINE p == Min(Parents(id))
             at == EndOf(p)
             e == entry(tree[p].depth + 1)
  <2>1. tree' = Inserted(e, at)
    BY <1>10 DEF ProcessIntermediateMessage
  <2>2. p \in Parents(id)
    <3>1. Parents(id) \in SUBSET Nat
      BY <1>2 DEF Parents
    <3> QED BY <1>10, <3>1, LeastIs
  <2> HIDE DEF p
  <2>3. p \in DOMAIN tree /\ tree[p].id = ParentId(id) /\ tree[p].depth \in Nat
    BY <1>2, <2>2 DEF Parents
  <2>4. /\ at \in p .. Len(tree)
        /\ \A k \in DOMAIN tree : p < k /\ k <= at => tree[k].depth > tree[p].depth
        /\ at + 1 \in DOMAIN tree => tree[at + 1].depth <= tree[p].depth
    BY <1>1, <2>3, EndOfEntry
  <2>5. e \in Entries /\ e.depth = tree[p].depth + 1 /\ e.id = id
    BY <1>10, <1>a, <2>3
  <2> HIDE DEF at, e
  <2>6. Fits(tree, e, at)
    <3>1. at \in 0 .. Len(tree) /\ at # 0 /\ at \in DOMAIN tree /\ p \in Nat /\ at \in Nat
      BY <1>2, <2>3, <2>4
    <3>2. e.depth <= tree[at].depth + 1
      <4>1. CASE at = p
        BY <1>2, <2>3, <2>5, <4>1
      <4>2. CASE at # p
        <5>1. tree[at].depth > tree[p].depth
          BY <2>4, <3>1, <4>2
        <5> QED BY <1>2, <2>3, <2>5, <3>1, <5>1
      <4> QED BY <4>1, <4>2
    <3>3. at + 1 \in DOMAIN tree => tree[at + 1].depth < e.depth
      BY <1>2, <2>3, <2>4, <2>5
    <3>4. ASSUME NEW q \in 1 .. at, tree[q].depth + 1 = e.depth,
                 \A k \in DOMAIN tree : q < k /\ k <= at => tree[k].depth >= e.depth
          PROVE  tree[q].id = ParentId(e.id)
      <4>1. q \in DOMAIN tree /\ q <= at /\ q \in Nat
        BY <1>2, <3>1
      <4>2. tree[q].depth = tree[p].depth
        BY <1>2, <2>3, <2>5, <3>4, <4>1
      <4>3. ~(q < p)
        <5> SUFFICES ASSUME q < p PROVE FALSE
          OBVIOUS
        <5>1. tree[p].depth >= e.depth
          BY <2>3, <2>4, <3>4
        <5> QED BY <2>3, <2>5, <5>1
      <4>4. ~(p < q)
        <5> SUFFICES ASSUME p < q PROVE FALSE
          OBVIOUS
        <5>1. tree[q].depth > tree[p].depth
          BY <2>4, <4>1
        <5> QED BY <2>3, <4>2, <5>1
      <4>5. q = p
        BY <3>1, <4>1, <4>3, <4>4
      <4> QED BY <2>3, <2>5, <4>5
    <3> QED BY <2>5, <3>1, <3>2, <3>3, <3>4 DEF Fits
  <2>7. HasEntryAt(tree', tree, e, at)
    <3>1. at \in 0 .. Len(tree)
      BY <2>6 DEF Fits
    <3> QED BY <1>1, <2>1, <2>5, <3>1, InsertedEntry
  <2>8. overrides => Matching(id, name) = {}
    BY <1>10
  <2> QED BY <1>9, <2>3, <2>6, <2>7, <2>8 DEF e
<1>11. CASE id # NoStep /\ ~(overrides /\ Matching(id, name) # {}) /\ Parents(id) = {}
  <2> DEFINE e == entry(0)
             at == Len(tree)
  <2>1. tree' = Append(tree, e)
    BY <1>11 DEF ProcessIntermediateMessage
  <2>2. e \in Entries /\ e.depth = 0
    BY <1>11, <1>a
  <2> HIDE DEF e
  <2>3. Fits(tree, e, at)
    <3>1. at \in 0 .. Len(tree) /\ at + 1 \notin DOMAIN tree
      BY <1>2
    <3>2. at \in DOMAIN tree => e.depth <= tree[at].depth + 1
      BY <1>2, <2>2
    <3>3. \A q \in 1 .. at : tree[q].depth + 1 # e.depth
      BY <1>2, <2>2
    <3> QED BY <2>2, <3>1, <3>2, <3>3 DEF Fits
  <2>4. HasEntryAt(tree', tree, e, at)
    BY <1>1, <2>1, <2>2, AppendedEntry
  <2>5. overrides => Matching(id, name) = {}
    BY <1>11
  <2> QED BY <1>9, <2>3, <2>4, <2>5 DEF e
<1> QED BY <1>7, <1>8, <1>10, <1>11

LEMMA GreatestNatural ==
    ASSUME NEW T \in SUBSET Nat, T # {}, NEW n \in Nat, \A x \in T : x <= n
    PROVE  \E m \in T : \A k \in T : k <= m
<1> DEFINE R == {x \in Nat : \E y \in T : x = n - y}
<1>1. PICK y0 \in T : TRUE
  OBVIOUS
<1>2. n - y0 \in R
  BY <1>1
<1>3. PICK r \in R : \A k \in R : r <= k
  BY <1>2, LeastNatural
<1>4. PICK m \in T : r = n - m
  BY <1>3
<1>5. ASSUME NEW k \in T PROVE k <= m
  <2>1. n - k \in R
    OBVIOUS
  <2> QED BY <1>3, <1>4, <2>1
<1> QED BY <1>5

\* The entry above is the last one before with one level less.
LEMMA AboveIs ==
    ASSUME NEW n, TreeInv(tree, n), NEW i \in DOMAIN tree
    PROVE  /\ tree[i].depth = 0 => Above(i) = 0
           /\ tree[i].depth # 0 => Above(i) \in DOMAIN tree /\ IsAbove(tree, Above(i), i)
           /\ \A q \in DOMAIN tree : IsAbove(tree, q, i) => Above(i) = q
<1>1. /\ tree \in Seq(Entries) /\ DOMAIN tree = 1 .. Len(tree) /\ Len(tree) \in Nat /\ i \in Nat
      /\ \A k \in DOMAIN tree : tree[k].depth \in Nat
  BY EntryTypes DEF TreeInv
<1> DEFINE S == {0} \cup {j \in 1 .. i - 1 : tree[j].depth = tree[i].depth - 1}
<1>2. Above(i) = Max(S)
  BY DEF Above
<1>3. S \in SUBSET Nat
  OBVIOUS
<1>4. CASE tree[i].depth = 0
  <2>1. \A j \in 1 .. i - 1 : j \in DOMAIN tree /\ tree[j].depth # -1
    BY <1>1
  <2>2. \A x \in S : x = 0
    BY <1>4, <2>1
  <2>3. 0 \in S /\ \A x \in S : x <= 0
    BY <2>2
  <2> HIDE DEF S
  <2>4. Max(S) = 0
    BY <1>3, <2>3, GreatestIs
  <2>5. ASSUME NEW q \in DOMAIN tree PROVE ~IsAbove(tree, q, i)
    BY <1>1, <1>4 DEF IsAbove
  <2> QED BY <1>2, <1>4, <2>4, <2>5
<1>5. CASE tree[i].depth # 0
  <2> DEFINE B == {j \in DOMAIN tree : j < i /\ tree[j].depth < tree[i].depth}
  <2>1. 1 \in B
    <3>1. 1 \in DOMAIN tree
      BY <1>1
    <3>2. tree[1].depth = 0
      BY <3>1 DEF TreeInv, Walked
    <3>3. i # 1
      BY <1>5, <3>2
    <3> QED BY <1>1, <1>5, <3>1, <3>2, <3>3
  <2>2. B \in SUBSET Nat /\ \A x \in B : x <= i
    BY <1>1
  <2>3. PICK p \in B : \A x \in B : x <= p
    BY <1>1, <2>1, <2>2, GreatestNatural
  <2>4. p \in DOMAIN tree /\ p < i /\ tree[p].depth < tree[i].depth /\ p \in Nat
    BY <1>1, <2>3
  <2>5. ASSUME NEW k \in DOMAIN tree, p < k, k < i PROVE tree[k].depth >= tree[i].depth
    <3>1. k \notin B
      BY <1>1, <2>3, <2>4, <2>5
    <3> QED BY <1>1, <2>5, <3>1
  <2>6. tree[p].depth + 1 = tree[i].depth
    <3>1. p + 1 \in DOMAIN tree /\ (p + 1 = i \/ p + 1 < i) /\ p < p + 1
      BY <1>1, <2>4
    <3>2. tree[p + 1].depth <= tree[p].depth + 1
      BY <2>4, <3>1 DEF TreeInv, Walked
    <3>3. tree[p + 1].depth >= tree[i].depth
      BY <1>1, <2>5, <3>1
    <3>4. tree[p + 1].depth \in Nat /\ tree[p].depth \in Nat /\ tree[i].depth \in Nat
      BY <1>1, <2>4, <3>1
    <3> QED BY <2>4, <3>2, <3>3, <3>4
  <2>7. IsAbove(tree, p, i)
    BY <2>4, <2>5, <2>6 DEF IsAbove
  <2>8. p \in S
    BY <1>1, <2>4, <2>6
  <2>9. ASSUME NEW x \in S PROVE x <= p
    <3>1. CASE x = 0
      BY <2>4, <3>1
    <3>2. CASE x # 0
      <4>1. x \in B
        BY <1>1, <3>2
      <4> QED BY <2>3, <4>1
    <3> QED BY <3>1, <3>2
  <2> HIDE DEF S
  <2>10. Max(S) = p
    BY <1>3, <2>8, <2>9, GreatestIs
  <2>11. ASSUME NEW q \in DOMAIN tree, IsAbove(tree, q, i) PROVE q = p
    <3>1. q < i /\ tree[q].depth + 1 = tree[i].depth
          /\ \A k \in DOMAIN tree : q < k /\ k < i => tree[k].depth >= tree[i].depth
      BY <2>11 DEF IsAbove
    <3>2. q \in B
      BY <1>1, <3>1
    <3>3. q <= p /\ q \in Nat
      BY <1>1, <2>3, <3>2
    <3>4. ~(q < p)
      BY <1>1, <2>4, <3>1
    <3> QED BY <2>4, <3>3, <3>4
  <2> QED BY <1>2, <1>5, <2>4, <2>7, <2>10, <2>11
<1> QED BY <1>4, <1>5

\* The entries that are last in their array, and so on up.
OnTheLastPath(i) == \A j \in DOMAIN tree : j > i => tree[j].depth > tree[i].depth

\* An entry is on the last path if it is last in its array and its parent is on it.
LEMMA LastPathStep ==
    ASSUME NEW n, TreeInv(tree, n), NEW i \in DOMAIN tree
    PROVE  /\ Above(i) \in 0 .. i - 1 /\ (Above(i) # 0 => Above(i) \in DOMAIN tree)
           /\ OnTheLastPath(i) <=> LastInArray(i) /\ (Above(i) = 0 \/ OnTheLastPath(Above(i)))
<1>1. /\ tree \in Seq(Entries) /\ DOMAIN tree = 1 .. Len(tree) /\ Len(tree) \in Nat /\ i \in Nat
      /\ \A k \in DOMAIN tree : tree[k].depth \in Nat /\ k \in Nat /\ k # 0
  BY EntryTypes DEF TreeInv
<1>2. \A k \in DOMAIN tree :
         /\ tree[k].depth = 0 => Above(k) = 0
         /\ tree[k].depth # 0 => Above(k) \in DOMAIN tree /\ IsAbove(tree, Above(k), k)
         /\ \A q \in DOMAIN tree : IsAbove(tree, q, k) => Above(k) = q
  BY AboveIs
<1>3. \A k \in DOMAIN tree : Above(k) # 0 =>
         /\ Above(k) \in DOMAIN tree /\ Above(k) < k /\ tree[Above(k)].depth + 1 = tree[k].depth
         /\ \A m \in DOMAIN tree : Above(k) < m /\ m < k => tree[m].depth >= tree[k].depth
  BY <1>2 DEF IsAbove
<1>4. \A k \in DOMAIN tree : Above(k) = 0 => tree[k].depth = 0
  BY <1>1, <1>2
<1>5. Above(i) \in 0 .. i - 1 /\ (Above(i) # 0 => Above(i) \in DOMAIN tree)
  <2>1. CASE Above(i) = 0
    BY <1>1, <2>1
  <2>2. CASE Above(i) # 0
    <3>1. Above(i) \in DOMAIN tree /\ Above(i) < i
      BY <1>3, <2>2
    <3> QED BY <1>1, <3>1
  <2> QED BY <2>1, <2>2
<1>6. ASSUME OnTheLastPath(i) PROVE LastInArray(i) /\ (Above(i) = 0 \/ OnTheLastPath(Above(i)))
  <2>1. ASSUME NEW j \in DOMAIN tree, j > i, Above(j) = Above(i) PROVE FALSE
    <3>1. tree[j].depth > tree[i].depth
      BY <1>6, <2>1 DEF OnTheLastPath
    <3>2. CASE Above(i) = 0
      BY <1>1, <1>4, <2>1, <3>1, <3>2
    <3>3. CASE Above(i) # 0
      <4>1. tree[Above(i)].depth + 1 = tree[i].depth /\ tree[Above(i)].depth + 1 = tree[j].depth
        BY <1>3, <2>1, <3>3
      <4> QED BY <1>1, <2>1, <3>1, <4>1
    <3> QED BY <3>2, <3>3
  <2>2. ASSUME Above(i) # 0, NEW j \in DOMAIN tree, j > Above(i) PROVE tree[j].depth > tree[Above(i)].depth
    <3>1. Above(i) \in DOMAIN tree /\ tree[Above(i)].depth + 1 = tree[i].depth /\ tree[Above(i)].depth \in Nat
      BY <1>1, <1>3, <2>2
    <3>2. CASE j < i
      <4>1. tree[j].depth >= tree[i].depth
        BY <1>3, <2>2, <3>2
      <4> QED BY <1>1, <3>1, <4>1
    <3>3. CASE j = i
      BY <1>1, <3>1, <3>3
    <3>4. CASE j > i
      <4>1. tree[j].depth > tree[i].depth
        BY <1>6, <3>4 DEF OnTheLastPath
      <4> QED BY <1>1, <3>1, <4>1
    <3> QED BY <1>1, <3>2, <3>3, <3>4
  <2> QED BY <2>1, <2>2 DEF LastInArray, OnTheLastPath
<1>7. ASSUME LastInArray(i), Above(i) = 0 \/ OnTheLastPath(Above(i)) PROVE OnTheLastPath(i)
  <2> DEFINE B == {j \in DOMAIN tree : j > i /\ ~(tree[j].depth > tree[i].depth)}
  <2>0. SUFFICES ASSUME B # {} PROVE FALSE
    BY DEF OnTheLastPath
  <2>1. B \in SUBSET Nat
    BY <1>1
  <2>2. PICK j \in B : \A x \in B : j <= x
    BY <2>0, <2>1, LeastNatural
  <2>3. j \in DOMAIN tree /\ j > i /\ tree[j].depth <= tree[i].depth /\ j \in Nat
    BY <1>1, <2>2
  <2>4. ASSUME NEW k \in DOMAIN tree, i < k, k < j PROVE tree[k].depth > tree[i].depth
    <3>1. k \notin B
      BY <1>1, <2>2, <2>3, <2>4
    <3> QED BY <1>1, <2>4, <3>1
  <2>5. Above(j) = Above(i)
    <3>1. CASE Above(i) = 0
      <4>1. tree[i].depth = 0
        BY <1>4, <3>1
      <4>2. tree[j].depth = 0
        BY <1>1, <2>3, <4>1
      <4> QED BY <1>2, <2>3, <3>1, <4>2
    <3>2. CASE Above(i) # 0
      <4> DEFINE p == Above(i)
      <4>1. /\ p \in DOMAIN tree /\ p < i /\ tree[p].depth + 1 = tree[i].depth
            /\ \A m \in DOMAIN tree : p < m /\ m < i => tree[m].depth >= tree[i].depth
        BY <1>3, <3>2
      <4>2. OnTheLastPath(p)
        BY <1>7, <3>2
      <4> HIDE DEF p
      <4>3. p < j /\ tree[p].depth \in Nat
        BY <1>1, <2>3, <4>1
      <4>4. tree[j].depth > tree[p].depth
        BY <2>3, <4>2, <4>3 DEF OnTheLastPath
      <4>5. tree[j].depth = tree[i].depth
        BY <1>1, <2>3, <4>1, <4>3, <4>4
      <4>6. ASSUME NEW k \in DOMAIN tree, p < k, k < j PROVE tree[k].depth >= tree[j].depth
        <5>1. CASE k < i
          BY <4>1, <4>5, <4>6, <5>1
        <5>2. CASE k = i
          BY <1>1, <4>5, <5>2
        <5>3. CASE i < k
          <6>1. tree[k].depth > tree[i].depth
            BY <2>4, <4>6, <5>3
          <6> QED BY <1>1, <2>3, <4>5, <6>1
        <5> QED BY <1>1, <5>1, <5>2, <5>3
      <4>7. IsAbove(tree, p, j)
        BY <4>1, <4>3, <4>5, <4>6 DEF IsAbove
      <4>8. Above(j) = p
        BY <1>2, <2>3, <4>1, <4>7
      <4> QED BY <4>8 DEF p
    <3> QED BY <3>1, <3>2
  <2> QED BY <1>7, <2>3, <2>5 DEF LastInArray
<1> QED BY <1>5, <1>6, <1>7

\* IsLast exists, and is what it says.
LEMMA LastPathIs ==
    ASSUME NEW n, TreeInv(tree, n)
    PROVE  \A i \in DOMAIN tree : IsLast[i] <=> OnTheLastPath(i)
<1>1. /\ tree \in Seq(Entries) /\ DOMAIN tree = 1 .. Len(tree) /\ Len(tree) \in Nat
  BY EntryTypes DEF TreeInv
<1>2. \A i \in DOMAIN tree :
           /\ Above(i) \in 0 .. i - 1 /\ (Above(i) # 0 => Above(i) \in DOMAIN tree)
           /\ OnTheLastPath(i) <=> LastInArray(i) /\ (Above(i) = 0 \/ OnTheLastPath(Above(i)))
  BY LastPathStep
<1> DEFINE D == 0 .. Len(tree)
           g == [i \in D |-> i = 0 \/ OnTheLastPath(i)]
<1>3. \A i \in D : i = 0 \/ i \in DOMAIN tree
  BY <1>1
<1>4. \A i \in DOMAIN tree : i \in D /\ Above(i) \in D /\ i # 0
  BY <1>1, <1>2
<1>5. ASSUME NEW i \in D PROVE g[i] = (i = 0 \/ (LastInArray(i) /\ g[Above(i)]))
  <2>1. CASE i = 0
    BY <2>1
  <2>2. CASE i # 0
    <3>1. i \in DOMAIN tree
      BY <1>3, <2>2
    <3>2. Above(i) \in D
      BY <1>4, <3>1
    <3>3. g[Above(i)] <=> Above(i) = 0 \/ OnTheLastPath(Above(i))
      BY <3>2
    <3>4. g[i] <=> OnTheLastPath(i)
      BY <2>2
    <3>5. g[i] \in BOOLEAN
      BY Zenon
    <3>6. g[i] <=> (i = 0 \/ (LastInArray(i) /\ g[Above(i)]))
      BY <1>2, <2>2, <3>1, <3>3, <3>4
    <3> HIDE DEF g
    <3> QED BY <3>5, <3>6
  <2> QED BY <2>1, <2>2
<1>6. g = [i \in D |-> i = 0 \/ (LastInArray(i) /\ g[Above(i)])]
  <2> DEFINE h == [i \in D |-> i = 0 \/ (LastInArray(i) /\ g[Above(i)])]
  <2>1. \A i \in D : g[i] = h[i]
    BY <1>5
  <2> QED BY <2>1
<1>7. IsLast = [i \in D |-> i = 0 \/ (LastInArray(i) /\ IsLast[Above(i)])]
  <2>1. \E f : f = [i \in D |-> i = 0 \/ (LastInArray(i) /\ f[Above(i)])]
    BY <1>6
  <2> HIDE DEF g
  <2> QED BY <2>1 DEF IsLast
<1> HIDE DEF g
<1>8. \A i \in D : IsLast[i] = (i = 0 \/ (LastInArray(i) /\ IsLast[Above(i)]))
  BY <1>7
<1> DEFINE T == {m \in Nat : \A i \in DOMAIN tree : i <= m => (IsLast[i] <=> OnTheLastPath(i))}
<1>9. 0 \in T
  BY <1>1
<1>10. ASSUME NEW m \in Nat, m \in T PROVE m + 1 \in T
  <2> SUFFICES ASSUME NEW i \in DOMAIN tree, i <= m + 1 PROVE IsLast[i] <=> OnTheLastPath(i)
    OBVIOUS
  <2>0. i \in D /\ i # 0 /\ 0 \in D /\ i \in Nat
    BY <1>1, <1>4
  <2>1. IsLast[i] <=> LastInArray(i) /\ IsLast[Above(i)]
    BY <1>8, <2>0
  <2>2. IsLast[Above(i)] <=> Above(i) = 0 \/ OnTheLastPath(Above(i))
    <3>1. CASE Above(i) = 0
      BY <1>8, <2>0, <3>1
    <3>2. CASE Above(i) # 0
      <4>1. Above(i) \in DOMAIN tree /\ Above(i) <= m
        BY <1>2, <2>0, <3>2
      <4>2. IsLast[Above(i)] <=> OnTheLastPath(Above(i))
        BY <1>10, <4>1
      <4> QED BY <3>2, <4>2
    <3> QED BY <3>1, <3>2
  <2> QED BY <1>2, <2>1, <2>2
<1> HIDE DEF T
<1>11. Nat \subseteq T
  BY <1>9, <1>10, FullByInduction
<1>12. Len(tree) \in T
  BY <1>1, <1>11
<1> QED BY <1>1, <1>12 DEF T

-----------------------------------------------------------------------------
LEMMA StepInvIsSound == StepInv => StepTreeIsSound
<1> SUFFICES ASSUME StepInv PROVE StepTreeIsSound
  OBVIOUS
<1> DEFINE n == Len(stepMessages)
<1>1. /\ tree \in Seq(Entries) /\ overrides \in BOOLEAN /\ stepMessages \in Seq(Messages)
      /\ TreeInv(tree, n) /\ (overrides => Differ(tree) /\ ShowTheLast(tree, stepMessages))
  BY DEF StepInv, StepTypeOK, Messages
<1> HIDE DEF n
<1>2. /\ DOMAIN tree = 1 .. Len(tree) /\ Len(tree) \in Nat
      /\ \A k \in DOMAIN tree : /\ tree[k].depth \in Nat /\ k \in Nat /\ k # 0 /\ tree[k].payload \in Nat
                                /\ tree[k].id \in StepIds
  BY <1>1, EntryTypes
<1>3. \A k \in DOMAIN tree :
         /\ tree[k].depth = 0 => Above(k) = 0
         /\ tree[k].depth # 0 => Above(k) \in DOMAIN tree /\ IsAbove(tree, Above(k), k)
  BY <1>1, AboveIs
<1>4. \A k \in DOMAIN tree : Above(k) # 0 =>
         /\ Above(k) \in DOMAIN tree /\ IsAbove(tree, Above(k), k)
         /\ Above(k) < k /\ tree[Above(k)].depth + 1 = tree[k].depth
         /\ \A m \in DOMAIN tree : Above(k) < m /\ m < k => tree[m].depth >= tree[k].depth
  BY <1>3 DEF IsAbove
<1>5. \A k \in DOMAIN tree : Above(k) = 0 => tree[k].depth = 0
  BY <1>2, <1>3
<1>6. \A k \in DOMAIN tree : IsLast[k] <=> OnTheLastPath(k)
  BY <1>1, LastPathIs
<1>7. overrides => \A i, j \in DOMAIN tree :
           i # j => <<tree[i].id, tree[i].name>> # <<tree[j].id, tree[j].name>>
  BY <1>1 DEF Differ
<1>8. overrides => \A i \in DOMAIN tree :
           tree[i].payload = Max({m \in DOMAIN stepMessages :
               stepMessages[m] = [id |-> tree[i].id, name |-> tree[i].name]})
  <2> SUFFICES ASSUME overrides, NEW i \in DOMAIN tree
               PROVE  tree[i].payload = Max({m \in DOMAIN stepMessages :
                          stepMessages[m] = [id |-> tree[i].id, name |-> tree[i].name]})
    OBVIOUS
  <2> DEFINE S == {m \in DOMAIN stepMessages :
                       stepMessages[m] = [id |-> tree[i].id, name |-> tree[i].name]}
  <2>1. DOMAIN stepMessages = 1 .. Len(stepMessages) /\ Len(stepMessages) \in Nat
        /\ \A m \in DOMAIN stepMessages : stepMessages[m] \in Messages
    BY <1>1
  <2>2. IsLastOf(tree[i].payload, tree[i], stepMessages)
    BY <1>1 DEF ShowTheLast
  <2>3. \A m \in DOMAIN stepMessages :
            m \in S <=> stepMessages[m].id = tree[i].id /\ stepMessages[m].name = tree[i].name
    BY <2>1 DEF Messages
  <2>4. S \in SUBSET Nat
    BY <2>1
  <2>6. \A m \in S : m \in DOMAIN stepMessages
    OBVIOUS
  <2> HIDE DEF S
  <2>5. tree[i].payload \in S /\ \A m \in S : m <= tree[i].payload
    BY <2>2, <2>3, <2>6 DEF IsLastOf
  <2>7. Max(S) = tree[i].payload
    BY <2>4, <2>5, GreatestIs
  <2> QED BY <2>7 DEF S
<1>9. \A i \in DOMAIN tree : Above(i) # 0 => tree[Above(i)].id = ParentId(tree[i].id)
  BY <1>1, <1>4 DEF TreeInv, UnderTheirParents
<1>10. ASSUME NEW i \in DOMAIN tree, NEW j \in DOMAIN tree, i < j, Above(i) = Above(j)
       PROVE  tree[i].index < tree[j].index
  <2>1. Beside(tree, i, j)
    <3>1. CASE Above(i) = 0
      <4>1. tree[i].depth = 0 /\ tree[j].depth = 0
        BY <1>5, <1>10, <3>1
      <4> QED BY <1>2, <1>10, <4>1 DEF Beside
    <3>2. CASE Above(i) # 0
      <4> DEFINE p == Above(i)
      <4>1. p < i /\ tree[p].depth + 1 = tree[i].depth /\ tree[p].depth + 1 = tree[j].depth
              /\ p \in DOMAIN tree
            /\ \A m \in DOMAIN tree : p < m /\ m < j => tree[m].depth >= tree[j].depth
        BY <1>4, <1>10, <3>2
      <4> HIDE DEF p
      <4>2. tree[i].depth = tree[j].depth
        BY <4>1
      <4>3. ASSUME NEW k \in DOMAIN tree, i < k, k < j PROVE tree[k].depth >= tree[i].depth
        <5>1. p < k
          BY <1>2, <4>1, <4>3
        <5> QED BY <4>1, <4>2, <4>3, <5>1
      <4> QED BY <1>10, <4>2, <4>3 DEF Beside
    <3> QED BY <3>1, <3>2
  <2> QED BY <1>1, <2>1 DEF TreeInv, InOrder
<1>11. ASSUME NEW i \in DOMAIN tree, NEW j \in DOMAIN tree, i < j, IsLast[i], IsLast[j] PROVE Above(j) >= i
  <2>1. tree[j].depth > tree[i].depth
    BY <1>2, <1>6, <1>11 DEF OnTheLastPath
  <2>2. Above(j) # 0
    BY <1>2, <1>5, <2>1
  <2>3. Above(j) \in DOMAIN tree /\ ~(Above(j) < i)
    BY <1>2, <1>4, <1>11, <2>1, <2>2
  <2> QED BY <1>2, <2>3
<1>12. ASSUME tree # <<>> PROVE IsLast[Len(tree)]
  <2>1. Len(tree) \in DOMAIN tree
    BY <1>1, <1>2, <1>12
  <2>2. OnTheLastPath(Len(tree))
    BY <1>2 DEF OnTheLastPath
  <2> QED BY <1>6, <2>1, <2>2
<1> QED BY <1>7, <1>8, <1>9, <1>10, <1>11, <1>12, Zenon DEF StepTreeIsSound

LEMMA StepStepInv == StepInv /\ [StepNext]_stepVars => StepInv'
<1> SUFFICES ASSUME StepInv, [StepNext]_stepVars PROVE StepInv'
  OBVIOUS
<1>1. ASSUME NEW id \in StepIds \cup {NoStep}, NEW name \in StepNames, ProcessIntermediateMessage(id, name)
      PROVE  StepInv'
  BY <1>1, MessageKeepsTheTree
<1>2. ASSUME UNCHANGED stepVars PROVE StepInv'
  BY <1>2 DEF stepVars, StepInv, StepTypeOK, TreeInv, Walked, UnderTheirParents, InOrder, Indexed, IsAbove,
     Beside, Differ, ShowTheLast, IsLastOf
<1> QED BY <1>1, <1>2 DEF StepNext

\* The tree of the steps is sound, for any messages of any steps in any order.
THEOREM StepTreeAlwaysSound == StepSpec => [](StepTypeOK /\ StepTreeIsSound)
<1>1. StepInv => StepTypeOK /\ StepTreeIsSound
  BY StepInvIsSound DEF StepInv
<1> QED BY <1>1, StepInitInv, StepStepInv, PTL DEF StepSpec

-----------------------------------------------------------------------------
(* The stream of an answer *)

-----------------------------------------------------------------------------
\* What the stream carries: what was taken, what is held back, what is on its way, and
\* what has not been read.
Whole(consumed, held, way, pieces) == ((consumed \o held) \o way) \o BytesOf(pieces)

\* The chunks the loop took, and the pieces that were not lost.
Carried(consumed, rest) ==
    /\ consumed \in Seq(Tokens) /\ rest \in Seq(Tokens)
    /\ Whole(consumed, partial, out, rest) = BytesOf(Answer)
    /\ proxy # "errored" => rest = queue
    /\ answerText = Texts(consumed)
    /\ client # "ended" => message.steps \o pendingSteps = Steps(consumed)
    /\ client = "ended" => message = [text |-> Texts(consumed), steps |-> Steps(consumed)]

DoneIsLast == \A i \in DOMAIN sentLines : sentLines[i] = "done" => i = Len(sentLines)

Extends(s, t) == \E x \in Seq(Tokens) : t = s \o x

StreamInvRest ==
    /\ StreamTypeOK
    /\ message = [text |-> message.text, steps |-> message.steps]
    /\ DoneIsLast
    /\ proxy = "asks" => sentLines = <<>>
    /\ awaited => queue = <<>>
    /\ proxy = "errored" => queue = <<>>
    /\ proxy \in {"asks", "reads"} => \A i \in 1 .. got \div 2 : sentLines[i] # "done"
    /\ proxy = "closed" => upstream # "open" \/ \E i \in DOMAIN sentLines : sentLines[i] = "done"
    /\ partial # <<>> => Len(partial) = 1 /\ partial[1].kind = "open"
    /\ client = "ended" => proxy = "closed" /\ queue = <<>> /\ out = <<>>
    /\ ~hasPendingUpdate => message.text = answerText /\ pendingSteps = <<>>

StreamInv ==
    /\ StreamInvRest
    /\ Extends(message.text, answerText)
    /\ \E consumed \in Seq(Tokens), rest \in Seq(Tokens) : Carried(consumed, rest)

LEMMA TokenBytes ==
    ASSUME NEW x \in Tokens
    PROVE  /\ Bytes(x) \in Seq(Tokens) /\ <<x>> \in Seq(Tokens) /\ Bytes(x) # <<>>
           /\ x.kind # "step" => Bytes(x) = <<x>>
           /\ x.kind = "step" => \E y \in Tokens : y.kind = "open" /\ Bytes(x) = <<y, x>>
<1> DEFINE y == [x EXCEPT !.kind = "open"]
<1>1. y \in Tokens /\ y.kind = "open"
  BY DEF Tokens
<1>2. Bytes(x) = IF x.kind = "step" THEN <<y, x>> ELSE <<x>>
  BY DEF Bytes
<1> HIDE DEF y
<1>3. <<y, x>> \in Seq(Tokens) /\ <<x>> \in Seq(Tokens) /\ <<y, x>> # <<>> /\ <<x>> # <<>>
  BY <1>1
<1> QED BY <1>1, <1>2, <1>3

BytesList(s) == [i \in DOMAIN s |-> Bytes(s[i])]

LEMMA BytesListType ==
    ASSUME NEW s \in Seq(Tokens)
    PROVE  /\ BytesList(s) \in Seq(Seq(Tokens)) /\ Len(BytesList(s)) = Len(s)
           /\ \A i \in 1 .. Len(s) : BytesList(s)[i] = Bytes(s[i])
<1> DEFINE E == Seq(Tokens)
           b == BytesList(s)
<1>1. DOMAIN s = 1 .. Len(s) /\ Len(s) \in Nat
  OBVIOUS
<1>2. ASSUME NEW i \in 1 .. Len(s) PROVE Bytes(s[i]) \in E
  BY <1>1, TokenBytes
<1>3. b = [i \in 1 .. Len(s) |-> Bytes(s[i])]
  BY <1>1 DEF BytesList
<1> HIDE DEF E, b
<1>4. b \in [1 .. Len(s) -> E] /\ \A i \in 1 .. Len(s) : b[i] = Bytes(s[i])
  BY <1>2, <1>3
<1>5. b \in Seq(E) /\ Len(b) = Len(s)
  BY <1>1, <1>4
<1> QED BY <1>4, <1>5 DEF E, b

\* The bytes of two answers are those of one and then of the other.
LEMMA BytesListConcat ==
    ASSUME NEW s \in Seq(Tokens), NEW t \in Seq(Tokens)
    PROVE  BytesList(s \o t) = BytesList(s) \o BytesList(t)
<1> DEFINE E == Seq(Tokens)
           a == BytesList(s)
           b == BytesList(t)
           c == BytesList(s \o t)
           m == Len(s)
           n == Len(t)
<1>1. /\ s \o t \in Seq(Tokens) /\ Len(s \o t) = m + n
      /\ \A i \in 1 .. m + n : (s \o t)[i] = IF i <= m THEN s[i] ELSE t[i - m]
  BY ConcatProperties
<1>2. a \in Seq(E) /\ Len(a) = m /\ \A i \in 1 .. m : a[i] = Bytes(s[i])
  BY BytesListType
<1>3. b \in Seq(E) /\ Len(b) = n /\ \A i \in 1 .. n : b[i] = Bytes(t[i])
  BY BytesListType
<1>4. c \in Seq(E) /\ Len(c) = m + n /\ \A i \in 1 .. m + n : c[i] = Bytes((s \o t)[i])
  <2> DEFINE u == s \o t
  <2>1. u \in Seq(Tokens) /\ Len(u) = m + n
    BY <1>1
  <2> HIDE DEF u
  <2>2. BytesList(u) \in Seq(E) /\ Len(BytesList(u)) = Len(u)
          /\ \A i \in 1 .. Len(u) : BytesList(u)[i] = Bytes(u[i])
    BY <2>1, BytesListType
  <2> QED BY <2>1, <2>2 DEF u
<1>5. m \in Nat /\ n \in Nat
  OBVIOUS
<1> HIDE DEF E, a, b, c, m, n
<1>6. /\ a \o b \in Seq(E) /\ Len(a \o b) = m + n
      /\ \A i \in 1 .. m + n : (a \o b)[i] = IF i <= m THEN a[i] ELSE b[i - m]
  BY <1>2, <1>3, ConcatProperties
<1>7. ASSUME NEW i \in 1 .. m + n PROVE c[i] = (a \o b)[i]
  <2>1. CASE i <= m
    <3>1. i \in 1 .. m /\ (s \o t)[i] = s[i] /\ (a \o b)[i] = a[i]
      BY <1>1, <1>5, <1>6, <2>1
    <3>2. c[i] = Bytes(s[i]) /\ a[i] = Bytes(s[i])
      BY <1>2, <1>4, <3>1
    <3> QED BY <3>1, <3>2
  <2>2. CASE ~(i <= m)
    <3>1. i - m \in 1 .. n /\ (s \o t)[i] = t[i - m] /\ (a \o b)[i] = b[i - m]
      BY <1>1, <1>5, <1>6, <2>2
    <3>2. c[i] = Bytes(t[i - m]) /\ b[i - m] = Bytes(t[i - m])
      BY <1>3, <1>4, <3>1
    <3> QED BY <3>1, <3>2
  <2> QED BY <2>1, <2>2
<1>8. c = a \o b
  <2> DEFINE w == a \o b
  <2>1. w \in Seq(E) /\ Len(w) = Len(c) /\ c \in Seq(E) /\ \A i \in 1 .. Len(c) : c[i] = w[i]
    BY <1>4, <1>6, <1>7
  <2> HIDE DEF w
  <2>2. c = w
    BY <2>1, SeqEqual
  <2> QED BY <2>2 DEF w
<1> QED BY <1>8 DEF a, b, c

LEMMA BytesOfType ==
    ASSUME NEW s \in Seq(Tokens)
    PROVE  BytesOf(s) \in Seq(Tokens)
BY BytesListType, FlattenType DEF BytesOf, BytesList

LEMMA BytesOfEmpty == BytesOf(<<>>) = <<>>
<1>1. BytesList(<<>>) = <<>>
  BY DEF BytesList
<1> QED BY <1>1, FlattenEmpty DEF BytesOf, BytesList

LEMMA BytesOfConcat ==
    ASSUME NEW s \in Seq(Tokens), NEW t \in Seq(Tokens)
    PROVE  BytesOf(s \o t) = BytesOf(s) \o BytesOf(t)
<1>1. BytesList(s) \in Seq(Seq(Tokens)) /\ BytesList(t) \in Seq(Seq(Tokens))
  BY BytesListType
<1>2. FlattenSeq(BytesList(s) \o BytesList(t)) = FlattenSeq(BytesList(s)) \o FlattenSeq(BytesList(t))
  BY <1>1, FlattenConcat
<1>3. \A u : BytesOf(u) = FlattenSeq(BytesList(u))
  BY Zenon DEF BytesOf, BytesList
<1> QED BY <1>2, <1>3, BytesListConcat, Zenon

LEMMA BytesOfOne ==
    ASSUME NEW x \in Tokens
    PROVE  BytesOf(<<x>>) = Bytes(x)
<1>1. BytesList(<<x>>) = <<Bytes(x)>>
  BY DEF BytesList
<1>2. Bytes(x) \in Seq(Tokens)
  BY TokenBytes
<1> QED BY <1>1, <1>2, FlattenOne DEF BytesOf, BytesList

LEMMA BytesOfAppend ==
    ASSUME NEW s \in Seq(Tokens), NEW x \in Tokens
    PROVE  BytesOf(Append(s, x)) = BytesOf(s) \o Bytes(x)
<1>1. Append(s, x) = s \o <<x>> /\ <<x>> \in Seq(Tokens)
  BY AppendIsConcat
<1> QED BY <1>1, BytesOfConcat, BytesOfOne

-----------------------------------------------------------------------------
OfThat(kind) == {x \in Tokens : x.kind = kind}

\* The pieces of one kind are those a filter keeps.
LEMMA OfKindIsKept ==
    ASSUME NEW s \in Seq(Tokens), NEW kind
    PROVE  OfKind(s, kind) = Filtered(s, OfThat(kind))
<1>1. DOMAIN s = 1 .. Len(s) /\ \A i \in DOMAIN s : s[i] \in Tokens
  OBVIOUS
<1>2. \A i \in DOMAIN s : s[i].kind = kind <=> s[i] \in OfThat(kind)
  BY <1>1 DEF OfThat
<1>3. [i \in DOMAIN s |-> IF s[i].kind = kind THEN <<s[i]>> ELSE <<>>] = Chosen(s, OfThat(kind))
  BY <1>2 DEF Chosen
<1> QED BY <1>3 DEF OfKind, Filtered

LEMMA OfKindType ==
    ASSUME NEW s \in Seq(Tokens), NEW kind
    PROVE  OfKind(s, kind) \in Seq(Tokens)
BY OfKindIsKept, FilteredType

LEMMA OfKindEmpty == \A kind : OfKind(<<>>, kind) = <<>>
<1> SUFFICES ASSUME NEW kind PROVE OfKind(<<>>, kind) = <<>>
  OBVIOUS
<1>1. <<>> \in Seq(Tokens)
  OBVIOUS
<1> QED BY <1>1, OfKindIsKept, FilteredEmpty

OfKindSplits(s, t, kind) == OfKind(s \o t, kind) = OfKind(s, kind) \o OfKind(t, kind)

LEMMA OfKindConcat ==
    ASSUME NEW s \in Seq(Tokens), NEW t \in Seq(Tokens), NEW kind
    PROVE  OfKindSplits(s, t, kind)
<1>1. s \o t \in Seq(Tokens)
  BY ConcatProperties
<1>2. Filtered(s \o t, OfThat(kind)) = Filtered(s, OfThat(kind)) \o Filtered(t, OfThat(kind))
  BY FilteredConcat
<1> QED BY <1>1, <1>2, OfKindIsKept DEF OfKindSplits

LEMMA OfKindOne ==
    ASSUME NEW x \in Tokens, NEW kind
    PROVE  OfKind(<<x>>, kind) = IF x.kind = kind THEN <<x>> ELSE <<>>
<1>1. <<x>> = Append(<<>>, x) /\ <<>> \in Seq(Tokens) /\ <<x>> \in Seq(Tokens) /\ Append(<<>>, x) = <<x>>
  OBVIOUS
<1>2. Filtered(Append(<<>>, x), OfThat(kind)) =
          IF x \in OfThat(kind) THEN Append(Filtered(<<>>, OfThat(kind)), x) ELSE Filtered(<<>>, OfThat(kind))
  BY <1>1, FilteredAppend
<1>3. OfKind(<<x>>, kind) = IF x \in OfThat(kind) THEN <<x>> ELSE <<>>
  BY <1>1, <1>2, OfKindIsKept, FilteredEmpty
<1> QED BY <1>3 DEF OfThat

\* A piece and its bytes have the same texts and steps.
LEMMA OfKindBytes ==
    ASSUME NEW x \in Tokens, NEW kind \in {"text", "step"}
    PROVE  OfKind(Bytes(x), kind) = OfKind(<<x>>, kind)
<1>1. CASE x.kind # "step"
  BY <1>1, TokenBytes
<1>2. CASE x.kind = "step"
  <2>1. PICK y \in Tokens : y.kind = "open" /\ Bytes(x) = <<y, x>>
    BY <1>2, TokenBytes
  <2>2. <<y, x>> = <<y>> \o <<x>> /\ <<y>> \in Seq(Tokens) /\ <<x>> \in Seq(Tokens)
    OBVIOUS
  <2>3. OfKind(<<y>> \o <<x>>, kind) = OfKind(<<y>>, kind) \o OfKind(<<x>>, kind)
    BY <2>2, OfKindConcat DEF OfKindSplits
  <2>4. OfKind(<<y>>, kind) = <<>>
    BY <2>1, OfKindOne
  <2>5. OfKind(<<x>>, kind) \in Seq(Tokens)
    BY <2>2, OfKindType
  <2>6. <<>> \o OfKind(<<x>>, kind) = OfKind(<<x>>, kind)
    BY <2>5, ConcatEmptySeq
  <2> QED BY <2>1, <2>2, <2>3, <2>4, <2>6
<1> QED BY <1>1, <1>2

\* What a piece is, its bytes are.
LEMMA OfKindBytesOf ==
    ASSUME NEW kind \in {"text", "step"}
    PROVE  \A s \in Seq(Tokens) : OfKind(BytesOf(s), kind) = OfKind(s, kind)
<1> DEFINE T == {n \in Nat : \A s \in Seq(Tokens) :
                     Len(s) = n => OfKind(BytesOf(s), kind) = OfKind(s, kind)}
<1>1. 0 \in T
  <2> SUFFICES ASSUME NEW s \in Seq(Tokens), Len(s) = 0
               PROVE  OfKind(BytesOf(s), kind) = OfKind(s, kind)
    OBVIOUS
  <2>1. s = <<>>
    BY EmptySeq
  <2> QED BY <2>1, BytesOfEmpty
<1>2. ASSUME NEW n \in Nat, n \in T PROVE n + 1 \in T
  <2> SUFFICES ASSUME NEW u \in Seq(Tokens), Len(u) = n + 1
               PROVE  OfKind(BytesOf(u), kind) = OfKind(u, kind)
    OBVIOUS
  <2>1. PICK v \in Seq(Tokens), x \in Tokens : Len(v) = n /\ u = Append(v, x)
    <3>1. EndsApart(Tokens, u, u, n)
      BY LastApart
    <3> QED BY <3>1 DEF EndsApart
  <2>2. OfKind(BytesOf(v), kind) = OfKind(v, kind)
    BY <1>2, <2>1
  <2>3. BytesOf(v) \in Seq(Tokens) /\ Bytes(x) \in Seq(Tokens) /\ <<x>> \in Seq(Tokens)
    BY BytesOfType, TokenBytes
  <2>4. u = v \o <<x>>
    BY <2>1, AppendIsConcat
  <2>5. OfKind(BytesOf(u), kind) = OfKind(BytesOf(v), kind) \o OfKind(Bytes(x), kind)
    <3>1. BytesOf(u) = BytesOf(v) \o Bytes(x)
      BY <2>1, BytesOfAppend
    <3> DEFINE a == BytesOf(v)
               b == Bytes(x)
    <3>2. a \in Seq(Tokens) /\ b \in Seq(Tokens) /\ BytesOf(u) = a \o b
      BY <2>3, <3>1
    <3> HIDE DEF a, b
    <3>4. OfKindSplits(a, b, kind)
      BY <3>2, OfKindConcat
    <3>3. OfKind(a \o b, kind) = OfKind(a, kind) \o OfKind(b, kind)
      BY <3>4, Zenon DEF OfKindSplits
    <3> QED BY <3>2, <3>3 DEF a, b
  <2>6. OfKind(u, kind) = OfKind(v, kind) \o OfKind(<<x>>, kind)
    BY <2>3, <2>4, OfKindConcat DEF OfKindSplits
  <2> QED BY <2>2, <2>5, <2>6, OfKindBytes
<1> HIDE DEF T
<1>3. Nat \subseteq T
  BY <1>1, <1>2, FullByInduction
<1>4. ASSUME NEW s \in Seq(Tokens) PROVE OfKind(BytesOf(s), kind) = OfKind(s, kind)
  <2>1. Len(s) \in T
    BY <1>3
  <2> QED BY <2>1 DEF T
<1> QED BY <1>4

LEMMA WholeType ==
    ASSUME NEW c \in Seq(Tokens), NEW h \in Seq(Tokens), NEW w \in Seq(Tokens), NEW q \in Seq(Tokens)
    PROVE  Whole(c, h, w, q) \in Seq(Tokens)
<1> DEFINE b == BytesOf(q)
<1>1. b \in Seq(Tokens)
  BY BytesOfType
<1> HIDE DEF b
<1>2. c \o h \in Seq(Tokens)
  BY ConcatProperties
<1>3. (c \o h) \o w \in Seq(Tokens)
  BY <1>2, ConcatProperties
<1>4. ((c \o h) \o w) \o b \in Seq(Tokens)
  BY <1>1, <1>3, ConcatProperties
<1> QED BY <1>4 DEF Whole, b

Associates(a, b, c) == (a \o b) \o c = a \o (b \o c)

LEMMA ConcatAssociates ==
    ASSUME NEW S, NEW a \in Seq(S), NEW b \in Seq(S), NEW c \in Seq(S)
    PROVE  Associates(a, b, c)
BY ConcatAssociative DEF Associates

FourParts(x, w, a, b) ==
    /\ (x \o (w \o a)) \o b = (x \o w) \o (a \o b)
    /\ ((x \o w) \o a) \o b = (x \o w) \o (a \o b)

\* Concatenations of four parts, regrouped.
LEMMA FourRegroup ==
    ASSUME NEW x \in Seq(Tokens), NEW w \in Seq(Tokens), NEW a \in Seq(Tokens), NEW b \in Seq(Tokens)
    PROVE  FourParts(x, w, a, b)
<1>1. x \o w \in Seq(Tokens)
  BY ConcatProperties
<1>2. Associates(x, w, a)
  BY ConcatAssociates
<1>3. Associates(x \o w, a, b)
  BY <1>1, ConcatAssociates
<1> QED BY <1>2, <1>3, Zenon DEF Associates, FourParts

QueuedMore(c, h, w, q, r) == Whole(c, h, w, q \o r) = Whole(c, h, w, q) \o BytesOf(r)

\* Pieces that are queued or written come last.
LEMMA WholeMore ==
    ASSUME NEW c \in Seq(Tokens), NEW h \in Seq(Tokens), NEW w \in Seq(Tokens),
           NEW q \in Seq(Tokens), NEW r \in Seq(Tokens)
    PROVE  /\ QueuedMore(c, h, w, q, r)
           /\ Whole(c, h, w \o BytesOf(q), r) = Whole(c, h, w, q \o r)
<1> DEFINE a == BytesOf(q)
           b == BytesOf(r)
           x == c \o h
<1>1. a \in Seq(Tokens) /\ b \in Seq(Tokens) /\ x \in Seq(Tokens)
  BY BytesOfType, ConcatProperties
<1>2. BytesOf(q \o r) = a \o b
  BY BytesOfConcat
<1> HIDE DEF a, b, x
<1>3. (x \o (w \o a)) \o b = (x \o w) \o (a \o b) /\ ((x \o w) \o a) \o b = (x \o w) \o (a \o b)
  <2>1. FourParts(x, w, a, b)
    BY <1>1, FourRegroup
  <2> QED BY <2>1, Zenon DEF FourParts
<1>4. Whole(c, h, w, q \o r) = (x \o w) \o (a \o b)
  BY <1>2, Zenon DEF Whole, x
<1>5. Whole(c, h, w, q) \o BytesOf(r) = ((x \o w) \o a) \o b
  BY Zenon DEF Whole, x, a, b
<1>6. Whole(c, h, w \o BytesOf(q), r) = (x \o (w \o a)) \o b
  BY Zenon DEF Whole, x, a, b
<1>7. QueuedMore(c, h, w, q, r)
  BY <1>3, <1>4, <1>5, Zenon DEF QueuedMore, b
<1> QED BY <1>3, <1>4, <1>6, <1>7

TakenFrom(c, h, w1, w2, v, h2, q) ==
    h \o w1 = v \o h2 => Whole(c \o v, h2, w2, q) = Whole(c, h, w1 \o w2, q)

\* A read moves bytes from the way to what is taken and what is held back.
LEMMA WholeTaken ==
    ASSUME NEW c \in Seq(Tokens), NEW h \in Seq(Tokens), NEW w1 \in Seq(Tokens), NEW w2 \in Seq(Tokens),
           NEW v \in Seq(Tokens), NEW h2 \in Seq(Tokens), NEW q \in Seq(Tokens)
    PROVE  TakenFrom(c, h, w1, w2, v, h2, q)
<1> SUFFICES ASSUME h \o w1 = v \o h2
             PROVE  Whole(c \o v, h2, w2, q) = Whole(c, h, w1 \o w2, q)
  BY DEF TakenFrom
<1>1. c \o h \in Seq(Tokens) /\ c \o v \in Seq(Tokens)
  BY ConcatProperties
<1>2. Associates(c \o h, w1, w2)
  BY <1>1, ConcatAssociates
<1>3. Associates(c, h, w1)
  BY ConcatAssociates
<1>4. Associates(c, v, h2)
  BY ConcatAssociates
<1>5. (c \o h) \o (w1 \o w2) = ((c \o v) \o h2) \o w2
  BY <1>2, <1>3, <1>4, Zenon DEF Associates
<1>6. Whole(c \o v, h2, w2, q) = (((c \o v) \o h2) \o w2) \o BytesOf(q)
  BY Zenon DEF Whole
<1>7. Whole(c, h, w1 \o w2, q) = ((c \o h) \o (w1 \o w2)) \o BytesOf(q)
  BY Zenon DEF Whole
<1> QED BY <1>5, <1>6, <1>7, Zenon

StartsWith(answer, c, kind) == \E y \in Seq(Tokens) : OfKind(answer, kind) = OfKind(c, kind) \o y

\* What is taken is a beginning of the whole, in text and in steps.
LEMMA WholeOfKind ==
    ASSUME NEW c \in Seq(Tokens), NEW h \in Seq(Tokens), NEW w \in Seq(Tokens), NEW q \in Seq(Tokens),
           NEW answer \in Seq(Tokens), Whole(c, h, w, q) = BytesOf(answer),
           NEW kind \in {"text", "step"}
    PROVE  StartsWith(answer, c, kind)
<1> DEFINE b == BytesOf(q)
           z == h \o (w \o b)
<1>1. b \in Seq(Tokens)
  BY BytesOfType
<1> HIDE DEF b
<1>2. w \o b \in Seq(Tokens) /\ c \o h \in Seq(Tokens)
  BY <1>1, ConcatProperties
<1>3. z \in Seq(Tokens)
  BY <1>2, ConcatProperties
<1>4. Associates(c \o h, w, b)
  BY <1>1, <1>2, ConcatAssociates
<1>5. Associates(c, h, w \o b)
  BY <1>2, ConcatAssociates
<1>6. Whole(c, h, w, q) = ((c \o h) \o w) \o b
  BY Zenon DEF Whole, b
<1>7. BytesOf(answer) = c \o z
  BY <1>4, <1>5, <1>6, Zenon DEF Associates
<1> HIDE DEF z
<1>8. OfKind(answer, kind) = OfKind(BytesOf(answer), kind)
  BY OfKindBytesOf
<1>11. OfKindSplits(c, z, kind)
  BY <1>3, OfKindConcat
<1>9. OfKind(c \o z, kind) = OfKind(c, kind) \o OfKind(z, kind)
  BY <1>11, Zenon DEF OfKindSplits
<1>10. OfKind(z, kind) \in Seq(Tokens)
  BY <1>3, OfKindType
<1> QED BY <1>7, <1>8, <1>9, <1>10 DEF StartsWith

\* When nothing is on its way, all of it was taken.
LEMMA WholeIsTaken ==
    ASSUME NEW c \in Seq(Tokens), NEW h \in Seq(Tokens), h # <<>> => Len(h) = 1 /\ h[1].kind = "open",
           NEW answer \in Seq(Tokens), Whole(c, h, <<>>, <<>>) = BytesOf(answer),
           NEW kind \in {"text", "step"}
    PROVE  OfKind(answer, kind) = OfKind(c, kind)
<1>1. c \o h \in Seq(Tokens)
  BY ConcatProperties
<1>2. (c \o h) \o <<>> = c \o h
  BY <1>1, ConcatEmptySeq
<1>3. BytesOf(answer) = c \o h
  BY <1>2, BytesOfEmpty DEF Whole
<1>4. OfKind(answer, kind) = OfKind(c, kind) \o OfKind(h, kind)
  <2>1. OfKind(answer, kind) = OfKind(BytesOf(answer), kind)
    BY OfKindBytesOf
  <2>2. OfKind(c \o h, kind) = OfKind(c, kind) \o OfKind(h, kind)
    BY OfKindConcat, Zenon DEF OfKindSplits
  <2> QED BY <1>3, <2>1, <2>2
<1>5. OfKind(h, kind) = <<>>
  <2>1. CASE h = <<>>
    BY <2>1, OfKindEmpty
  <2>2. CASE h # <<>>
    <3> DEFINE y == h[1]
    <3>1. Len(h) = 1 /\ y.kind = "open" /\ y \in Tokens
      BY <2>2
    <3>2. h = <<y>>
      BY <3>1
    <3> HIDE DEF y
    <3> QED BY <3>1, <3>2, OfKindOne
  <2> QED BY <2>1, <2>2
<1>6. OfKind(c, kind) \in Seq(Tokens)
  BY OfKindType
<1>7. OfKind(c, kind) \o <<>> = OfKind(c, kind)
  BY <1>6, ConcatEmptySeq
<1> QED BY <1>4, <1>5, <1>7

\* An empty whole has nothing anywhere.
LEMMA WholeEmpty ==
    ASSUME NEW c \in Seq(Tokens), NEW h \in Seq(Tokens), NEW w \in Seq(Tokens), NEW q \in Seq(Tokens),
           Whole(c, h, w, q) = <<>>
    PROVE  c = <<>> /\ h = <<>> /\ w = <<>> /\ q = <<>>
<1> DEFINE b == BytesOf(q)
<1>1. b \in Seq(Tokens)
  BY BytesOfType
<1>2. ((c \o h) \o w) \o b = <<>>
  BY Zenon DEF Whole, b
<1>a. q # <<>> => b # <<>>
  <2> SUFFICES ASSUME q # <<>> PROVE b # <<>>
    OBVIOUS
  <2>1. PICK v \in Seq(Tokens), x \in Tokens : q = Append(v, x)
    BY SequenceEmptyOrAppend
  <2>2. b = BytesOf(v) \o Bytes(x)
    BY <2>1, BytesOfAppend
  <2>3. BytesOf(v) \in Seq(Tokens) /\ Bytes(x) \in Seq(Tokens) /\ Bytes(x) # <<>>
    BY BytesOfType, TokenBytes
  <2> DEFINE f == BytesOf(v)
             g == Bytes(x)
  <2>4. f \in Seq(Tokens) /\ g \in Seq(Tokens) /\ g # <<>> /\ b = f \o g
    BY <2>2, <2>3
  <2> HIDE DEF b, f, g
  <2>5. Len(f \o g) = Len(f) + Len(g) /\ Len(f) \in Nat /\ Len(g) \in Nat /\ Len(g) # 0
    BY <2>4, ConcatProperties, EmptySeq
  <2> QED BY <2>4, <2>5, EmptySeq
<1> HIDE DEF b
<1>3. c \o h \in Seq(Tokens) /\ Len(c \o h) = Len(c) + Len(h)
  BY ConcatProperties
<1>4. (c \o h) \o w \in Seq(Tokens) /\ Len((c \o h) \o w) = Len(c) + Len(h) + Len(w)
  BY <1>3, ConcatProperties
<1>5. Len(((c \o h) \o w) \o b) = Len(c) + Len(h) + Len(w) + Len(b)
  BY <1>1, <1>4, ConcatProperties
<1>6. Len(c) + Len(h) + Len(w) + Len(b) = 0
  BY <1>2, <1>5
<1>7. Len(c) \in Nat /\ Len(h) \in Nat /\ Len(w) \in Nat /\ Len(b) \in Nat
  BY <1>1
<1>8. Len(c) = 0 /\ Len(h) = 0 /\ Len(w) = 0 /\ Len(b) = 0
  BY <1>6, <1>7
<1> QED BY <1>1, <1>8, <1>a, EmptySeq

LEMMA PrefixOf ==
    ASSUME NEW s \in Seq(Tokens), NEW t \in Seq(Tokens)
    PROVE  IsPrefix(s, s \o t)
<1> DEFINE u == s \o t
<1>1. u \in Seq(Tokens) /\ Len(u) = Len(s) + Len(t)
        /\ \A i \in 1 .. Len(s) + Len(t) : u[i] = IF i <= Len(s) THEN s[i] ELSE t[i - Len(s)]
  BY ConcatProperties
<1> HIDE DEF u
<1>2. Len(s) \in Nat /\ Len(t) \in Nat
  OBVIOUS
<1>3. Len(s) <= Len(u) /\ \A i \in 1 .. Len(s) : u[i] = s[i]
  BY <1>1, <1>2
<1>4. SubSeq(s, 1, Len(s)) = [i \in 1 .. Len(s) |-> s[i]]
        /\ SubSeq(u, 1, Len(s)) = [i \in 1 .. Len(s) |-> u[i]]
  BY <1>1, <1>2, <1>3
<1>5. SubSeq(s, 1, Len(s)) = SubSeq(u, 1, Len(s))
  BY <1>3, <1>4
<1> QED BY <1>3, <1>5 DEF IsPrefix, u

DoneBy(u) == \E i \in 1 .. u : sentLines[i] = "done"

AnswerFor(u, closed, body) ==
    IF ~Streaming THEN (IF closed THEN <<Piece("text", 0)>> ELSE <<>>)
    ELSE IF closed /\ body # <<>> THEN body ELSE PiecesOfLines(1, IF DoneBy(u) THEN u - 1 ELSE u)

Halves(g, n) == g \div 2 \in 0 .. n /\ (\A i \in Nat : 2 * i > g <=> i > g \div 2)

\* Lines that came whole, and the line of which half came.
LEMMA HalfLines ==
    ASSUME NEW n \in Nat, NEW g \in 0 .. 2 * n
    PROVE  Halves(g, n)
<1>1. g \in Nat /\ g <= 2 * n
  OBVIOUS
<1>2. g \div 2 \in 0 .. n
  BY <1>1
<1>3. ASSUME NEW i \in Nat PROVE 2 * i > g <=> i > g \div 2
  BY <1>1
<1> QED BY <1>2, <1>3 DEF Halves

LEMMA DoneIsBy ==
    ASSUME NEW s \in Seq(Kinds), NEW u \in 0 .. Len(s)
    PROVE  "done" \in ToSet(SubSeq(s, 1, u)) <=> \E i \in 1 .. u : s[i] = "done"
<1> DEFINE t == SubSeq(s, 1, u)
<1>1. Len(t) = u /\ DOMAIN t = 1 .. u /\ \A i \in 1 .. u : t[i] = s[i]
  OBVIOUS
<1> HIDE DEF t
<1>2. "done" \in ToSet(t) <=> \E i \in 1 .. u : t[i] = "done"
  BY <1>1 DEF ToSet
<1> QED BY <1>1, <1>2 DEF t

\* The answer, from what has been read.
LEMMA AnswerNow ==
    ASSUME sentLines \in Seq(Kinds), got \in 0 .. 2 * Len(sentLines)
    PROVE  Answer = AnswerFor(got \div 2, proxy = "closed", BodyPieces)
<1> DEFINE u == got \div 2
<1>1. u \in 0 .. Len(sentLines)
  BY HalfLines DEF Halves
<1> HIDE DEF u
<1>2. "done" \in ToSet(SubSeq(sentLines, 1, u)) <=> DoneBy(u)
  BY <1>1, DoneIsBy DEF DoneBy
<1>3. Answer = IF ~Streaming THEN (IF proxy = "closed" THEN <<Piece("text", 0)>> ELSE <<>>)
               ELSE IF proxy = "closed" /\ BodyPieces # <<>> THEN BodyPieces
               ELSE PiecesOfLines(1, IF "done" \in ToSet(SubSeq(sentLines, 1, u)) THEN u - 1 ELSE u)
  BY Zenon DEF Answer, u
<1> QED BY <1>2, <1>3, Zenon DEF AnswerFor, u

\* The same after a step that reads more.
LEMMA AnswerNext ==
    ASSUME sentLines \in Seq(Kinds), NEW g \in 0 .. 2 * Len(sentLines), got' = g,
           UNCHANGED <<endpoint, enabled, sentLines>>
    PROVE  Answer' = AnswerFor(g \div 2, proxy' = "closed", BodyPieces')
<1> DEFINE u == g \div 2
<1>1. u \in 0 .. Len(sentLines)
  BY HalfLines DEF Halves
<1>5. sentLines' = sentLines /\ endpoint' = endpoint /\ enabled' = enabled
  OBVIOUS
<1> HIDE DEF u
<1>2. "done" \in ToSet(SubSeq(sentLines, 1, u)) <=> DoneBy(u)
  BY <1>1, DoneIsBy DEF DoneBy
<1>6. \A n : PiecesOf(n)' = PiecesOf(n)
  BY <1>5, SMT DEF PiecesOf, Piece
<1>4. \A m : PiecesOfLines(1, m)' = PiecesOfLines(1, m)
  BY <1>6, Zenon DEF PiecesOfLines
<1>7. got' \div 2 = u
  BY DEF u
<1>3. Answer' = IF ~Streaming THEN (IF proxy' = "closed" THEN <<Piece("text", 0)>> ELSE <<>>)
               ELSE IF proxy' = "closed" /\ BodyPieces' # <<>> THEN BodyPieces'
               ELSE PiecesOfLines(1, IF "done" \in ToSet(SubSeq(sentLines, 1, u)) THEN u - 1 ELSE u)
  BY <1>4, <1>5, <1>7 DEF Answer, Streaming, Piece
<1> QED BY <1>2, <1>3, Zenon DEF AnswerFor, u

-----------------------------------------------------------------------------
LEMMA PieceType ==
    ASSUME MaxLines \in Nat, NEW kind \in {"text", "open", "step"}, NEW n \in 0 .. MaxLines
    PROVE  Piece(kind, n) \in Tokens /\ <<Piece(kind, n)>> \in Seq(Tokens)
BY DEF Piece, Tokens

LEMMA PiecesOfType ==
    ASSUME MaxLines \in Nat, sentLines \in Seq(Kinds), Len(sentLines) <= MaxLines,
             NEW n \in 1 .. Len(sentLines)
    PROVE  PiecesOf(n) \in Seq(Tokens)
<1>1. n \in 0 .. MaxLines
  OBVIOUS
<1>2. <<Piece("text", n)>> \in Seq(Tokens) /\ <<Piece("step", n)>> \in Seq(Tokens) /\ <<>> \in Seq(Tokens)
  BY <1>1, PieceType
<1> QED BY <1>2 DEF PiecesOf

PieceList(from, to) == [i \in 1 .. to - from + 1 |-> PiecesOf(from + i - 1)]

LEMMA PieceListType ==
    ASSUME MaxLines \in Nat, sentLines \in Seq(Kinds), Len(sentLines) <= MaxLines,
           NEW from \in Nat \ {0}, NEW to \in 0 .. Len(sentLines), from <= to + 1
    PROVE  PieceList(from, to) \in Seq(Seq(Tokens)) /\ Len(PieceList(from, to)) = to - from + 1
<1> DEFINE E == Seq(Tokens)
           b == PieceList(from, to)
           n == to - from + 1
<1>1. n \in Nat
  OBVIOUS
<1>2. ASSUME NEW i \in 1 .. n PROVE PiecesOf(from + i - 1) \in E
  <2>1. from + i - 1 \in 1 .. Len(sentLines)
    OBVIOUS
  <2> QED BY <2>1, PiecesOfType
<1>3. b = [i \in 1 .. n |-> PiecesOf(from + i - 1)]
  BY DEF PieceList
<1> HIDE DEF E, b, n
<1>4. b \in [1 .. n -> E]
  BY <1>2, <1>3
<1>5. b \in Seq(E) /\ Len(b) = n
  BY <1>1, <1>4
<1> QED BY <1>5 DEF E, b, n

LEMMA PiecesOfLinesType ==
    ASSUME MaxLines \in Nat, sentLines \in Seq(Kinds), Len(sentLines) <= MaxLines,
           NEW from \in Nat \ {0}, NEW to \in 0 .. Len(sentLines), from <= to + 1
    PROVE  PiecesOfLines(from, to) \in Seq(Tokens)
<1>1. PieceList(from, to) \in Seq(Seq(Tokens))
  BY PieceListType
<1>2. PiecesOfLines(from, to) = FlattenSeq(PieceList(from, to))
  BY Zenon DEF PiecesOfLines, PieceList
<1> QED BY <1>1, <1>2, FlattenType

LEMMA NoLinesNoPieces ==
    ASSUME NEW m \in Nat
    PROVE  PiecesOfLines(m + 1, m) = <<>>
<1>1. 1 .. (m - (m + 1) + 1) = {}
  OBVIOUS
<1>2. PieceList(m + 1, m) = <<>>
  BY <1>1 DEF PieceList
<1>3. PiecesOfLines(m + 1, m) = FlattenSeq(PieceList(m + 1, m))
  BY Zenon DEF PiecesOfLines, PieceList
<1> QED BY <1>2, <1>3, FlattenEmpty

\* The pieces of some lines are those of the first and then of the others.
LEMMA PiecesOfLinesSplit ==
    ASSUME MaxLines \in Nat, sentLines \in Seq(Kinds), Len(sentLines) <= MaxLines,
           NEW m \in 0 .. Len(sentLines), NEW l \in m .. Len(sentLines)
    PROVE  PiecesOfLines(1, l) = PiecesOfLines(1, m) \o PiecesOfLines(m + 1, l)
<1> DEFINE E == Seq(Tokens)
           a == PieceList(1, m)
           b == PieceList(m + 1, l)
           c == PieceList(1, l)
<1>12. a \in Seq(E) /\ Len(a) = m - 1 + 1
  <2>1. 1 \in Nat \ {0} /\ 1 <= m + 1
    OBVIOUS
  <2> QED BY <2>1, PieceListType
<1>13. c \in Seq(E) /\ Len(c) = l - 1 + 1
  <2>1. 1 \in Nat \ {0} /\ l \in 0 .. Len(sentLines) /\ 1 <= l + 1
    OBVIOUS
  <2> QED BY <2>1, PieceListType
<1>14. b \in Seq(E) /\ Len(b) = l - (m + 1) + 1
  <2> DEFINE f == m + 1
  <2>1. f \in Nat \ {0} /\ l \in 0 .. Len(sentLines) /\ f <= l + 1
    OBVIOUS
  <2> HIDE DEF f
  <2>2. PieceList(f, l) \in Seq(Seq(Tokens)) /\ Len(PieceList(f, l)) = l - f + 1
    BY <2>1, PieceListType
  <2> QED BY <2>2 DEF f
<1>1. a \in Seq(E) /\ Len(a) = m /\ b \in Seq(E) /\ Len(b) = l - m /\ c \in Seq(E) /\ Len(c) = l
  BY <1>12, <1>13, <1>14
<1>2. \A i \in 1 .. m : a[i] = PiecesOf(i)
  BY DEF PieceList
<1>3. \A i \in 1 .. l - m : b[i] = PiecesOf(m + i)
  BY DEF PieceList
<1>4. \A i \in 1 .. l : c[i] = PiecesOf(i)
  BY DEF PieceList
<1>5. m \in Nat /\ l \in Nat /\ m <= l
  OBVIOUS
<1>6. \A p, q : PiecesOfLines(p, q) = FlattenSeq(PieceList(p, q))
  BY Zenon DEF PiecesOfLines, PieceList
<1>7. \A s, t \in Seq(E) : FlattenSeq(s \o t) = FlattenSeq(s) \o FlattenSeq(t)
  BY FlattenConcat
<1> HIDE DEF E, a, b, c
<1>8. /\ a \o b \in Seq(E) /\ Len(a \o b) = l
      /\ \A i \in 1 .. l : (a \o b)[i] = IF i <= m THEN a[i] ELSE b[i - m]
  <2>1. /\ a \o b \in Seq(E) /\ Len(a \o b) = Len(a) + Len(b)
        /\ \A i \in 1 .. Len(a) + Len(b) : (a \o b)[i] = IF i <= Len(a) THEN a[i] ELSE b[i - Len(a)]
    BY <1>1, ConcatProperties
  <2>2. Len(a) = m /\ Len(a) + Len(b) = l
    BY <1>1, <1>5
  <2> QED BY <2>1, <2>2
<1>9. ASSUME NEW i \in 1 .. l PROVE c[i] = (a \o b)[i]
  <2>1. CASE i <= m
    BY <1>2, <1>4, <1>5, <1>8, <2>1
  <2>2. CASE ~(i <= m)
    <3>1. i - m \in 1 .. l - m /\ m + (i - m) = i
      BY <1>5, <2>2
    <3>2. b[i - m] = PiecesOf(i)
      BY <1>3, <3>1
    <3> QED BY <1>4, <1>8, <2>2, <3>2
  <2> QED BY <2>1, <2>2
<1>10. c = a \o b
  <2> DEFINE w == a \o b
  <2>1. w \in Seq(E) /\ Len(w) = Len(c) /\ \A i \in 1 .. Len(c) : c[i] = w[i]
    BY <1>1, <1>8, <1>9
  <2> HIDE DEF w
  <2>2. c = w
    BY <1>1, <2>1, SeqEqual
  <2> QED BY <2>2 DEF w
<1>11. FlattenSeq(c) = FlattenSeq(a) \o FlattenSeq(b)
  BY <1>1, <1>7, <1>10
<1> QED BY <1>6, <1>11 DEF a, b, c

\* The types of the variables, one by one.
StreamTypes ==
    /\ queue \in Seq(Tokens) /\ out \in Seq(Tokens) /\ partial \in Seq(Tokens)
    /\ answerText \in Seq(Tokens) /\ pendingSteps \in Seq(Tokens)
    /\ message.text \in Seq(Tokens) /\ message.steps \in Seq(Tokens)
    /\ sentLines \in Seq(Kinds) /\ Len(sentLines) <= MaxLines
    /\ got \in 0 .. 2 * Len(sentLines)
    /\ awaited \in BOOLEAN

LEMMA TypesOfStream ==
    ASSUME StreamTypeOK
    PROVE  StreamTypes
<1> DEFINE T == Seq(Tokens)
<1>1. \A s \in {queue, out, partial, answerText, pendingSteps, message.text, message.steps} : s \in T
  BY DEF StreamTypeOK
<1> HIDE DEF T
<1>2. /\ queue \in T /\ out \in T /\ partial \in T /\ answerText \in T /\ pendingSteps \in T
      /\ message.text \in T /\ message.steps \in T
  BY <1>1
<1>3. /\ sentLines \in Seq(Kinds) /\ Len(sentLines) <= MaxLines /\ got \in 0 .. 2 * Len(sentLines)
      /\ awaited \in BOOLEAN
  BY DEF StreamTypeOK
<1> QED BY <1>2, <1>3 DEF StreamTypes, T

LEMMA AnswerForType ==
    ASSUME StreamTypes, NEW u \in 0 .. Len(sentLines), NEW closed \in BOOLEAN, NEW body \in Seq(Tokens)
    PROVE  AnswerFor(u, closed, body) \in Seq(Tokens)
<1>0. MaxLines \in Nat /\ sentLines \in Seq(Kinds) /\ Len(sentLines) <= MaxLines
  BY StreamConstants DEF StreamTypes
<1>1. <<Piece("text", 0)>> \in Seq(Tokens) /\ <<>> \in Seq(Tokens)
  <2>1. 0 \in 0 .. MaxLines
    BY <1>0
  <2> QED BY <1>0, <2>1, PieceType
<1>2. PiecesOfLines(1, u) \in Seq(Tokens)
  <2>1. 1 \in Nat \ {0} /\ 1 <= u + 1
    OBVIOUS
  <2> QED BY <1>0, <2>1, PiecesOfLinesType
<1>3. DoneBy(u) => PiecesOfLines(1, u - 1) \in Seq(Tokens)
  <2> SUFFICES ASSUME DoneBy(u) PROVE PiecesOfLines(1, u - 1) \in Seq(Tokens)
    OBVIOUS
  <2> DEFINE v == u - 1
  <2>1. 1 \in Nat \ {0} /\ 1 <= v + 1 /\ v \in 0 .. Len(sentLines)
    BY <1>0 DEF DoneBy
  <2> HIDE DEF v
  <2>2. PiecesOfLines(1, v) \in Seq(Tokens)
    BY <1>0, <2>1, PiecesOfLinesType
  <2> QED BY <2>2 DEF v
<1> QED BY <1>1, <1>2, <1>3 DEF AnswerFor

\* A body that is not a stream is one text.
LEMMA BodyType ==
    ASSUME StreamTypes
    PROVE  /\ BodyPieces \in Seq(Tokens)
           /\ BodyPieces # <<>> => /\ sentLines = <<"json">> /\ BodyPieces = <<Piece("text", 1)>>
                                   /\ endpoint = "generate/stream"
<1>0. MaxLines \in Nat /\ sentLines \in Seq(Kinds) /\ Len(sentLines) <= MaxLines
  BY StreamConstants DEF StreamTypes
<1>1. CASE sentLines = <<"json">>
  <2>1. 1 \in 0 .. MaxLines
    BY <1>0, <1>1
  <2>2. <<Piece("text", 1)>> \in Seq(Tokens) /\ <<>> \in Seq(Tokens)
    BY <1>0, <2>1, PieceType
  <2> QED BY <1>1, <2>2 DEF BodyPieces
<1>2. CASE sentLines # <<"json">>
  <2>1. BodyPieces = <<>>
    BY <1>2 DEF BodyPieces
  <2> QED BY <2>1
<1> QED BY <1>1, <1>2

LEMMA AnswerType ==
    ASSUME StreamTypes
    PROVE  Answer \in Seq(Tokens)
<1> DEFINE u == got \div 2
<1>1. u \in 0 .. Len(sentLines) /\ sentLines \in Seq(Kinds) /\ got \in 0 .. 2 * Len(sentLines)
  BY HalfLines DEF Halves, StreamTypes
<1>2. Answer = AnswerFor(u, proxy = "closed", BodyPieces)
  BY <1>1, AnswerNow
<1> HIDE DEF u
<1>3. (proxy = "closed") \in BOOLEAN
  OBVIOUS
<1> QED BY <1>1, <1>2, <1>3, AnswerForType, BodyType

-----------------------------------------------------------------------------
\* The pieces a step sends, and what is left of the unread ones.
Sends(pieces, r) ==
    /\ r \in Seq(Tokens) /\ out' \in Seq(Tokens) /\ queue' \in Seq(Tokens) /\ awaited' \in BOOLEAN
    /\ awaited' => queue' = <<>>
    /\ proxy' # "errored" => r = queue'
    /\ proxy' = "errored" => queue' = <<>>
    /\ \A c, h \in Seq(Tokens) : Whole(c, h, out', r) = Whole(c, h, out, queue) \o BytesOf(pieces)

LEMMA HeadAndTail ==
    ASSUME NEW s \in Seq(Tokens), s # <<>>
    PROVE  s[1] \in Tokens /\ <<s[1]>> \in Seq(Tokens) /\ Tail(s) \in Seq(Tokens) /\ s = <<s[1]>> \o Tail(s)
<1>1. s[1] \in Tokens /\ Tail(s) \in Seq(Tokens) /\ Len(s) \in Nat /\ Len(s) # 0
  BY EmptySeq
<1>2. Len(Tail(s)) = Len(s) - 1 /\ \A i \in 1 .. Len(s) - 1 : Tail(s)[i] = s[i + 1]
  BY <1>1
<1> DEFINE a == <<s[1]>>
           b == Tail(s)
           w == a \o b
<1>3. a \in Seq(Tokens) /\ Len(a) = 1 /\ a[1] = s[1] /\ b \in Seq(Tokens)
  BY <1>1
<1> HIDE DEF a, b
<1>4. w \in Seq(Tokens) /\ Len(w) = Len(a) + Len(b)
      /\ \A i \in 1 .. Len(a) + Len(b) : w[i] = IF i <= Len(a) THEN a[i] ELSE b[i - Len(a)]
  BY <1>3, ConcatProperties
<1> HIDE DEF w
<1>5. Len(w) = Len(s) /\ \A i \in 1 .. Len(s) : s[i] = w[i]
  BY <1>1, <1>2, <1>3, <1>4 DEF b
<1>6. s = w
  BY <1>4, <1>5, SeqEqual
<1> QED BY <1>1, <1>3, <1>6 DEF a, b, w

\* What is enqueued is behind all that is on its way.
LEMMA EnqueueSends ==
    ASSUME StreamTypes, awaited => queue = <<>>, proxy # "errored", proxy' # "errored",
           NEW pieces \in Seq(Tokens), Enqueue(pieces)
    PROVE  Sends(pieces, queue')
<1>0. queue \in Seq(Tokens) /\ out \in Seq(Tokens) /\ awaited \in BOOLEAN
  BY DEF StreamTypes
<1>1. CASE awaited /\ pieces # <<>>
  <2> DEFINE x == pieces[1]
             t == Tail(pieces)
             p == <<x>>
  <2>1. x \in Tokens /\ p \in Seq(Tokens) /\ t \in Seq(Tokens) /\ pieces = p \o t
    BY <1>1, HeadAndTail
  <2>2. queue' = t /\ out' = out \o Bytes(x) /\ awaited' = FALSE
    BY <1>1 DEF Enqueue
  <2> HIDE DEF x, t
  <2>3. BytesOf(p) = Bytes(x) /\ Bytes(x) \in Seq(Tokens)
    BY <2>1, BytesOfOne, TokenBytes
  <2>4. queue = <<>> /\ <<>> \o pieces = pieces
    BY <1>1, ConcatEmptySeq
  <2> HIDE DEF p
  <2>5. out' \in Seq(Tokens)
    BY <1>0, <2>2, <2>3, ConcatProperties
  <2>6. ASSUME NEW c \in Seq(Tokens), NEW h \in Seq(Tokens)
        PROVE  Whole(c, h, out', queue') = Whole(c, h, out, queue) \o BytesOf(pieces)
    <3>1. Whole(c, h, out \o BytesOf(p), t) = Whole(c, h, out, p \o t)
      BY <1>0, <2>1, WholeMore
    <3>3. QueuedMore(c, h, out, queue, pieces)
      BY <1>0, WholeMore
    <3>2. Whole(c, h, out, queue \o pieces) = Whole(c, h, out, queue) \o BytesOf(pieces)
      BY <3>3, Zenon DEF QueuedMore
    <3> QED BY <2>1, <2>2, <2>3, <2>4, <3>1, <3>2
  <2> QED BY <2>1, <2>2, <2>5, <2>6 DEF Sends
<1>2. CASE ~(awaited /\ pieces # <<>>)
  <2>1. queue' = queue \o pieces /\ out' = out /\ awaited' = awaited
    BY <1>2 DEF Enqueue
  <2>2. queue' \in Seq(Tokens)
    BY <1>0, <2>1, ConcatProperties
  <2>3. awaited' => queue' = <<>>
    BY <1>0, <1>2, <2>1, ConcatEmptySeq
  <2>4. ASSUME NEW c \in Seq(Tokens), NEW h \in Seq(Tokens)
        PROVE  Whole(c, h, out', queue') = Whole(c, h, out, queue) \o BytesOf(pieces)
    <3>1. QueuedMore(c, h, out, queue, pieces)
      BY <1>0, WholeMore
    <3> QED BY <2>1, <3>1, Zenon DEF QueuedMore
  <2> QED BY <1>0, <2>1, <2>2, <2>3, <2>4 DEF Sends
<1> QED BY <1>1, <1>2

SplitAt(s, k) == s = SubSeq(s, 1, k) \o SubSeq(s, k + 1, Len(s))

LEMMA CutApart ==
    ASSUME NEW s \in Seq(Tokens), NEW k \in 0 .. Len(s)
    PROVE  /\ SplitAt(s, k)
           /\ SubSeq(s, 1, k) \in Seq(Tokens) /\ SubSeq(s, k + 1, Len(s)) \in Seq(Tokens)
           /\ k = Len(s) => SubSeq(s, k + 1, Len(s)) = <<>>
<1> DEFINE a == SubSeq(s, 1, k)
           b == SubSeq(s, k + 1, Len(s))
           w == a \o b
<1>0. k \in Nat /\ Len(s) \in Nat /\ k <= Len(s)
  OBVIOUS
<1>1. a \in Seq(Tokens) /\ Len(a) = k /\ \A i \in 1 .. k : a[i] = s[i]
  BY <1>0
<1>2. b \in Seq(Tokens) /\ Len(b) = Len(s) - k /\ \A i \in 1 .. Len(s) - k : b[i] = s[k + i]
  BY <1>0
<1>3. k = Len(s) => b = <<>>
  BY <1>0, <1>2, EmptySeq
<1> HIDE DEF a, b
<1>4. w \in Seq(Tokens) /\ Len(w) = Len(a) + Len(b)
      /\ \A i \in 1 .. Len(a) + Len(b) : w[i] = IF i <= Len(a) THEN a[i] ELSE b[i - Len(a)]
  BY <1>1, <1>2, ConcatProperties
<1> HIDE DEF w
<1>5. Len(w) = Len(s) /\ \A i \in 1 .. Len(s) : s[i] = w[i]
  BY <1>0, <1>1, <1>2, <1>4
<1>6. s = w
  BY <1>4, <1>5, SeqEqual
<1> QED BY <1>1, <1>2, <1>3, <1>6 DEF a, b, w, SplitAt

\* What a stream that fails after its end has sent is sent.
LEMMA CloseSends ==
    ASSUME StreamTypes, NEW pieces \in Seq(Tokens), CloseThenFail(pieces)
    PROVE  (\E r \in Seq(Tokens) : Sends(pieces, r)) /\ proxy' \in {"closed", "errored"}
<1>0. queue \in Seq(Tokens) /\ out \in Seq(Tokens)
  BY DEF StreamTypes
<1> DEFINE all == queue \o pieces
<1>1. all \in Seq(Tokens)
  BY <1>0, ConcatProperties
<1>2. PICK k \in 0 .. Len(all) : /\ proxy' = IF k = Len(all) THEN "closed" ELSE "errored"
                                 /\ out' = out \o BytesOf(SubSeq(all, 1, k))
                                 /\ queue' = <<>> /\ awaited' = FALSE
  BY DEF CloseThenFail
<1> DEFINE p == SubSeq(all, 1, k)
           r == SubSeq(all, k + 1, Len(all))
<1>3. p \in Seq(Tokens) /\ r \in Seq(Tokens) /\ (k = Len(all) => r = <<>>) /\ all = p \o r
  <2> HIDE DEF all, p, r
  <2>1. SplitAt(all, k) /\ SubSeq(all, 1, k) \in Seq(Tokens) /\ SubSeq(all, k + 1, Len(all)) \in Seq(Tokens)
        /\ (k = Len(all) => SubSeq(all, k + 1, Len(all)) = <<>>)
    BY <1>1, CutApart
  <2> QED BY <2>1 DEF SplitAt, p, r
<1>4. out' = out \o BytesOf(p)
  BY <1>2
<1> HIDE DEF p, r, all
<1>5. BytesOf(p) \in Seq(Tokens)
  BY <1>3, BytesOfType
<1>6. out' \in Seq(Tokens) /\ queue' \in Seq(Tokens)
  <2> DEFINE b == BytesOf(p)
  <2>1. b \in Seq(Tokens) /\ out' = out \o b
    BY <1>4, <1>5
  <2> HIDE DEF b
  <2>2. out \o b \in Seq(Tokens)
    BY <1>0, <2>1, ConcatProperties
  <2>3. <<>> \in Seq(Tokens)
    OBVIOUS
  <2> QED BY <1>2, <2>1, <2>2, <2>3
<1>7. ASSUME NEW c \in Seq(Tokens), NEW h \in Seq(Tokens)
      PROVE  Whole(c, h, out', r) = Whole(c, h, out, queue) \o BytesOf(pieces)
  <2>1. Whole(c, h, out \o BytesOf(p), r) = Whole(c, h, out, p \o r)
    BY <1>0, <1>3, WholeMore
  <2>3. QueuedMore(c, h, out, queue, pieces)
    BY <1>0, WholeMore
  <2>2. Whole(c, h, out, queue \o pieces) = Whole(c, h, out, queue) \o BytesOf(pieces)
    BY <2>3, Zenon DEF QueuedMore
  <2> QED BY <1>3, <1>4, <2>1, <2>2 DEF all
<1>8. proxy' # "errored" => r = queue'
  BY <1>2, <1>3
<1>9. Sends(pieces, r)
  BY <1>2, <1>3, <1>6, <1>7, <1>8 DEF Sends
<1> QED BY <1>2, <1>3, <1>9

\* A step of the proxy that sends pieces of the answer.
LEMMA SendingCarries ==
    ASSUME StreamInv, proxy # "errored", NEW pieces \in Seq(Tokens), NEW r \in Seq(Tokens), Sends(pieces, r),
           Answer' = Answer \o pieces, UNCHANGED clientVars
    PROVE  \E consumed, rest \in Seq(Tokens) : Carried(consumed, rest)'
<1>1. PICK c \in Seq(Tokens), rest \in Seq(Tokens) : Carried(c, rest)
  BY DEF StreamInv
<1>2. rest = queue /\ Whole(c, partial, out, queue) = BytesOf(Answer)
  BY <1>1 DEF Carried
<1>3. StreamTypes /\ partial \in Seq(Tokens)
  BY TypesOfStream DEF StreamInv, StreamInvRest, StreamTypes
<1>4. BytesOf(Answer \o pieces) = BytesOf(Answer) \o BytesOf(pieces)
  <2>1. Answer \in Seq(Tokens)
    BY <1>3, AnswerType
  <2> QED BY <2>1, BytesOfConcat
<1>5. Whole(c, partial, out', r) = Whole(c, partial, out, queue) \o BytesOf(pieces)
  BY <1>3 DEF Sends
<1>6. Whole(c, partial', out', r) = BytesOf(Answer')
  BY <1>2, <1>4, <1>5 DEF clientVars
<1>7. proxy' # "errored" => r = queue'
  BY DEF Sends
<1>8. Carried(c, r)'
  BY <1>1, <1>6, <1>7 DEF Carried, clientVars
<1> QED BY <1>8

\* A step of the proxy that sends nothing.
LEMMA SilenceCarries ==
    ASSUME StreamInv, proxy' # "errored" => proxy # "errored" /\ queue' = queue,
           Answer' = Answer, UNCHANGED <<out, clientVars>>
    PROVE  \E consumed, rest \in Seq(Tokens) : Carried(consumed, rest)'
<1>1. PICK c \in Seq(Tokens), rest \in Seq(Tokens) : Carried(c, rest)
  BY DEF StreamInv
<1>2. Carried(c, rest)'
  BY <1>1 DEF Carried, clientVars
<1> QED BY <1>2

\* As long as the answer is empty, nothing is anywhere.
LEMMA NothingAnswered ==
    ASSUME StreamInv, proxy # "errored", Answer = <<>>
    PROVE  out = <<>> /\ queue = <<>> /\ partial = <<>> /\ Carried(<<>>, <<>>)
<1>1. PICK c \in Seq(Tokens), rest \in Seq(Tokens) : Carried(c, rest)
  BY DEF StreamInv
<1>2. rest = queue /\ Whole(c, partial, out, queue) = BytesOf(Answer)
  BY <1>1 DEF Carried
<1>3. partial \in Seq(Tokens) /\ out \in Seq(Tokens) /\ queue \in Seq(Tokens)
  BY TypesOfStream DEF StreamInv, StreamInvRest, StreamTypes
<1>4. Whole(c, partial, out, queue) = <<>>
  BY <1>2, BytesOfEmpty
<1>5. c = <<>> /\ partial = <<>> /\ out = <<>> /\ queue = <<>>
  BY <1>3, <1>4, WholeEmpty
<1> QED BY <1>1, <1>2, <1>5

-----------------------------------------------------------------------------
LEMMA UpstreamSendsKeeps ==
    ASSUME StreamInv, NEW kind \in Kinds, UpstreamSends(kind)
    PROVE  StreamInv'
<1>0. StreamTypes /\ StreamInvRest /\ StreamTypeOK
  BY TypesOfStream DEF StreamInv, StreamInvRest
<1>1. /\ sentLines \in Seq(Kinds) /\ Len(sentLines) \in Nat /\ got \in 0 .. 2 * Len(sentLines)
      /\ Len(sentLines) < MaxLines /\ MaxLines \in Nat /\ Len(sentLines) <= MaxLines
  BY <1>0, StreamConstants DEF StreamTypes, UpstreamSends
<1>2. /\ sentLines' \in Seq(Kinds) /\ Len(sentLines') = Len(sentLines) + 1
      /\ sentLines'[Len(sentLines) + 1] = kind
      /\ \A i \in 1 .. Len(sentLines) : sentLines'[i] = sentLines[i]
  BY <1>1, AppendProperties DEF UpstreamSends
<1>3. \A i \in 1 .. Len(sentLines) : sentLines[i] # "done"
  <2>1. "done" \notin ToSet(sentLines) /\ DOMAIN sentLines = 1 .. Len(sentLines)
    BY <1>1 DEF UpstreamSends
  <2> QED BY <2>1 DEF ToSet
<1>u. UNCHANGED <<endpoint, enabled, upstream, got, proxy, queue, awaited, out, clientVars>>
  BY DEF UpstreamSends, proxyVars
<1>c. proxy # "closed" /\ proxy # "asks" /\ upstream = "open"
  <2>1. ASSUME proxy = "closed" PROVE \E i \in DOMAIN sentLines : sentLines[i] = "done"
    BY <1>0, <2>1 DEF StreamInvRest, UpstreamSends
  <2> QED BY <1>1, <1>3, <2>1 DEF UpstreamSends
<1>4. got' \in 0 .. 2 * Len(sentLines') /\ Len(sentLines') <= MaxLines
  BY <1>1, <1>2, <1>u
<1>5. StreamTypeOK'
  <2>1. \A s \in {queue, out, partial, answerText, pendingSteps, message.text, message.steps}' :
          s \in Seq(Tokens)
    BY <1>0, <1>u DEF StreamTypeOK, clientVars
  <2>2. endpoint' \in Endpoints /\ enabled' \in BOOLEAN /\ upstream' \in {"open", "ended", "broken"}
        /\ proxy' \in {"asks", "reads", "closed", "errored"} /\ awaited' \in BOOLEAN
        /\ client' \in {"reads", "ended", "failed"} /\ isFirst' \in BOOLEAN /\ hasPendingUpdate' \in BOOLEAN
    BY <1>0, <1>u DEF StreamTypeOK, clientVars
  <2> QED BY <1>2, <1>4, <2>1, <2>2 DEF StreamTypeOK, Endpoints
<1>6. PICK u \in 0 .. Len(sentLines) : got \div 2 = u /\ got' \div 2 = u
  BY <1>1, <1>u, HalfLines DEF Halves
<1>7. Answer' = Answer
  <2>1. ~DoneBy(u)
    BY <1>1, <1>3, <1>6 DEF DoneBy
  <2>2. Answer = IF ~Streaming THEN <<>> ELSE PiecesOfLines(1, u)
    BY <1>1, <1>6, <1>c, <2>1, AnswerNow DEF AnswerFor
  <2>3. "done" \notin ToSet(SubSeq(sentLines', 1, u))
    <3>1. u \in 0 .. Len(sentLines') /\ \A i \in 1 .. u : sentLines'[i] # "done"
      BY <1>1, <1>2, <1>3, <1>6
    <3> DEFINE t == sentLines'
    <3>2. t \in Seq(Kinds) /\ u \in 0 .. Len(t) /\ \A i \in 1 .. u : t[i] # "done"
      BY <1>2, <3>1
    <3> HIDE DEF t
    <3>3. "done" \notin ToSet(SubSeq(t, 1, u))
      BY <3>2, DoneIsBy
    <3> QED BY <3>3 DEF t
  <2>4. Answer' = IF ~Streaming THEN <<>> ELSE PiecesOfLines(1, u)'
    <3>1. Answer' = IF ~Streaming' THEN (IF proxy' = "closed" THEN <<Piece("text", 0)>>' ELSE <<>>)
                    ELSE IF proxy' = "closed" /\ BodyPieces' # <<>> THEN BodyPieces'
                    ELSE PiecesOfLines(1, IF "done" \in ToSet(SubSeq(sentLines, 1, u)) THEN u - 1 ELSE u)'
      BY <1>6, Zenon DEF Answer
    <3>2. Streaming' = Streaming /\ proxy' # "closed"
      BY <1>c, <1>u DEF Streaming
    <3> QED BY <2>3, <3>1, <3>2, Zenon
  <2>5. PiecesOfLines(1, u)' = PiecesOfLines(1, u)
    <3>1. \A i \in 1 .. u : PiecesOf(i)' = PiecesOf(i)
      <4> SUFFICES ASSUME NEW i \in 1 .. u PROVE PiecesOf(i)' = PiecesOf(i)
        OBVIOUS
      <4>1. sentLines'[i] = sentLines[i]
        BY <1>1, <1>2, <1>6
      <4> QED BY <1>u, <4>1 DEF PiecesOf, Piece
    <3>2. \A i \in 1 .. u - 1 + 1 : 1 + i - 1 = i /\ i \in 1 .. u
      BY <1>6
    <3>3. \A i \in 1 .. u - 1 + 1 : PiecesOf(1 + i - 1)' = PiecesOf(1 + i - 1)
      BY <3>1, <3>2, Zenon
    <3>4. [i \in 1 .. u - 1 + 1 |-> PiecesOf(1 + i - 1)]' = [i \in 1 .. u - 1 + 1 |-> PiecesOf(1 + i - 1)]
      BY <3>3, Zenon
    <3> QED BY <3>4, Zenon DEF PiecesOfLines
  <2> QED BY <2>2, <2>4, <2>5
<1>8. \E consumed, rest \in Seq(Tokens) : Carried(consumed, rest)'
  <2>1. UNCHANGED <<out, clientVars>> /\ proxy' = proxy /\ queue' = queue
    BY <1>u
  <2>2. CASE proxy = "errored"
    BY <1>7, <2>1, <2>2, SilenceCarries
  <2>3. CASE proxy # "errored"
    BY <1>7, <2>1, <2>3, SilenceCarries
  <2> QED BY <2>2, <2>3
<1>9. DoneIsLast'
  <2>1. DOMAIN sentLines' = 1 .. Len(sentLines) + 1
    BY <1>1, <1>2
  <2>2. \A i \in DOMAIN sentLines' : sentLines'[i] = "done" => i = Len(sentLines')
    BY <1>1, <1>2, <1>3, <2>1
  <2> QED BY <2>2 DEF DoneIsLast
<1>10. \A i \in 1 .. u : sentLines'[i] # "done"
  BY <1>1, <1>2, <1>3, <1>6
<1>11. StreamInvRest'
  BY <1>0, <1>5, <1>6, <1>9, <1>10, <1>c, <1>u DEF StreamInvRest, clientVars
<1>12. Extends(message.text, answerText)'
  BY <1>u DEF Extends, StreamInv, clientVars
<1> QED BY <1>8, <1>11, <1>12 DEF StreamInv

LEMMA ProxyTyped ==
    ASSUME StreamTypeOK, UNCHANGED <<endpoint, enabled, sentLines, clientVars>>,
           upstream' \in {"open", "ended", "broken"}, got' \in 0 .. 2 * Len(sentLines),
           proxy' \in {"asks", "reads", "closed", "errored"}, awaited' \in BOOLEAN,
           queue' \in Seq(Tokens), out' \in Seq(Tokens)
    PROVE  StreamTypeOK'
<1>1. \A s \in {queue, out, partial, answerText, pendingSteps, message.text, message.steps}' :
        s \in Seq(Tokens)
  <2> DEFINE T == Seq(Tokens)
  <2>1. /\ partial \in T /\ answerText \in T /\ pendingSteps \in T
        /\ message.text \in T /\ message.steps \in T
    BY TypesOfStream DEF StreamTypes
  <2>2. queue' \in T /\ out' \in T
    OBVIOUS
  <2>3. partial' = partial /\ answerText' = answerText /\ pendingSteps' = pendingSteps /\ message' = message
    BY DEF clientVars
  <2> HIDE DEF T
  <2>4. \A s \in {queue', out', partial, answerText, pendingSteps, message.text, message.steps} : s \in T
    BY <2>1, <2>2
  <2> QED BY <2>3, <2>4 DEF T
<1>2. endpoint' \in Endpoints /\ enabled' \in BOOLEAN /\ sentLines' \in Seq(Kinds)
        /\ Len(sentLines') <= MaxLines
      /\ client' \in {"reads", "ended", "failed"} /\ isFirst' \in BOOLEAN /\ hasPendingUpdate' \in BOOLEAN
  BY DEF StreamTypeOK, clientVars
<1>3. got' \in 0 .. 2 * Len(sentLines')
  OBVIOUS
<1> QED BY <1>1, <1>2, <1>3 DEF StreamTypeOK, Endpoints

\* What stays when the proxy takes a step, and what the step has to bring.
LEMMA ProxyStepKeeps ==
    ASSUME StreamInv, StreamTypeOK', UNCHANGED <<endpoint, enabled, sentLines, clientVars>>,
           proxy' = "asks" => proxy = "asks",
           awaited' => queue' = <<>>,
           proxy' = "errored" => queue' = <<>>,
           proxy' \in {"asks", "reads"} => \A i \in 1 .. got' \div 2 : sentLines[i] # "done",
           proxy' = "closed" => upstream' # "open" \/ \E i \in DOMAIN sentLines : sentLines[i] = "done",
           client = "ended" => proxy' = "closed" /\ queue' = <<>> /\ out' = <<>>,
           \E consumed, rest \in Seq(Tokens) : Carried(consumed, rest)'
    PROVE  StreamInv'
<1>0. StreamInvRest
  BY DEF StreamInv
<1>1. DoneIsLast'
  BY <1>0 DEF StreamInvRest, DoneIsLast
<1>2. Extends(message.text, answerText)'
  BY DEF StreamInv, Extends, clientVars
<1>3. /\ (message = [text |-> message.text, steps |-> message.steps])'
      /\ (proxy = "asks" => sentLines = <<>>)'
      /\ (partial # <<>> => Len(partial) = 1 /\ partial[1].kind = "open")'
      /\ (~hasPendingUpdate => message.text = answerText /\ pendingSteps = <<>>)'
  BY <1>0 DEF StreamInvRest, clientVars
<1>4. (client = "ended" => proxy = "closed" /\ queue = <<>> /\ out = <<>>)'
  BY DEF clientVars
<1>5. (proxy \in {"asks", "reads"} => \A i \in 1 .. got \div 2 : sentLines[i] # "done")'
  OBVIOUS
<1>6. (proxy = "closed" => upstream # "open" \/ \E i \in DOMAIN sentLines : sentLines[i] = "done")'
  OBVIOUS
<1>7. StreamInvRest'
  BY <1>1, <1>3, <1>4, <1>5, <1>6 DEF StreamInvRest
<1> QED BY <1>2, <1>7 DEF StreamInv

\* While the stream is not closed, the answer is the pieces of the lines that were read.
LEMMA AnswerWhileReading ==
    ASSUME StreamTypes, proxy # "closed", NEW u, u = got \div 2, ~DoneBy(u)
    PROVE  Answer = IF Streaming THEN PiecesOfLines(1, u) ELSE <<>>
<1>1. sentLines \in Seq(Kinds) /\ got \in 0 .. 2 * Len(sentLines)
  BY DEF StreamTypes
<1>2. Answer = AnswerFor(u, FALSE, BodyPieces)
  BY <1>1, AnswerNow
<1> QED BY <1>2, Zenon DEF AnswerFor

LEMMA UpstreamEndsKeeps ==
    ASSUME StreamInv, NEW how \in {"ended", "broken"}, UpstreamEnds(how)
    PROVE  StreamInv'
<1>0. StreamInvRest /\ StreamTypeOK /\ StreamTypes
  BY TypesOfStream DEF StreamInv, StreamInvRest
<1>1. UNCHANGED <<endpoint, enabled, sentLines, got, proxy, queue, awaited, out, clientVars>>
      /\ upstream' = how /\ upstream = "open" /\ proxy # "asks"
  BY DEF UpstreamEnds, proxyVars
<1>2. /\ sentLines \in Seq(Kinds) /\ got \in 0 .. 2 * Len(sentLines)
      /\ queue \in Seq(Tokens) /\ out \in Seq(Tokens) /\ awaited \in BOOLEAN
  BY <1>0 DEF StreamTypes
<1>3. StreamTypeOK'
  <2>1. /\ upstream' \in {"open", "ended", "broken"} /\ got' \in 0 .. 2 * Len(sentLines)
        /\ proxy' \in {"asks", "reads", "closed", "errored"} /\ awaited' \in BOOLEAN
        /\ queue' \in Seq(Tokens) /\ out' \in Seq(Tokens)
    BY <1>0, <1>1, <1>2 DEF StreamTypeOK
  <2> QED BY <1>0, <1>1, <2>1, ProxyTyped
<1>4. Answer' = Answer
  <2>1. PICK g \in 0 .. 2 * Len(sentLines) : g = got /\ got' = g
    BY <1>1, <1>2
  <2>2. Answer = AnswerFor(g \div 2, proxy = "closed", BodyPieces)
    BY <1>2, <2>1, AnswerNow
  <2>3. Answer' = AnswerFor(g \div 2, proxy' = "closed", BodyPieces')
    BY <1>1, <1>2, <2>1, AnswerNext
  <2>4. CASE proxy # "closed"
    <3>1. AnswerFor(g \div 2, FALSE, BodyPieces) = AnswerFor(g \div 2, FALSE, BodyPieces')
      BY Zenon DEF AnswerFor
    <3> QED BY <1>1, <2>2, <2>3, <2>4, <3>1
  <2>5. CASE proxy = "closed"
    <3>1. sentLines # <<"json">>
      BY <1>0, <1>1, <2>5 DEF StreamInvRest
    <3>2. BodyPieces = <<>> /\ BodyPieces' = <<>>
      BY <1>1, <3>1 DEF BodyPieces
    <3> QED BY <1>1, <2>2, <2>3, <3>2
  <2> QED BY <2>4, <2>5
<1>5. \E consumed, rest \in Seq(Tokens) : Carried(consumed, rest)'
  <2>1. proxy' # "errored" => proxy # "errored" /\ queue' = queue
    BY <1>1
  <2>2. UNCHANGED <<out, clientVars>>
    BY <1>1
  <2> QED BY <1>4, <2>1, <2>2, SilenceCarries
<1>6. /\ proxy' = "asks" => proxy = "asks"
      /\ awaited' => queue' = <<>>
      /\ proxy' = "errored" => queue' = <<>>
      /\ proxy' = "closed" => upstream' # "open"
      /\ client = "ended" => proxy' = "closed" /\ queue' = <<>> /\ out' = <<>>
  BY <1>0, <1>1 DEF StreamInvRest
<1>7. proxy' \in {"asks", "reads"} => \A i \in 1 .. got' \div 2 : sentLines[i] # "done"
  BY <1>0, <1>1 DEF StreamInvRest
<1>8. UNCHANGED <<endpoint, enabled, sentLines, clientVars>>
  BY <1>1
<1> QED BY <1>3, <1>5, <1>6, <1>7, <1>8, ProxyStepKeeps

LEMMA AskAgentKeeps ==
    ASSUME StreamInv, NEW ok \in BOOLEAN, AskAgent(ok)
    PROVE  StreamInv'
<1>0. StreamInvRest /\ StreamTypeOK /\ StreamTypes
  BY TypesOfStream DEF StreamInv, StreamInvRest
<1>1. UNCHANGED <<endpoint, enabled, sentLines, upstream, got, queue, awaited, out, clientVars>>
      /\ proxy' \in {"reads", "errored"} /\ proxy = "asks"
  BY DEF AskAgent, upstreamVars
<1>2. sentLines = <<>> /\ got = 0
  <2>1. sentLines = <<>> /\ got \in 0 .. 2 * Len(sentLines)
    BY <1>0, <1>1 DEF StreamInvRest, StreamTypes
  <2> QED BY <2>1
<1>3. /\ queue \in Seq(Tokens) /\ out \in Seq(Tokens) /\ awaited \in BOOLEAN /\ sentLines \in Seq(Kinds)
  BY <1>0 DEF StreamTypes
<1>4. PICK g \in 0 .. 2 * Len(sentLines) : g = got /\ got' = g /\ g \div 2 = 0
  BY <1>1, <1>2
<1>5. ~DoneBy(0) /\ PiecesOfLines(1, 0) = <<>>
  <2>1. PiecesOfLines(0 + 1, 0) = <<>>
    BY NoLinesNoPieces
  <2> QED BY <2>1 DEF DoneBy
<1>6. Answer = <<>>
  BY <1>0, <1>1, <1>4, <1>5, AnswerWhileReading
<1>7. Answer' = <<>>
  <2>1. Answer' = AnswerFor(0, proxy' = "closed", BodyPieces')
    BY <1>1, <1>3, <1>4, AnswerNext
  <2>2. Answer' = AnswerFor(0, FALSE, BodyPieces')
    BY <1>1, <2>1
  <2> QED BY <1>5, <2>2, Zenon DEF AnswerFor
<1>8. queue = <<>>
  BY <1>1, <1>6, NothingAnswered
<1>9. StreamTypeOK'
  <2>1. /\ upstream' \in {"open", "ended", "broken"} /\ got' \in 0 .. 2 * Len(sentLines)
        /\ proxy' \in {"asks", "reads", "closed", "errored"} /\ awaited' \in BOOLEAN
        /\ queue' \in Seq(Tokens) /\ out' \in Seq(Tokens)
    BY <1>0, <1>1, <1>3, <1>4 DEF StreamTypeOK
  <2>2. UNCHANGED <<endpoint, enabled, sentLines, clientVars>>
    BY <1>1
  <2> QED BY <1>0, <2>1, <2>2, ProxyTyped
<1>10. \E consumed, rest \in Seq(Tokens) : Carried(consumed, rest)'
  <2>1. proxy' # "errored" => proxy # "errored" /\ queue' = queue
    BY <1>1
  <2>2. UNCHANGED <<out, clientVars>> /\ Answer' = Answer
    BY <1>1, <1>6, <1>7
  <2> QED BY <2>1, <2>2, SilenceCarries
<1>11. /\ proxy' = "asks" => proxy = "asks"
       /\ awaited' => queue' = <<>>
       /\ proxy' = "errored" => queue' = <<>>
       /\ proxy' = "closed" => upstream' # "open"
       /\ client = "ended" => proxy' = "closed" /\ queue' = <<>> /\ out' = <<>>
  BY <1>0, <1>1, <1>8 DEF StreamInvRest
<1>12. \A i \in 1 .. got' \div 2 : sentLines[i] # "done"
  BY <1>4
<1>13. UNCHANGED <<endpoint, enabled, sentLines, clientVars>>
  BY <1>1
<1> QED BY <1>9, <1>10, <1>11, <1>12, <1>13, ProxyStepKeeps

LEMMA WrapperReadsKeeps ==
    ASSUME StreamInv, WrapperReads
    PROVE  StreamInv'
<1>0. StreamInvRest /\ StreamTypeOK /\ StreamTypes
  BY TypesOfStream DEF StreamInv, StreamInvRest
<1>1. UNCHANGED <<endpoint, enabled, sentLines, upstream, got, proxy, clientVars>>
      /\ proxy \in {"reads", "closed"}
  BY DEF WrapperReads, upstreamVars
<1>2. /\ queue \in Seq(Tokens) /\ out \in Seq(Tokens) /\ partial \in Seq(Tokens)
      /\ sentLines \in Seq(Kinds) /\ got \in 0 .. 2 * Len(sentLines)
  BY <1>0 DEF StreamTypes
<1>3. Answer' = Answer
  <2>1. PICK g \in 0 .. 2 * Len(sentLines) : g = got /\ got' = g
    BY <1>1, <1>2
  <2>2. Answer = AnswerFor(g \div 2, proxy = "closed", BodyPieces)
    BY <1>2, <2>1, AnswerNow
  <2>3. Answer' = AnswerFor(g \div 2, proxy' = "closed", BodyPieces')
    BY <1>1, <1>2, <2>1, AnswerNext
  <2>4. BodyPieces' = BodyPieces
    BY <1>1 DEF BodyPieces, Piece
  <2> QED BY <1>1, <2>2, <2>3, <2>4
<1>4. Sends(<<>>, queue')
  <2>1. CASE queue = <<>>
    <3>1. queue' = queue /\ out' = out /\ awaited' = TRUE
      BY <2>1 DEF WrapperReads
    <3>2. <<>> \in Seq(Tokens) /\ queue \o <<>> = queue
      BY <1>2, ConcatEmptySeq
    <3>3. ASSUME NEW c \in Seq(Tokens), NEW h \in Seq(Tokens)
          PROVE  Whole(c, h, out', queue') = Whole(c, h, out, queue) \o BytesOf(<<>>)
      <4>1. QueuedMore(c, h, out, queue, <<>>)
        BY <1>2, <3>2, WholeMore
      <4> QED BY <3>1, <3>2, <4>1, Zenon DEF QueuedMore
    <3>4. queue' \in Seq(Tokens) /\ out' \in Seq(Tokens) /\ awaited' \in BOOLEAN
          /\ (awaited' => queue' = <<>>) /\ (proxy' = "errored" => queue' = <<>>)
      BY <1>2, <2>1, <3>1
    <3> QED BY <3>3, <3>4 DEF Sends
  <2>2. CASE queue # <<>>
    <3> DEFINE x == queue[1]
               t == Tail(queue)
               p == <<x>>
    <3>1. x \in Tokens /\ p \in Seq(Tokens) /\ t \in Seq(Tokens) /\ queue = p \o t
      BY <1>2, <2>2, HeadAndTail
    <3>2. queue' = t /\ out' = out \o Bytes(x) /\ awaited' = FALSE
      BY <2>2 DEF WrapperReads
    <3> HIDE DEF x, t
    <3>3. BytesOf(p) = Bytes(x) /\ Bytes(x) \in Seq(Tokens)
      BY <3>1, BytesOfOne, TokenBytes
    <3> HIDE DEF p
    <3>4. out' \in Seq(Tokens)
      BY <1>2, <3>2, <3>3, ConcatProperties
    <3>5. ASSUME NEW c \in Seq(Tokens), NEW h \in Seq(Tokens)
          PROVE  Whole(c, h, out', queue') = Whole(c, h, out, queue) \o BytesOf(<<>>)
      <4>1. Whole(c, h, out \o BytesOf(p), t) = Whole(c, h, out, p \o t)
        BY <1>2, <3>1, WholeMore
      <4>2. Whole(c, h, out, queue) \in Seq(Tokens)
        BY <1>2, WholeType
      <4>3. Whole(c, h, out, queue) \o BytesOf(<<>>) = Whole(c, h, out, queue)
        BY <4>2, BytesOfEmpty, ConcatEmptySeq
      <4> QED BY <3>1, <3>2, <3>3, <4>1, <4>3
    <3>6. proxy' # "errored"
      BY <1>1
    <3> QED BY <3>1, <3>2, <3>4, <3>5, <3>6 DEF Sends
  <2> QED BY <2>1, <2>2
<1>5. queue' \in Seq(Tokens) /\ out' \in Seq(Tokens) /\ awaited' \in BOOLEAN /\ (awaited' => queue' = <<>>)
  BY <1>4 DEF Sends
<1>6. \E consumed, rest \in Seq(Tokens) : Carried(consumed, rest)'
  <2>1. Answer' = Answer \o <<>> /\ <<>> \in Seq(Tokens)
    BY <1>0, <1>3, AnswerType, ConcatEmptySeq
  <2>2. proxy # "errored" /\ UNCHANGED clientVars
    BY <1>1
  <2> QED BY <1>4, <1>5, <2>1, <2>2, SendingCarries
<1>7. StreamTypeOK'
  <2>1. /\ upstream' \in {"open", "ended", "broken"} /\ got' \in 0 .. 2 * Len(sentLines)
        /\ proxy' \in {"asks", "reads", "closed", "errored"}
    BY <1>0, <1>1, <1>2 DEF StreamTypeOK
  <2>2. UNCHANGED <<endpoint, enabled, sentLines, clientVars>>
    BY <1>1
  <2> QED BY <1>0, <1>5, <2>1, <2>2, ProxyTyped
<1>8. /\ proxy' = "asks" => proxy = "asks"
      /\ proxy' = "errored" => queue' = <<>>
      /\ proxy' = "closed" => upstream' # "open" \/ \E i \in DOMAIN sentLines : sentLines[i] = "done"
      /\ proxy' \in {"asks", "reads"} => \A i \in 1 .. got' \div 2 : sentLines[i] # "done"
  BY <1>0, <1>1 DEF StreamInvRest
<1>9. client # "ended"
  <2>1. client = "ended" => proxy = "closed" /\ queue = <<>>
    BY <1>0 DEF StreamInvRest
  <2> QED BY <2>1 DEF WrapperReads
<1>10. UNCHANGED <<endpoint, enabled, sentLines, clientVars>>
  BY <1>1
<1> QED BY <1>5, <1>6, <1>7, <1>8, <1>9, <1>10, ProxyStepKeeps

\* What a read of the response sends, and the answer it leaves.
ReadSends(to, pieces, sends) ==
    /\ pieces \in Seq(Tokens)
    /\ IF sends THEN Enqueue(pieces) /\ proxy' = proxy /\ ~DoneBy(to \div 2)
       ELSE CloseThenFail(pieces) /\ DoneBy(Len(sentLines))
    /\ Answer' = Answer \o pieces

\* What the proxy sends is what the lines it read say.
LEMMA ReadAnswers ==
    ASSUME StreamInv, NEW to \in 1 .. 2 * MaxLines, ProxyReads(to)
    PROVE  \E pieces : \E sends \in BOOLEAN : ReadSends(to, pieces, sends)
<1>0. StreamInvRest /\ StreamTypeOK /\ StreamTypes
  BY TypesOfStream DEF StreamInv, StreamInvRest
<1>1. /\ sentLines \in Seq(Kinds) /\ Len(sentLines) <= MaxLines /\ Len(sentLines) \in Nat
      /\ got \in 0 .. 2 * Len(sentLines) /\ MaxLines \in Nat
  BY <1>0, StreamConstants DEF StreamTypes
<1>2. /\ proxy = "reads" /\ Streaming /\ to \in got + 1 .. 2 * Len(sentLines) /\ got' = to
      /\ UNCHANGED <<endpoint, enabled, sentLines, upstream>>
  BY DEF ProxyReads, upstreamVars
<1>3. PICK u \in 0 .. Len(sentLines) : u = got \div 2 /\ \A i \in Nat : 2 * i > got <=> i > u
  BY <1>1, HalfLines DEF Halves
<1>4. PICK v \in u .. Len(sentLines) : v = to \div 2
  <2>1. to \in 0 .. 2 * Len(sentLines) /\ got <= to
    BY <1>1, <1>2
  <2>2. to \div 2 \in 0 .. Len(sentLines)
    BY <1>1, <2>1, HalfLines DEF Halves
  <2>3. got \div 2 <= to \div 2
    BY <1>1, <2>1
  <2> QED BY <1>3, <2>2, <2>3
<1> DEFINE lines == LinesOf(to)
           done == {n \in lines : sentLines[n] = "done"}
           last == IF done = {} THEN v ELSE Min(done) - 1
           pieces == IF lines = {} THEN <<>> ELSE PiecesOfLines(Min(lines), last)
<1>5. lines = u + 1 .. v
  BY <1>1, <1>3, <1>4 DEF LinesOf
<1>6. IF done = {} THEN Enqueue(pieces) /\ proxy' = proxy ELSE CloseThenFail(pieces)
  BY <1>4 DEF ProxyReads
<1>7. \A i \in 1 .. u : sentLines[i] # "done"
  BY <1>0, <1>2, <1>3 DEF StreamInvRest
<1>8. Answer = PiecesOfLines(1, u)
  <2>1. ~DoneBy(u)
    BY <1>7 DEF DoneBy
  <2> QED BY <1>0, <1>2, <1>3, <2>1, AnswerWhileReading
<1>9. Answer' = AnswerFor(v, proxy' = "closed", BodyPieces')
  BY <1>1, <1>2, <1>4, AnswerNext
<1>10. u \in Nat /\ v \in Nat /\ u <= v /\ v <= Len(sentLines)
  BY <1>3, <1>4
<1>11. lines # {} => Min(lines) = u + 1
  <2> SUFFICES ASSUME lines # {} PROVE Min(lines) = u + 1
    OBVIOUS
  <2>1. lines \in SUBSET Nat /\ u + 1 \in lines
    BY <1>5, <1>10
  <2> HIDE DEF lines
  <2>2. Min(lines) \in lines /\ \A k \in lines : Min(lines) <= k
    BY <2>1, LeastIs
  <2> QED BY <1>5, <1>10, <2>1, <2>2
<1>12. \A w \in u .. v : PiecesOfLines(u + 1, w) \in Seq(Tokens)
         /\ PiecesOfLines(1, w) = PiecesOfLines(1, u) \o PiecesOfLines(u + 1, w)
  <2> SUFFICES ASSUME NEW w \in u .. v
               PROVE  PiecesOfLines(u + 1, w) \in Seq(Tokens)
                      /\ PiecesOfLines(1, w) = PiecesOfLines(1, u) \o PiecesOfLines(u + 1, w)
    OBVIOUS
  <2> DEFINE f == u + 1
  <2>1. f \in Nat \ {0} /\ w \in 0 .. Len(sentLines) /\ f <= w + 1 /\ w \in u .. Len(sentLines)
    BY <1>1, <1>10
  <2> HIDE DEF f
  <2>2. PiecesOfLines(f, w) \in Seq(Tokens)
    BY <1>1, <2>1, PiecesOfLinesType
  <2>3. PiecesOfLines(1, w) = PiecesOfLines(1, u) \o PiecesOfLines(u + 1, w)
    BY <1>1, <2>1, PiecesOfLinesSplit
  <2> QED BY <2>2, <2>3 DEF f
<1>13. CASE done = {}
  <2>1. ~DoneBy(v)
    <3>1. \A n \in u + 1 .. v : sentLines[n] # "done"
      BY <1>5, <1>13
    <3>2. \A n \in 1 .. v : n \in 1 .. u \/ n \in u + 1 .. v
      BY <1>10
    <3> QED BY <1>7, <3>1, <3>2 DEF DoneBy
  <2>2. pieces = PiecesOfLines(u + 1, v)
    <3>1. CASE lines = {}
      <4>3. u + 1 \notin u + 1 .. v
        BY <1>5, <3>1
      <4>1. v = u
        BY <1>10, <4>3
      <4>2. PiecesOfLines(u + 1, u) = <<>>
        BY <1>10, NoLinesNoPieces
      <4> QED BY <3>1, <4>1, <4>2
    <3>2. CASE lines # {}
      BY <1>11, <1>13, <3>2
    <3> QED BY <3>1, <3>2
  <2>3. Enqueue(pieces) /\ proxy' = proxy
    BY <1>6, <1>13
  <2> HIDE DEF pieces, done, last
  <2>4. Answer' = PiecesOfLines(1, v)
    <3>1. Answer' = AnswerFor(v, FALSE, BodyPieces')
      BY <1>2, <1>9, <2>3
    <3> QED BY <1>2, <2>1, <3>1, Zenon DEF AnswerFor
  <2>5. pieces \in Seq(Tokens) /\ Answer' = Answer \o pieces
    <3>1. v \in u .. v
      BY <1>10
    <3> QED BY <1>8, <1>12, <2>2, <2>4, <3>1
  <2>6. ReadSends(to, pieces, TRUE)
    BY <1>4, <2>1, <2>3, <2>5 DEF ReadSends
  <2> QED BY <2>6
<1>14. CASE done # {}
  <2>1. PICK d \in lines : sentLines[d] = "done"
    BY <1>14
  <2>2. d \in 1 .. v /\ d \in u + 1 .. v /\ d = Len(sentLines) /\ d = v
    <3>1. d \in u + 1 .. v
      BY <1>5, <2>1
    <3>2. d \in 1 .. Len(sentLines) /\ DOMAIN sentLines = 1 .. Len(sentLines)
      BY <1>1, <1>10, <3>1
    <3>3. d = Len(sentLines)
      BY <1>0, <2>1, <3>2 DEF StreamInvRest, DoneIsLast
    <3> QED BY <1>10, <3>1, <3>3
  <2>3. Min(done) = v
    <3>1. \A n \in done : n = v
      <4> SUFFICES ASSUME NEW n \in done PROVE n = v
        OBVIOUS
      <4>1. n \in u + 1 .. v /\ sentLines[n] = "done"
        BY <1>5
      <4>2. n \in DOMAIN sentLines
        BY <1>1, <1>10, <4>1
      <4>3. n = Len(sentLines)
        BY <1>0, <4>1, <4>2 DEF StreamInvRest, DoneIsLast
      <4> QED BY <2>2, <4>3
    <3>2. done \in SUBSET Nat
      BY <1>10, <3>1
    <3> HIDE DEF done
    <3>3. Min(done) \in done
      BY <1>14, <3>2, LeastIs
    <3> QED BY <3>1, <3>3
  <2>4. pieces = PiecesOfLines(u + 1, v - 1)
    BY <1>11, <1>14, <2>1, <2>3
  <2>5. CloseThenFail(pieces)
    BY <1>6, <1>14
  <2> HIDE DEF pieces, done, last, lines
  <2>6. DoneBy(v)
    BY <2>1, <2>2 DEF DoneBy
  <2>7. BodyPieces' = <<>>
    <3>1. ASSUME sentLines = <<"json">> PROVE FALSE
      <4>2. Len(<<"json">>) = 1 /\ <<"json">>[1] = "json"
        OBVIOUS
      <4>1. d = 1 /\ sentLines[d] = "json"
        BY <2>2, <3>1, <4>2, Zenon
      <4> QED BY <2>1, <4>1
    <3> QED BY <1>2, <3>1 DEF BodyPieces
  <2>8. Answer' = PiecesOfLines(1, v - 1)
    BY <1>2, <1>9, <2>6, <2>7, Zenon DEF AnswerFor
  <2>9. v - 1 \in u .. v
    BY <1>10, <2>2
  <2>10. pieces \in Seq(Tokens) /\ Answer' = Answer \o pieces
    BY <1>8, <1>12, <2>4, <2>8, <2>9
  <2>11. DoneBy(Len(sentLines))
    BY <2>2, <2>6
  <2>12. ReadSends(to, pieces, FALSE)
    BY <2>5, <2>10, <2>11 DEF ReadSends
  <2> QED BY <2>12
<1> QED BY <1>13, <1>14

LEMMA ProxyReadsKeeps ==
    ASSUME StreamInv, NEW to \in 1 .. 2 * MaxLines, ProxyReads(to)
    PROVE  StreamInv'
<1>0. StreamInvRest /\ StreamTypeOK /\ StreamTypes
  BY TypesOfStream DEF StreamInv, StreamInvRest
<1>1. /\ proxy = "reads" /\ got' = to /\ to \in got + 1 .. 2 * Len(sentLines)
      /\ UNCHANGED <<endpoint, enabled, sentLines, upstream, clientVars>>
  BY DEF ProxyReads, upstreamVars
<1>2. PICK pieces : \E sends \in BOOLEAN : ReadSends(to, pieces, sends)
  BY ReadAnswers
<1>3. PICK sends \in BOOLEAN : ReadSends(to, pieces, sends)
  BY <1>2
<1>4. pieces \in Seq(Tokens) /\ Answer' = Answer \o pieces
  BY <1>3 DEF ReadSends
<1>5. PICK r \in Seq(Tokens) : Sends(pieces, r)
  <2>1. CASE sends
    <3>1. Enqueue(pieces) /\ proxy' = proxy
      BY <1>3, <2>1 DEF ReadSends
    <3>2. awaited => queue = <<>>
      BY <1>0 DEF StreamInvRest
    <3>3. Sends(pieces, queue')
      BY <1>0, <1>1, <1>4, <3>1, <3>2, EnqueueSends
    <3> QED BY <3>3 DEF Sends
  <2>2. CASE ~sends
    BY <1>0, <1>3, <1>4, <2>2, CloseSends DEF ReadSends
  <2> QED BY <2>1, <2>2
<1>6. /\ proxy' \in {"reads", "closed", "errored"}
      /\ proxy' = "reads" => ~DoneBy(to \div 2)
      /\ proxy' = "closed" => DoneBy(Len(sentLines))
  <2>1. CASE sends
    BY <1>1, <1>3, <2>1 DEF ReadSends
  <2>2. CASE ~sends
    <3>1. proxy' \in {"closed", "errored"}
      BY <1>0, <1>3, <1>4, <2>2, CloseSends DEF ReadSends
    <3>2. DoneBy(Len(sentLines))
      BY <1>3, <2>2 DEF ReadSends
    <3> QED BY <3>1, <3>2
  <2> QED BY <2>1, <2>2
<1>7. queue' \in Seq(Tokens) /\ out' \in Seq(Tokens) /\ awaited' \in BOOLEAN /\ (awaited' => queue' = <<>>)
      /\ (proxy' = "errored" => queue' = <<>>)
  BY <1>5 DEF Sends
<1>8. \E consumed, rest \in Seq(Tokens) : Carried(consumed, rest)'
  BY <1>1, <1>4, <1>5, SendingCarries
<1>9. StreamTypeOK'
  <2>1. upstream' \in {"open", "ended", "broken"} /\ got' \in 0 .. 2 * Len(sentLines)
        /\ proxy' \in {"asks", "reads", "closed", "errored"}
    <3>1. got \in 0 .. 2 * Len(sentLines) /\ Len(sentLines) \in Nat
            /\ upstream \in {"open", "ended", "broken"}
      BY <1>0 DEF StreamTypes, StreamTypeOK
    <3> QED BY <1>1, <1>6, <3>1
  <2>2. UNCHANGED <<endpoint, enabled, sentLines, clientVars>>
    BY <1>1
  <2> QED BY <1>0, <1>7, <2>1, <2>2, ProxyTyped
<1>10. /\ proxy' = "asks" => proxy = "asks"
       /\ proxy' \in {"asks", "reads"} => \A i \in 1 .. got' \div 2 : sentLines[i] # "done"
  BY <1>1, <1>6 DEF DoneBy
<1>11. proxy' = "closed" => \E i \in DOMAIN sentLines : sentLines[i] = "done"
  <2>1. sentLines \in Seq(Kinds)
    BY <1>0 DEF StreamTypes
  <2>2. DOMAIN sentLines = 1 .. Len(sentLines)
    BY <2>1
  <2> QED BY <1>6, <2>2 DEF DoneBy
<1>12. client # "ended"
  BY <1>0, <1>1 DEF StreamInvRest
<1>13. UNCHANGED <<endpoint, enabled, sentLines, clientVars>>
  BY <1>1
<1> QED BY <1>7, <1>8, <1>9, <1>10, <1>11, <1>12, <1>13, ProxyStepKeeps

LEMMA ProxyFinishesKeeps ==
    ASSUME StreamInv, ProxyFinishes
    PROVE  StreamInv'
<1>0. StreamInvRest /\ StreamTypeOK /\ StreamTypes
  BY TypesOfStream DEF StreamInv, StreamInvRest
<1>1. /\ proxy = "reads" /\ Streaming /\ upstream # "open"
      /\ UNCHANGED <<endpoint, enabled, sentLines, upstream, got, clientVars>>
  BY DEF ProxyFinishes, upstreamVars
<1>2. /\ sentLines \in Seq(Kinds) /\ got \in 0 .. 2 * Len(sentLines) /\ Len(sentLines) \in Nat
      /\ queue \in Seq(Tokens) /\ out \in Seq(Tokens) /\ partial \in Seq(Tokens)
  BY <1>0 DEF StreamTypes
<1>3. PICK g \in 0 .. 2 * Len(sentLines) : g = got /\ got' = g
  BY <1>1, <1>2
<1>4. PICK u \in 0 .. Len(sentLines) : u = g \div 2
  BY <1>2, HalfLines DEF Halves
<1>5. ~DoneBy(u)
  BY <1>0, <1>1, <1>3, <1>4 DEF StreamInvRest, DoneBy
<1>6. Answer = PiecesOfLines(1, u)
  BY <1>0, <1>1, <1>3, <1>4, <1>5, AnswerWhileReading
<1>7. BodyPieces' = BodyPieces
  BY <1>1 DEF BodyPieces, Piece
<1>8. Answer' = IF proxy' = "closed" /\ BodyPieces # <<>> THEN BodyPieces ELSE Answer
  <2>1. Answer' = AnswerFor(u, proxy' = "closed", BodyPieces)
    BY <1>1, <1>2, <1>3, <1>4, <1>7, AnswerNext
  <2> QED BY <1>1, <1>5, <1>6, <2>1, Zenon DEF AnswerFor
<1>9. Answer \in Seq(Tokens) /\ BodyPieces \in Seq(Tokens)
  BY <1>0, AnswerType, BodyType
<1>10. BodyPieces # <<>> => Answer = <<>>
  <2> SUFFICES ASSUME BodyPieces # <<>> PROVE Answer = <<>>
    OBVIOUS
  <2>1. sentLines = <<"json">>
    BY <1>0, BodyType
  <2>2. Len(<<"json">>) = 1 /\ <<"json">>[1] = "json"
    OBVIOUS
  <2>3. u = 0 \/ u = 1
    BY <2>1, <2>2
  <2>4. CASE u = 0
    <3>1. PiecesOfLines(0 + 1, 0) = <<>>
      BY NoLinesNoPieces
    <3> QED BY <1>6, <2>4, <3>1
  <2>5. CASE u = 1
    <3>1. PiecesOf(1) = <<>>
      BY <2>1, <2>2 DEF PiecesOf
    <3>2. PiecesOfLines(1, 1) = FlattenSeq(<<PiecesOf(1)>>)
      <4>1. PieceList(1, 1) = <<PiecesOf(1)>>
        BY DEF PieceList
      <4> QED BY <4>1, Zenon DEF PiecesOfLines, PieceList
    <3>3. <<>> \in Seq(Tokens)
      OBVIOUS
    <3>4. FlattenSeq(<<PiecesOf(1)>>) = <<>>
      BY <3>1, <3>3, FlattenOne
    <3> QED BY <1>6, <2>5, <3>2, <3>4
  <2> QED BY <2>3, <2>4, <2>5
<1>11. proxy' = "closed" => Answer' = Answer \o BodyPieces
  <2> SUFFICES ASSUME proxy' = "closed" PROVE Answer' = Answer \o BodyPieces
    OBVIOUS
  <2>1. CASE BodyPieces = <<>>
    <3>1. Answer' = Answer
      BY <1>8, <2>1
    <3>2. Answer \o <<>> = Answer
      BY <1>9, ConcatEmptySeq
    <3> QED BY <2>1, <3>1, <3>2
  <2>2. CASE BodyPieces # <<>>
    <3>1. <<>> \o BodyPieces = BodyPieces
      BY <1>9, ConcatEmptySeq
    <3> QED BY <1>8, <1>10, <2>2, <3>1
  <2> QED BY <2>1, <2>2
<1>12. IF upstream = "broken" THEN CloseThenFail(BodyPieces) ELSE proxy' = "closed" /\ Enqueue(BodyPieces)
  BY DEF ProxyFinishes
<1>13. proxy' \in {"closed", "errored"} /\ \E r \in Seq(Tokens) : Sends(BodyPieces, r)
  <2>1. CASE upstream = "broken"
    BY <1>0, <1>9, <1>12, <2>1, CloseSends
  <2>2. CASE upstream # "broken"
    <3>1. awaited => queue = <<>>
      BY <1>0 DEF StreamInvRest
    <3>2. proxy' = "closed" /\ Enqueue(BodyPieces)
      BY <1>12, <2>2
    <3>3. Sends(BodyPieces, queue')
      BY <1>0, <1>1, <1>9, <3>1, <3>2, EnqueueSends
    <3> QED BY <3>2, <3>3 DEF Sends
  <2> QED BY <2>1, <2>2
<1>14. PICK r \in Seq(Tokens) : Sends(BodyPieces, r)
  BY <1>13
<1>15. queue' \in Seq(Tokens) /\ out' \in Seq(Tokens) /\ awaited' \in BOOLEAN /\ (awaited' => queue' = <<>>)
       /\ (proxy' = "errored" => queue' = <<>>)
  BY <1>14 DEF Sends
<1>16. \E consumed, rest \in Seq(Tokens) : Carried(consumed, rest)'
  <2>1. CASE proxy' = "closed"
    BY <1>1, <1>9, <1>11, <1>14, <2>1, SendingCarries
  <2>2. CASE proxy' = "errored" /\ BodyPieces = <<>>
    <3>1. Answer' = Answer
      BY <1>8, <2>2
    <3>2. Answer \o <<>> = Answer
      BY <1>9, ConcatEmptySeq
    <3> QED BY <1>1, <1>9, <1>14, <2>2, <3>1, <3>2, SendingCarries
  <2>3. CASE proxy' = "errored" /\ BodyPieces # <<>>
    <3>1. Answer = <<>> /\ Answer' = <<>>
      BY <1>8, <1>10, <2>3
    <3>2. out = <<>> /\ queue = <<>> /\ partial = <<>> /\ Carried(<<>>, <<>>)
      BY <1>1, <3>1, NothingAnswered
    <3>3. CloseThenFail(BodyPieces)
      BY <1>12, <2>3
    <3> DEFINE all == queue \o BodyPieces
    <3>4. PICK k \in 0 .. Len(all) : proxy' = (IF k = Len(all) THEN "closed" ELSE "errored")
                                     /\ out' = out \o BytesOf(SubSeq(all, 1, k))
      BY <3>3 DEF CloseThenFail
    <3>5. all = BodyPieces /\ BodyPieces = <<Piece("text", 1)>>
      BY <1>0, <1>9, <2>3, <3>2, BodyType, ConcatEmptySeq
    <3>6. Len(all) = 1
      BY <3>5
    <3> HIDE DEF all
    <3>7. k = 0
      BY <2>3, <3>4, <3>6
    <3>8. SubSeq(all, 1, 0) = <<>>
      <4>1. all \in Seq(Tokens)
        BY <1>9, <3>5
      <4> QED BY <4>1
    <3>9. <<>> \o <<>> = <<>> /\ <<>> \in Seq(Tokens)
      BY ConcatEmptySeq
    <3>10. out' = <<>>
      BY <3>2, <3>4, <3>7, <3>8, <3>9, BytesOfEmpty
    <3>11. Carried(<<>>, <<>>)'
      BY <1>1, <2>3, <3>1, <3>2, <3>10 DEF Carried, clientVars
    <3> QED BY <3>9, <3>11
  <2> QED BY <1>13, <2>1, <2>2, <2>3
<1>17. StreamTypeOK'
  <2>1. upstream' \in {"open", "ended", "broken"} /\ got' \in 0 .. 2 * Len(sentLines)
        /\ proxy' \in {"asks", "reads", "closed", "errored"}
    BY <1>0, <1>1, <1>3, <1>13 DEF StreamTypeOK
  <2>2. UNCHANGED <<endpoint, enabled, sentLines, clientVars>>
    BY <1>1
  <2> QED BY <1>0, <1>15, <2>1, <2>2, ProxyTyped
<1>18. client # "ended"
  BY <1>0, <1>1 DEF StreamInvRest
<1>19. /\ proxy' \notin {"asks", "reads"}
       /\ upstream' # "open"
       /\ UNCHANGED <<endpoint, enabled, sentLines, clientVars>>
  BY <1>1, <1>13
<1> QED BY <1>15, <1>16, <1>17, <1>18, <1>19, ProxyStepKeeps

LEMMA ProxyTakesBodyKeeps ==
    ASSUME StreamInv, ProxyTakesBody
    PROVE  StreamInv'
<1>0. StreamInvRest /\ StreamTypeOK /\ StreamTypes
  BY TypesOfStream DEF StreamInv, StreamInvRest
<1>1. /\ proxy = "reads" /\ ~Streaming /\ upstream # "open" /\ got' = 2 * Len(sentLines)
      /\ UNCHANGED <<endpoint, enabled, sentLines, upstream, clientVars>>
  BY DEF ProxyTakesBody, upstreamVars
<1>2. /\ sentLines \in Seq(Kinds) /\ got \in 0 .. 2 * Len(sentLines) /\ Len(sentLines) \in Nat
      /\ queue \in Seq(Tokens) /\ out \in Seq(Tokens) /\ partial \in Seq(Tokens) /\ awaited \in BOOLEAN
  BY <1>0 DEF StreamTypes
<1>3. PICK g \in 0 .. 2 * Len(sentLines) : got' = g
  BY <1>1, <1>2
<1>4. Answer = <<>>
  <2>1. Answer = AnswerFor(got \div 2, FALSE, BodyPieces)
    BY <1>1, <1>2, AnswerNow
  <2> QED BY <1>1, <2>1, Zenon DEF AnswerFor
<1>5. Answer' = IF proxy' = "closed" THEN <<Piece("text", 0)>> ELSE <<>>
  <2>1. Answer' = AnswerFor(g \div 2, proxy' = "closed", BodyPieces')
    BY <1>1, <1>2, <1>3, AnswerNext
  <2> QED BY <1>1, <2>1, Zenon DEF AnswerFor
<1>6. out = <<>> /\ queue = <<>> /\ partial = <<>> /\ Carried(<<>>, <<>>)
  BY <1>1, <1>4, NothingAnswered
<1> DEFINE one == <<Piece("text", 0)>>
<1>7. one \in Seq(Tokens) /\ <<>> \in Seq(Tokens) /\ <<>> \o one = one
  <2>1. MaxLines \in Nat /\ 0 \in 0 .. MaxLines
    BY StreamConstants
  <2>2. one \in Seq(Tokens)
    BY <2>1, PieceType
  <2> HIDE DEF one
  <2> QED BY <2>2, ConcatEmptySeq
<1>8. IF upstream = "broken" THEN proxy' = "errored" /\ UNCHANGED <<queue, awaited, out>>
      ELSE proxy' = "closed" /\ Enqueue(one)
  BY DEF ProxyTakesBody
<1>9. Answer' = IF proxy' = "closed" THEN one ELSE <<>>
  BY <1>5
<1> HIDE DEF one
<1>10. /\ queue' \in Seq(Tokens) /\ out' \in Seq(Tokens) /\ awaited' \in BOOLEAN
            /\ (awaited' => queue' = <<>>)
       /\ (proxy' = "errored" => queue' = <<>>) /\ proxy' \in {"closed", "errored"}
       /\ \E consumed, rest \in Seq(Tokens) : Carried(consumed, rest)'
  <2>1. CASE upstream = "broken"
    <3>1. proxy' = "errored" /\ UNCHANGED <<queue, awaited, out>>
      BY <1>8, <2>1
    <3>2. Answer' = Answer
      BY <1>4, <1>9, <3>1
    <3>3. UNCHANGED <<out, clientVars>> /\ (proxy' # "errored" => proxy # "errored" /\ queue' = queue)
      BY <1>1, <3>1
    <3>4. \E consumed, rest \in Seq(Tokens) : Carried(consumed, rest)'
      BY <3>2, <3>3, SilenceCarries
    <3> QED BY <1>2, <1>6, <1>7, <3>1, <3>4
  <2>2. CASE upstream # "broken"
    <3>1. proxy' = "closed" /\ Enqueue(one)
      BY <1>8, <2>2
    <3>2. awaited => queue = <<>>
      BY <1>6
    <3>3. Sends(one, queue')
      BY <1>0, <1>1, <1>7, <3>1, <3>2, EnqueueSends
    <3>4. Answer' = Answer \o one
      BY <1>4, <1>7, <1>9, <3>1
    <3>5. queue' \in Seq(Tokens) /\ out' \in Seq(Tokens) /\ awaited' \in BOOLEAN
            /\ (awaited' => queue' = <<>>)
      BY <3>3 DEF Sends
    <3>6. \E consumed, rest \in Seq(Tokens) : Carried(consumed, rest)'
      BY <1>1, <1>7, <3>3, <3>4, <3>5, SendingCarries
    <3> QED BY <3>1, <3>5, <3>6
  <2> QED BY <2>1, <2>2
<1>11. StreamTypeOK'
  <2>1. upstream' \in {"open", "ended", "broken"} /\ got' \in 0 .. 2 * Len(sentLines)
        /\ proxy' \in {"asks", "reads", "closed", "errored"}
    BY <1>0, <1>1, <1>3, <1>10 DEF StreamTypeOK
  <2>2. UNCHANGED <<endpoint, enabled, sentLines, clientVars>>
    BY <1>1
  <2> QED BY <1>0, <1>10, <2>1, <2>2, ProxyTyped
<1>12. client # "ended"
  BY <1>0, <1>1 DEF StreamInvRest
<1>13. /\ proxy' \notin {"asks", "reads"}
       /\ upstream' # "open"
       /\ UNCHANGED <<endpoint, enabled, sentLines, clientVars>>
  BY <1>1, <1>10
<1> QED BY <1>10, <1>11, <1>12, <1>13, ProxyStepKeeps

\* What a read takes and what it holds back.
TakenApart(all, value, held) ==
    /\ value \in Seq(Tokens) /\ held \in Seq(Tokens) /\ all = value \o held
    /\ held # <<>> => Len(held) = 1 /\ held[1].kind = "open"

\* What is cut at an open tag is put together again.
LEMMA TagHeldBack ==
    ASSUME NEW all \in Seq(Tokens)
    PROVE  TakenApart(all, IF OpenTag(all) = 0 THEN all ELSE SubSeq(all, 1, OpenTag(all) - 1),
                      IF OpenTag(all) = 0 THEN <<>> ELSE SubSeq(all, OpenTag(all), Len(all)))
<1>1. CASE all # <<>> /\ all[Len(all)].kind = "open"
  <2> DEFINE k == Len(all) - 1
  <2>1. Len(all) \in Nat /\ Len(all) # 0
    BY <1>1, EmptySeq
  <2>2. OpenTag(all) = Len(all)
    BY <1>1 DEF OpenTag
  <2>3. k \in 0 .. Len(all) /\ k + 1 = Len(all)
    BY <2>1
  <2> HIDE DEF k
  <2>4. SplitAt(all, k) /\ SubSeq(all, 1, k) \in Seq(Tokens) /\ SubSeq(all, k + 1, Len(all)) \in Seq(Tokens)
    BY <2>3, CutApart
  <2> DEFINE held == SubSeq(all, Len(all), Len(all))
  <2>5. Len(held) = 1 /\ held[1] = all[Len(all)]
    BY <2>1
  <2>6. all = SubSeq(all, 1, k) \o held /\ held \in Seq(Tokens)
    BY <2>3, <2>4 DEF SplitAt
  <2> HIDE DEF held
  <2>7. TakenApart(all, SubSeq(all, 1, k), held)
    BY <1>1, <2>4, <2>5, <2>6 DEF TakenApart
  <2>8. Len(all) - 1 = k /\ Len(all) # 0
    BY <2>1, <2>3
  <2> QED BY <2>2, <2>7, <2>8 DEF held
<1>2. CASE ~(all # <<>> /\ all[Len(all)].kind = "open")
  <2>1. OpenTag(all) = 0
    BY <1>2 DEF OpenTag
  <2>2. all \o <<>> = all /\ <<>> \in Seq(Tokens)
    BY ConcatEmptySeq
  <2>3. TakenApart(all, all, <<>>)
    BY <2>2 DEF TakenApart
  <2> QED BY <2>1, <2>3
<1> QED BY <1>1, <1>2

\* The answer does not depend on the browser.
LEMMA AnswerStays ==
    ASSUME StreamTypes, UNCHANGED <<upstreamVars, got, proxy>>
    PROVE  Answer' = Answer
<1>1. /\ sentLines \in Seq(Kinds) /\ got \in 0 .. 2 * Len(sentLines)
      /\ UNCHANGED <<endpoint, enabled, sentLines, upstream>>
  BY DEF StreamTypes, upstreamVars
<1>2. PICK g \in 0 .. 2 * Len(sentLines) : g = got /\ got' = g
  BY <1>1
<1>3. Answer = AnswerFor(g \div 2, proxy = "closed", BodyPieces)
  BY <1>1, <1>2, AnswerNow
<1>4. Answer' = AnswerFor(g \div 2, proxy' = "closed", BodyPieces')
  BY <1>1, <1>2, AnswerNext
<1>5. BodyPieces' = BodyPieces
  BY <1>1 DEF BodyPieces, Piece
<1> QED BY <1>3, <1>4, <1>5

ReadGives(c, dispatch, value) ==
    /\ value \in Seq(Tokens)
    /\ TakenApart(partial \o Chunk(c), value, partial')
    /\ answerText' = answerText \o Texts(value)
    /\ IF isFirst \/ dispatch
       THEN /\ message' = [text |-> answerText', steps |-> message.steps \o (pendingSteps \o Steps(value))]
            /\ pendingSteps' = <<>> /\ hasPendingUpdate' = FALSE
       ELSE pendingSteps' = pendingSteps \o Steps(value) /\ hasPendingUpdate' = TRUE /\ message' = message

\* A read of the page takes the head of what is on its way.
LEMMA ReadTakes ==
    ASSUME StreamTypes, NEW c \in 1 .. 2 * MaxLines, NEW dispatch \in BOOLEAN, ClientReads(c, dispatch)
    PROVE  \E value : ReadGives(c, dispatch, value)
<1> DEFINE all == partial \o Chunk(c)
           tag == OpenTag(all)
           value == IF tag = 0 THEN all ELSE SubSeq(all, 1, tag - 1)
<1>1. /\ partial' = IF tag = 0 THEN <<>> ELSE SubSeq(all, tag, Len(all))
      /\ answerText' = answerText \o Texts(value)
      /\ IF isFirst \/ dispatch
         THEN /\ message' = Dispatched(answerText', pendingSteps \o Steps(value))
              /\ pendingSteps' = <<>> /\ hasPendingUpdate' = FALSE
         ELSE pendingSteps' = pendingSteps \o Steps(value) /\ hasPendingUpdate' = TRUE /\ UNCHANGED message
  BY DEF ClientReads
<1>2. all \in Seq(Tokens)
  <2>1. partial \in Seq(Tokens) /\ out \in Seq(Tokens) /\ c \in 0 .. Len(out)
    BY DEF ClientReads, StreamTypes
  <2>2. Chunk(c) \in Seq(Tokens)
    BY <2>1, CutApart DEF Chunk
  <2> QED BY <2>1, <2>2, ConcatProperties
<1> HIDE DEF all
<1>3. TakenApart(all, value, partial')
  BY <1>1, <1>2, TagHeldBack
<1> HIDE DEF value
<1>4. value \in Seq(Tokens)
  BY <1>3 DEF TakenApart
<1>5. ReadGives(c, dispatch, value)
  BY <1>1, <1>3, <1>4 DEF ReadGives, Dispatched, all
<1> QED BY <1>5

LEMMA ClientReadsKeeps ==
    ASSUME StreamInv, NEW c \in 1 .. 2 * MaxLines, NEW dispatch \in BOOLEAN, ClientReads(c, dispatch)
    PROVE  StreamInv'
<1>0. StreamInvRest /\ StreamTypeOK /\ StreamTypes
  BY TypesOfStream DEF StreamInv, StreamInvRest
<1>1. /\ client = "reads" /\ c \in 1 .. Len(out) /\ out' = SubSeq(out, c + 1, Len(out)) /\ isFirst' = FALSE
      /\ UNCHANGED <<upstreamVars, got, proxy, queue, awaited, client>>
  BY DEF ClientReads, proxyVars
<1>2. /\ queue \in Seq(Tokens) /\ out \in Seq(Tokens) /\ partial \in Seq(Tokens)
      /\ answerText \in Seq(Tokens) /\ pendingSteps \in Seq(Tokens)
      /\ message.text \in Seq(Tokens) /\ message.steps \in Seq(Tokens)
  BY <1>0 DEF StreamTypes
<1>3. PICK value : ReadGives(c, dispatch, value)
  BY <1>0, ReadTakes
<1>4. value \in Seq(Tokens) /\ answerText' = answerText \o Texts(value)
  BY <1>3 DEF ReadGives
<1>5. Texts(value) \in Seq(Tokens) /\ Steps(value) \in Seq(Tokens)
  BY <1>4, OfKindType DEF Texts, Steps
<1>6. partial' \in Seq(Tokens) /\ partial \o Chunk(c) = value \o partial'
      /\ (partial' # <<>> => Len(partial') = 1 /\ partial'[1].kind = "open")
  BY <1>3 DEF ReadGives, TakenApart
<1>7. Chunk(c) \in Seq(Tokens) /\ out' \in Seq(Tokens) /\ out = Chunk(c) \o out'
  <2>1. c \in 0 .. Len(out)
    BY <1>1
  <2>2. SplitAt(out, c) /\ SubSeq(out, 1, c) \in Seq(Tokens) /\ SubSeq(out, c + 1, Len(out)) \in Seq(Tokens)
    BY <1>2, <2>1, CutApart
  <2> QED BY <1>1, <2>2 DEF SplitAt, Chunk
<1>8. answerText' \in Seq(Tokens)
  <2> DEFINE t == Texts(value)
  <2>1. t \in Seq(Tokens) /\ answerText' = answerText \o t
    BY <1>4, <1>5
  <2> HIDE DEF t
  <2> QED BY <1>2, <2>1, ConcatProperties
<1> DEFINE steps == pendingSteps \o Steps(value)
           shown == message.steps \o steps
<1>9. steps \in Seq(Tokens) /\ Associates(message.steps, pendingSteps, Steps(value))
  <2> DEFINE t == Steps(value)
             m == message.steps
  <2>1. t \in Seq(Tokens) /\ m \in Seq(Tokens)
    BY <1>2, <1>5
  <2> HIDE DEF t, m
  <2>2. pendingSteps \o t \in Seq(Tokens) /\ Associates(m, pendingSteps, t)
    BY <1>2, <2>1, ConcatProperties, ConcatAssociates
  <2> QED BY <2>2 DEF t, m
<1>10. shown \in Seq(Tokens)
  <2> DEFINE m == message.steps
  <2>1. m \in Seq(Tokens)
    BY <1>2
  <2> HIDE DEF m, steps
  <2>2. m \o steps \in Seq(Tokens)
    BY <1>9, <2>1, ConcatProperties
  <2> QED BY <2>2 DEF m
<1>11. IF isFirst \/ dispatch
       THEN /\ message' = [text |-> answerText', steps |-> shown]
            /\ pendingSteps' = <<>> /\ hasPendingUpdate' = FALSE
       ELSE pendingSteps' = steps /\ hasPendingUpdate' = TRUE /\ message' = message
  BY <1>3 DEF ReadGives
<1>12. shown = (message.steps \o pendingSteps) \o Steps(value)
  BY <1>9, Zenon DEF Associates
<1> HIDE DEF steps, shown
<1>13. StreamTypeOK'
  <2> DEFINE T == Seq(Tokens)
  <2>1. /\ queue' \in T /\ out' \in T /\ partial' \in T /\ answerText' \in T
    BY <1>1, <1>2, <1>6, <1>7, <1>8
  <2>2. <<>> \in T /\ steps \in T /\ shown \in T
    BY <1>9, <1>10
  <2>3. message.text \in T /\ message.steps \in T
    BY <1>2
  <2> HIDE DEF T
  <2>4. pendingSteps' \in T /\ message'.text \in T /\ message'.steps \in T /\ hasPendingUpdate' \in BOOLEAN
    <3>1. CASE isFirst \/ dispatch
      <4>1. message'.text = answerText' /\ message'.steps = shown /\ pendingSteps' = <<>>
        BY <1>11, <3>1
      <4>2. hasPendingUpdate' \in BOOLEAN
        BY <1>11, <3>1
      <4> QED BY <2>1, <2>2, <4>1, <4>2
    <3>2. CASE ~(isFirst \/ dispatch)
      <4>1. message' = message /\ pendingSteps' = steps
        BY <1>11, <3>2
      <4>2. hasPendingUpdate' \in BOOLEAN
        BY <1>11, <3>2
      <4> QED BY <2>2, <2>3, <4>1, <4>2
    <3> QED BY <3>1, <3>2
  <2>5. \A s \in {queue', out', partial', answerText', pendingSteps', message'.text, message'.steps} : s \in T
    BY <2>1, <2>4
  <2>6. /\ endpoint' \in Endpoints /\ enabled' \in BOOLEAN /\ sentLines' \in Seq(Kinds)
             /\ Len(sentLines') <= MaxLines
        /\ upstream' \in {"open", "ended", "broken"} /\ got' \in 0 .. 2 * Len(sentLines')
        /\ proxy' \in {"asks", "reads", "closed", "errored"} /\ awaited' \in BOOLEAN
        /\ client' \in {"reads", "ended", "failed"} /\ isFirst' \in BOOLEAN
    BY <1>0, <1>1 DEF StreamTypeOK, upstreamVars
  <2> QED BY <2>4, <2>5, <2>6 DEF StreamTypeOK, T, Endpoints
<1>14. Extends(message.text, answerText)'
  <2>1. CASE isFirst \/ dispatch
    <3>1. message'.text = answerText'
      BY <1>11, <2>1
    <3>2. answerText' = answerText' \o <<>> /\ <<>> \in Seq(Tokens)
      BY <1>8, ConcatEmptySeq
    <3> QED BY <3>1, <3>2 DEF Extends
  <2>2. CASE ~(isFirst \/ dispatch)
    <3>1. PICK x \in Seq(Tokens) : answerText = message.text \o x
      BY DEF StreamInv, Extends
    <3> DEFINE t == Texts(value)
               m == message.text
    <3>2. t \in Seq(Tokens) /\ m \in Seq(Tokens) /\ answerText' = (m \o x) \o t
      BY <1>2, <1>4, <1>5, <3>1
    <3>3. message'.text = m
      BY <1>11, <2>2
    <3> HIDE DEF t, m
    <3>4. Associates(m, x, t) /\ x \o t \in Seq(Tokens)
      BY <3>2, ConcatAssociates, ConcatProperties
    <3>5. answerText' = m \o (x \o t)
      BY <3>2, <3>4, Zenon DEF Associates
    <3> QED BY <3>3, <3>4, <3>5 DEF Extends
  <2> QED BY <2>1, <2>2
<1>15. \E consumed, rest \in Seq(Tokens) : Carried(consumed, rest)'
  <2>1. PICK d \in Seq(Tokens), rest \in Seq(Tokens) : Carried(d, rest)
    BY DEF StreamInv
  <2>2. /\ Whole(d, partial, out, rest) = BytesOf(Answer)
        /\ proxy # "errored" => rest = queue
        /\ answerText = Texts(d)
        /\ message.steps \o pendingSteps = Steps(d)
    BY <1>1, <2>1 DEF Carried
  <2>3. d \o value \in Seq(Tokens)
    BY <1>4, ConcatProperties
  <2>4. Whole(d \o value, partial', out', rest) = Whole(d, partial, Chunk(c) \o out', rest)
    <3> DEFINE k == Chunk(c)
               w == out'
               h == partial'
    <3>1. k \in Seq(Tokens) /\ w \in Seq(Tokens) /\ h \in Seq(Tokens) /\ partial \o k = value \o h
      BY <1>6, <1>7
    <3> HIDE DEF k, w, h
    <3>2. Whole(d \o value, h, w, rest) = Whole(d, partial, k \o w, rest)
      <4>1. TakenFrom(d, partial, k, w, value, h, rest)
        BY <1>2, <1>4, <3>1, WholeTaken
      <4> QED BY <3>1, <4>1 DEF TakenFrom
    <3> QED BY <3>2 DEF k, w, h
  <2>5. Answer' = Answer
    BY <1>0, <1>1, AnswerStays
  <2>6. Texts(d \o value) = Texts(d) \o Texts(value) /\ Steps(d \o value) = Steps(d) \o Steps(value)
    <3>1. OfKindSplits(d, value, "text") /\ OfKindSplits(d, value, "step")
      BY <1>4, OfKindConcat
    <3> QED BY <3>1, Zenon DEF OfKindSplits, Texts, Steps
  <2>7. answerText' = Texts(d \o value)
    BY <1>4, <2>2, <2>6
  <2>8. message'.steps \o pendingSteps' = Steps(d \o value)
    <3>1. shown = Steps(d \o value)
      BY <1>12, <2>2, <2>6
    <3>2. CASE isFirst \/ dispatch
      <4>1. shown \o <<>> = shown
        BY <1>10, ConcatEmptySeq
      <4>2. message'.steps = shown /\ pendingSteps' = <<>>
        BY <1>11, <3>2
      <4> QED BY <3>1, <4>1, <4>2
    <3>3. CASE ~(isFirst \/ dispatch)
      BY <1>11, <3>1, <3>3 DEF shown
    <3> QED BY <3>2, <3>3
  <2>9. Whole(d \o value, partial', out', rest) = BytesOf(Answer')
    BY <1>7, <2>2, <2>4, <2>5
  <2>10. Carried(d \o value, rest)'
    BY <1>1, <2>1, <2>2, <2>3, <2>7, <2>8, <2>9 DEF Carried
  <2> QED BY <2>3, <2>10
<1>16. /\ (message = [text |-> message.text, steps |-> message.steps])'
       /\ (~hasPendingUpdate => message.text = answerText /\ pendingSteps = <<>>)'
  BY <1>0, <1>11 DEF StreamInvRest
<1>17. StreamInvRest'
  <2>1. DoneIsLast'
    BY <1>0, <1>1 DEF StreamInvRest, DoneIsLast, upstreamVars
  <2>2. /\ (proxy = "asks" => sentLines = <<>>)'
        /\ (awaited => queue = <<>>)' /\ (proxy = "errored" => queue = <<>>)'
        /\ (client = "ended" => proxy = "closed" /\ queue = <<>> /\ out = <<>>)'
    BY <1>0, <1>1 DEF StreamInvRest, upstreamVars
  <2>3. (proxy \in {"asks", "reads"} => \A i \in 1 .. got \div 2 : sentLines[i] # "done")'
    BY <1>0, <1>1 DEF StreamInvRest, upstreamVars
  <2>4. (proxy = "closed" => upstream # "open" \/ \E i \in DOMAIN sentLines : sentLines[i] = "done")'
    BY <1>0, <1>1 DEF StreamInvRest, upstreamVars
  <2> QED BY <1>6, <1>13, <1>16, <2>1, <2>2, <2>3, <2>4 DEF StreamInvRest
<1> QED BY <1>14, <1>15, <1>17 DEF StreamInv

LEMMA ClientFinishesKeeps ==
    ASSUME StreamInv, ClientFinishes
    PROVE  StreamInv'
<1>0. StreamInvRest /\ StreamTypeOK /\ StreamTypes
  BY TypesOfStream DEF StreamInv, StreamInvRest
<1>1. /\ client = "reads" /\ out = <<>>
      /\ UNCHANGED <<upstreamVars, got, proxy, queue, awaited, out, partial, answerText,
                     pendingSteps, isFirst, hasPendingUpdate>>
      /\ \/ proxy = "closed" /\ queue = <<>> /\ client' = "ended" /\ FinalDispatch
         \/ proxy = "errored" /\ client' = "failed" /\ message' = message
  BY DEF ClientFinishes, proxyVars
<1>2. /\ answerText \in Seq(Tokens) /\ pendingSteps \in Seq(Tokens)
      /\ message.text \in Seq(Tokens) /\ message.steps \in Seq(Tokens)
  BY <1>0 DEF StreamTypes
<1>3. PICK c \in Seq(Tokens), rest \in Seq(Tokens) : Carried(c, rest)
  BY DEF StreamInv
<1>4. /\ Whole(c, partial, out, rest) = BytesOf(Answer)
      /\ proxy # "errored" => rest = queue
      /\ answerText = Texts(c)
      /\ message.steps \o pendingSteps = Steps(c)
  BY <1>1, <1>3 DEF Carried
<1>5. /\ message = [text |-> message.text, steps |-> message.steps]
      /\ ~hasPendingUpdate => message.text = answerText /\ pendingSteps = <<>>
  BY <1>0 DEF StreamInvRest
<1>6. client' = "ended" => message' = [text |-> answerText, steps |-> Steps(c)]
  <2> SUFFICES ASSUME client' = "ended" PROVE message' = [text |-> answerText, steps |-> Steps(c)]
    OBVIOUS
  <2>1. FinalDispatch
    BY <1>1
  <2>2. CASE hasPendingUpdate
    <3>1. message' = [text |-> answerText, steps |-> message.steps \o pendingSteps]
      BY <2>1, <2>2 DEF FinalDispatch, Dispatched
    <3> QED BY <1>4, <3>1
  <2>3. CASE ~hasPendingUpdate
    <3> DEFINE m == message.steps
    <3>1. m \in Seq(Tokens) /\ m \o pendingSteps = Steps(c) /\ pendingSteps = <<>>
            /\ message.text = answerText
      BY <1>2, <1>4, <1>5, <2>3
    <3>2. message' = message /\ message = [text |-> message.text, steps |-> m]
      BY <1>5, <2>1, <2>3 DEF FinalDispatch
    <3> HIDE DEF m
    <3>3. m = Steps(c)
      BY <3>1, ConcatEmptySeq
    <3> QED BY <3>1, <3>2, <3>3
  <2> QED BY <2>2, <2>3
<1>7. client' \in {"ended", "failed"} /\ (client' = "failed" => message' = message)
  BY <1>1
<1>8. Steps(c) \in Seq(Tokens)
  BY <1>3, OfKindType DEF Steps
<1>9. /\ message'.text \in Seq(Tokens) /\ message'.steps \in Seq(Tokens)
      /\ message' = [text |-> message'.text, steps |-> message'.steps]
      /\ (~hasPendingUpdate => message'.text = answerText)
      /\ (message'.text = message.text \/ message'.text = answerText)
  BY <1>2, <1>5, <1>6, <1>7, <1>8
<1>10. StreamTypeOK'
  <2> DEFINE T == Seq(Tokens)
  <2>1. \A s \in {queue, out, partial, answerText, pendingSteps} : s \in T
    BY <1>0 DEF StreamTypeOK
  <2>2. message'.text \in T /\ message'.steps \in T
    BY <1>9
  <2> HIDE DEF T
  <2>3. \A s \in {queue', out', partial', answerText', pendingSteps', message'.text, message'.steps} : s \in T
    BY <1>1, <2>1, <2>2
  <2>6. /\ endpoint' \in Endpoints /\ enabled' \in BOOLEAN /\ sentLines' \in Seq(Kinds)
             /\ Len(sentLines') <= MaxLines
        /\ upstream' \in {"open", "ended", "broken"} /\ got' \in 0 .. 2 * Len(sentLines')
        /\ proxy' \in {"asks", "reads", "closed", "errored"} /\ awaited' \in BOOLEAN
        /\ client' \in {"reads", "ended", "failed"} /\ isFirst' \in BOOLEAN /\ hasPendingUpdate' \in BOOLEAN
    BY <1>0, <1>1, <1>7 DEF StreamTypeOK, upstreamVars
  <2> QED BY <2>3, <2>6 DEF StreamTypeOK, T, Endpoints
<1>11. Extends(message.text, answerText)'
  <2>1. CASE message'.text = message.text
    BY <1>1, <2>1 DEF StreamInv, Extends
  <2>2. CASE message'.text = answerText
    <3>1. answerText = answerText \o <<>> /\ <<>> \in Seq(Tokens)
      BY <1>2, ConcatEmptySeq
    <3> QED BY <1>1, <2>2, <3>1 DEF Extends
  <2> QED BY <1>9, <2>1, <2>2
<1>12. Answer' = Answer
  BY <1>0, <1>1, AnswerStays
<1>13. Carried(c, rest)'
  <2>1. client' # "ended" => message'.steps \o pendingSteps' = Steps(c)
    BY <1>1, <1>4, <1>7
  <2>2. client' = "ended" => message' = [text |-> Texts(c), steps |-> Steps(c)]
    BY <1>4, <1>6
  <2> QED BY <1>1, <1>3, <1>4, <1>12, <2>1, <2>2 DEF Carried
<1>14. StreamInvRest'
  <2>1. DoneIsLast'
    BY <1>0, <1>1 DEF StreamInvRest, DoneIsLast, upstreamVars
  <2>2. /\ (proxy = "asks" => sentLines = <<>>)'
        /\ (awaited => queue = <<>>)' /\ (proxy = "errored" => queue = <<>>)'
        /\ (client = "ended" => proxy = "closed" /\ queue = <<>> /\ out = <<>>)'
        /\ (partial # <<>> => Len(partial) = 1 /\ partial[1].kind = "open")'
    BY <1>0, <1>1 DEF StreamInvRest, upstreamVars
  <2>3. (proxy \in {"asks", "reads"} => \A i \in 1 .. got \div 2 : sentLines[i] # "done")'
    BY <1>0, <1>1 DEF StreamInvRest, upstreamVars
  <2>4. (proxy = "closed" => upstream # "open" \/ \E i \in DOMAIN sentLines : sentLines[i] = "done")'
    BY <1>0, <1>1 DEF StreamInvRest, upstreamVars
  <2>5. (~hasPendingUpdate => message.text = answerText /\ pendingSteps = <<>>)'
    BY <1>1, <1>5, <1>9
  <2>6. (message = [text |-> message.text, steps |-> message.steps])'
    BY <1>9
  <2> QED BY <1>10, <2>1, <2>2, <2>3, <2>4, <2>5, <2>6 DEF StreamInvRest
<1> QED BY <1>11, <1>13, <1>14 DEF StreamInv

-----------------------------------------------------------------------------
LEMMA StreamStarts ==
    ASSUME StreamInit
    PROVE  StreamInv
<1>1. /\ sentLines = <<>> /\ got = 0 /\ proxy = "asks" /\ queue = <<>> /\ awaited = FALSE /\ out = <<>>
      /\ client = "reads" /\ partial = <<>> /\ answerText = <<>> /\ pendingSteps = <<>>
      /\ isFirst = TRUE /\ hasPendingUpdate = FALSE /\ message = [text |-> <<>>, steps |-> <<>>]
      /\ endpoint \in Endpoints /\ enabled \in BOOLEAN /\ upstream = "open"
  BY DEF StreamInit
<1>2. MaxLines \in Nat
  BY StreamConstants
<1>3. message.text = <<>> /\ message.steps = <<>>
  BY <1>1
<1>4. <<>> \in Seq(Tokens) /\ <<>> \in Seq(Kinds) /\ Len(<<>>) = 0 /\ <<>> \o <<>> = <<>>
  OBVIOUS
<1>5. StreamTypeOK
  <2>1. \A s \in {queue, out, partial, answerText, pendingSteps, message.text, message.steps} :
          s \in Seq(Tokens)
    BY <1>1, <1>3, <1>4
  <2>2. got \in 0 .. 2 * Len(sentLines) /\ Len(sentLines) <= MaxLines
    BY <1>1, <1>2, <1>4
  <2> QED BY <1>1, <1>4, <2>1, <2>2 DEF StreamTypeOK
<1>6. StreamTypes
  BY <1>5, TypesOfStream
<1>7. Answer = <<>>
  <2>1. PiecesOfLines(0 + 1, 0) = <<>>
    BY NoLinesNoPieces
  <2>2. ~DoneBy(0)
    BY DEF DoneBy
  <2>3. 0 = got \div 2 /\ proxy # "closed"
    BY <1>1
  <2>4. Answer = IF Streaming THEN PiecesOfLines(1, 0) ELSE <<>>
    BY <1>6, <2>2, <2>3, AnswerWhileReading
  <2> QED BY <2>1, <2>4
<1>8. Texts(<<>>) = <<>> /\ Steps(<<>>) = <<>>
  BY OfKindEmpty DEF Texts, Steps
<1>9. Carried(<<>>, <<>>)
  <2>1. Whole(<<>>, <<>>, <<>>, <<>>) = <<>>
    BY <1>4, BytesOfEmpty DEF Whole
  <2> QED BY <1>1, <1>3, <1>4, <1>7, <1>8, <2>1, BytesOfEmpty DEF Carried
<1>10. Extends(message.text, answerText)
  BY <1>1, <1>3, <1>4 DEF Extends
<1>11. StreamInvRest
  BY <1>1, <1>3, <1>5 DEF StreamInvRest, DoneIsLast
<1> QED BY <1>4, <1>9, <1>10, <1>11 DEF StreamInv

LEMMA StreamSteps ==
    ASSUME StreamInv, [StreamNext]_streamVars
    PROVE  StreamInv'
<1>1. CASE UNCHANGED streamVars
  <2>1. /\ UNCHANGED <<endpoint, enabled, sentLines, upstream, got, proxy, queue, awaited, out>>
        /\ UNCHANGED <<client, partial, answerText, pendingSteps, isFirst, hasPendingUpdate, message>>
    BY <1>1 DEF streamVars, upstreamVars, proxyVars, clientVars
  <2>2. StreamTypes
    BY TypesOfStream DEF StreamInv, StreamInvRest
  <2>3. Answer' = Answer
    BY <2>1, <2>2, AnswerStays DEF upstreamVars
  <2>4. \E consumed, rest \in Seq(Tokens) : Carried(consumed, rest)'
    BY <2>1, <2>3, SilenceCarries DEF StreamInv, Carried, clientVars
  <2>5. StreamInvRest'
    BY <2>1 DEF StreamInv, StreamInvRest, StreamTypeOK, DoneIsLast
  <2>6. Extends(message.text, answerText)'
    BY <2>1 DEF StreamInv, Extends
  <2> QED BY <2>4, <2>5, <2>6 DEF StreamInv
<1>2. CASE \E kind \in Kinds : UpstreamSends(kind)
  BY <1>2, UpstreamSendsKeeps
<1>3. CASE \E how \in {"ended", "broken"} : UpstreamEnds(how)
  BY <1>3, UpstreamEndsKeeps
<1>4. CASE \E ok \in BOOLEAN : AskAgent(ok)
  BY <1>4, AskAgentKeeps
<1>5. CASE \E to \in 1 .. 2 * MaxLines : ProxyReads(to)
  BY <1>5, ProxyReadsKeeps
<1>6. CASE ProxyFinishes \/ ProxyTakesBody \/ WrapperReads
  BY <1>6, ProxyFinishesKeeps, ProxyTakesBodyKeeps, WrapperReadsKeeps
<1>7. CASE \E c \in 1 .. 2 * MaxLines, dispatch \in BOOLEAN : ClientReads(c, dispatch)
  BY <1>7, ClientReadsKeeps
<1>8. CASE ClientFinishes
  BY <1>8, ClientFinishesKeeps
<1> QED BY <1>1, <1>2, <1>3, <1>4, <1>5, <1>6, <1>7, <1>8 DEF StreamNext

LEMMA StreamInvIsSound ==
    ASSUME StreamInv
    PROVE  StreamTypeOK /\ AnswerIsWhole
<1>0. StreamInvRest /\ StreamTypeOK /\ StreamTypes
  BY TypesOfStream DEF StreamInv, StreamInvRest
<1>1. /\ queue \in Seq(Tokens) /\ out \in Seq(Tokens) /\ partial \in Seq(Tokens)
      /\ pendingSteps \in Seq(Tokens) /\ message.text \in Seq(Tokens) /\ message.steps \in Seq(Tokens)
  BY <1>0 DEF StreamTypes
<1>2. PICK c \in Seq(Tokens), rest \in Seq(Tokens) : Carried(c, rest)
  BY DEF StreamInv
<1>3. /\ Whole(c, partial, out, rest) = BytesOf(Answer) /\ answerText = Texts(c)
      /\ proxy # "errored" => rest = queue
      /\ client # "ended" => message.steps \o pendingSteps = Steps(c)
      /\ client = "ended" => message = [text |-> Texts(c), steps |-> Steps(c)]
  BY <1>2 DEF Carried
<1>4. Answer \in Seq(Tokens)
  BY <1>0, AnswerType
<1>5. PICK y \in Seq(Tokens) : Texts(Answer) = Texts(c) \o y
  <2>1. "text" \in {"text", "step"}
    OBVIOUS
  <2>2. StartsWith(Answer, c, "text")
    BY <1>1, <1>3, <1>4, <2>1, WholeOfKind
  <2> QED BY <2>2 DEF StartsWith, Texts
<1>6. PICK z \in Seq(Tokens) : Steps(Answer) = Steps(c) \o z
  <2>1. "step" \in {"text", "step"}
    OBVIOUS
  <2>2. StartsWith(Answer, c, "step")
    BY <1>1, <1>3, <1>4, <2>1, WholeOfKind
  <2> QED BY <2>2 DEF StartsWith, Steps
<1>7. IsPrefix(message.text, Texts(Answer))
  <2>1. PICK x \in Seq(Tokens) : answerText = message.text \o x
    BY DEF StreamInv, Extends
  <2> DEFINE m == message.text
  <2>2. m \in Seq(Tokens) /\ Texts(Answer) = (m \o x) \o y
    BY <1>1, <1>3, <1>5, <2>1
  <2> HIDE DEF m
  <2>3. Associates(m, x, y) /\ x \o y \in Seq(Tokens)
    BY <2>2, ConcatAssociates, ConcatProperties
  <2>4. Texts(Answer) = m \o (x \o y)
    BY <2>2, <2>3, Zenon DEF Associates
  <2>5. IsPrefix(m, m \o (x \o y))
    <3> DEFINE t == x \o y
    <3>1. t \in Seq(Tokens)
      BY <2>3
    <3> HIDE DEF t
    <3>2. IsPrefix(m, m \o t)
      BY <2>2, <3>1, PrefixOf
    <3> QED BY <3>2 DEF t
  <2> QED BY <2>4, <2>5 DEF m
<1>8. IsPrefix(message.steps, Steps(Answer))
  <2> DEFINE m == message.steps
  <2>1. m \in Seq(Tokens)
    BY <1>1
  <2>2. CASE client = "ended"
    <3>1. m = Steps(c)
      BY <1>3, <2>2
    <3> HIDE DEF m
    <3>2. IsPrefix(m, m \o z)
      BY <2>1, PrefixOf
    <3> QED BY <1>6, <3>1, <3>2 DEF m
  <2>3. CASE client # "ended"
    <3>1. Steps(Answer) = (m \o pendingSteps) \o z
      BY <1>3, <1>6, <2>3
    <3> HIDE DEF m
    <3>2. Associates(m, pendingSteps, z) /\ pendingSteps \o z \in Seq(Tokens)
      BY <1>1, <2>1, ConcatAssociates, ConcatProperties
    <3> DEFINE t == pendingSteps \o z
    <3>3. Steps(Answer) = m \o t /\ t \in Seq(Tokens)
      BY <3>1, <3>2, Zenon DEF Associates
    <3> HIDE DEF t
    <3>4. IsPrefix(m, m \o t)
      BY <2>1, <3>3, PrefixOf
    <3> QED BY <3>3, <3>4 DEF m
  <2> QED BY <2>2, <2>3
<1>9. client = "ended" => message = [text |-> Texts(Answer), steps |-> Steps(Answer)]
  <2> SUFFICES ASSUME client = "ended" PROVE message = [text |-> Texts(Answer), steps |-> Steps(Answer)]
    OBVIOUS
  <2>1. proxy = "closed" /\ queue = <<>> /\ out = <<>>
    BY <1>0 DEF StreamInvRest
  <2>2. Whole(c, partial, <<>>, <<>>) = BytesOf(Answer)
    BY <1>3, <2>1
  <2>3. partial # <<>> => Len(partial) = 1 /\ partial[1].kind = "open"
    BY <1>0 DEF StreamInvRest
  <2>4. ASSUME NEW kind \in {"text", "step"} PROVE OfKind(Answer, kind) = OfKind(c, kind)
    BY <1>1, <1>4, <2>2, <2>3, WholeIsTaken
  <2>5. Texts(Answer) = Texts(c) /\ Steps(Answer) = Steps(c)
    BY <2>4 DEF Texts, Steps
  <2> QED BY <1>3, <2>5
<1> QED BY <1>0, <1>7, <1>8, <1>9 DEF AnswerIsWhole

\* However the bytes are cut on the way from the agent through the proxy to the browser,
\* and whatever is throttled or lost at its end, the message holds a prefix of the
\* answer's text and steps, and all of both when the stream ends.
THEOREM AnswerAlwaysWhole == StreamSpec => [](StreamTypeOK /\ AnswerIsWhole)
<1>1. StreamInit => StreamInv
  BY StreamStarts
<1>2. StreamInv /\ [StreamNext]_streamVars => StreamInv'
  BY StreamSteps
<1>3. StreamInv => StreamTypeOK /\ AnswerIsWhole
  BY StreamInvIsSound
<1> QED BY <1>1, <1>2, <1>3, PTL DEF StreamSpec
=============================================================================
