--------------------------- MODULE SequenceLemmas ---------------------------
(***************************************************************************)
(* Facts about natural numbers and sequences that several proofs need, and *)
(* that the library states for no operator of this project: induction over *)
(* a set of numbers, and what FlattenSeq, Min and Max compute.             *)
(***************************************************************************)
EXTENDS SequencesExt, SequenceTheorems, WellFoundedInduction, TLAPS

\* Induction, for a set of numbers: the library's theorem is about an
\* operator, which no prover here can instantiate.  A least number outside of
\* the set would have a predecessor in it.
THEOREM SetInduction ==
  ASSUME NEW S \in SUBSET Nat, 0 \in S, \A n \in S : n + 1 \in S
  PROVE  S = Nat
<1> DEFINE T == Nat \ S
<1>1. SUFFICES ASSUME T # {} PROVE FALSE
  OBVIOUS
<1>2. PICK x \in T : \A y \in T : ~ (<<y, x>> \in OpToRel(<, Nat))
  <2>1. T \subseteq Nat
    OBVIOUS
  <2> HIDE DEF T
  <2> QED BY <1>1, <2>1, WFMin, NatLessThanWellFounded
<1>3. x \in Nat /\ x # 0 /\ x - 1 \in Nat /\ x - 1 < x
  BY SMT
<1>4. x - 1 \in T
  OBVIOUS
<1>5. <<x - 1, x>> \in OpToRel(<, Nat)
  BY <1>3 DEF OpToRel
<1> QED BY <1>2, <1>4, <1>5

-----------------------------------------------------------------------------
\* FlattenSeq.

\* f is the sequence of the first n prefixes of seqs, flattened.
Builds(f, seqs, n) ==
  /\ n > 0 => f[1] = seqs[1]
  /\ \A i \in 1 .. n - 1 : f[i + 1] = f[i] \o seqs[i + 1]

Agree(f, g, n) == \A i \in 1 .. n : f[i] = g[i]

\* One such f is the start of another.
LEMMA PrefixesAgree ==
  ASSUME NEW seqs, NEW more, NEW f, NEW g, NEW k \in Nat, NEW m \in Nat, k <= m,
         Agree(seqs, more, k), Builds(f, seqs, k), Builds(g, more, m)
  PROVE  Agree(f, g, k)
<1> USE DEF Agree
<1> DEFINE P(n) == n \in 1 .. k => f[n] = g[n]
           N == {n \in Nat : P(n)}
<1>1. ASSUME NEW n \in Nat, P(n) PROVE P(n + 1)
  <2>1. SUFFICES ASSUME n + 1 \in 1 .. k PROVE f[n + 1] = g[n + 1]
    OBVIOUS
  <2>2. CASE n = 0
    <3>1. k > 0 /\ m > 0 /\ 1 \in 1 .. k
      BY <2>1, <2>2
    <3>2. f[1] = seqs[1] /\ g[1] = more[1] /\ seqs[1] = more[1]
      BY <3>1 DEF Builds
    <3> QED BY <2>2, <3>2
  <2>3. CASE n # 0
    <3>1. n \in 1 .. k /\ n \in 1 .. k - 1 /\ n \in 1 .. m - 1
      BY <2>1, <2>3
    <3>2. f[n] = g[n] /\ seqs[n + 1] = more[n + 1]
      BY <1>1, <2>1, <3>1
    <3>3. f[n + 1] = f[n] \o seqs[n + 1] /\ g[n + 1] = g[n] \o more[n + 1]
      BY <3>1 DEF Builds
    <3> QED BY <3>2, <3>3
  <2> QED BY <2>2, <2>3
<1>2. P(0)
  OBVIOUS
<1> HIDE DEF P
<1>3. N = Nat
  <2>1. N \in SUBSET Nat /\ 0 \in N /\ \A n \in N : n + 1 \in N
    BY <1>1, <1>2
  <2> HIDE DEF N
  <2> QED BY <2>1, SetInduction
<1>4. \A n \in Nat : P(n)
  BY <1>3
<1> QED BY <1>4 DEF P

\* There is one, and its values are sequences.
LEMMA PrefixesExist ==
  ASSUME NEW S, NEW seqs \in Seq(Seq(S))
  PROVE  \E f \in [1 .. Len(seqs) -> Seq(S)] : Builds(f, seqs, Len(seqs))
<1> DEFINE P(n) == n <= Len(seqs) => \E f \in [1 .. n -> Seq(S)] : Builds(f, seqs, n)
           N == {n \in Nat : P(n)}
<1> USE LenProperties
<1>1. P(0)
  <2>1. [i \in 1 .. 0 |-> <<>>] \in [1 .. 0 -> Seq(S)]
    OBVIOUS
  <2>2. Builds([i \in 1 .. 0 |-> <<>>], seqs, 0)
    BY DEF Builds
  <2> QED BY <2>1, <2>2
<1>2. ASSUME NEW n \in Nat, P(n) PROVE P(n + 1)
  <2>1. SUFFICES ASSUME n + 1 <= Len(seqs)
                 PROVE  \E g \in [1 .. n + 1 -> Seq(S)] : Builds(g, seqs, n + 1)
    OBVIOUS
  <2>2. PICK f \in [1 .. n -> Seq(S)] : Builds(f, seqs, n)
    BY <1>2, <2>1
  <2>3. seqs[n + 1] \in Seq(S)
    BY <2>1, ElementOfSeq
  <2>4. CASE n = 0
    <3>1. [i \in 1 .. 1 |-> seqs[1]] \in [1 .. n + 1 -> Seq(S)]
      BY <2>3, <2>4
    <3>2. Builds([i \in 1 .. 1 |-> seqs[1]], seqs, n + 1)
      BY <2>4 DEF Builds
    <3> QED BY <3>1, <3>2
  <2>5. CASE n # 0
    <3> DEFINE c == f[n] \o seqs[n + 1]
               g == [i \in 1 .. n + 1 |-> IF i = n + 1 THEN c ELSE f[i]]
    <3>1. c \in Seq(S)
      <4>1. f[n] \in Seq(S)
        BY <2>5
      <4> QED BY <2>3, <4>1, ConcatProperties
    <3> HIDE DEF c
    <3>2. g \in [1 .. n + 1 -> Seq(S)]
      BY <3>1
    <3>3. (\A i \in 1 .. n : g[i] = f[i]) /\ g[n + 1] = c
      OBVIOUS
    <3> HIDE DEF g
    <3>4. g[1] = seqs[1]
      BY <2>2, <2>5, <3>3 DEF Builds
    <3>5. ASSUME NEW i \in 1 .. n PROVE g[i + 1] = g[i] \o seqs[i + 1]
      <4>1. CASE i = n
        BY <3>3, <4>1 DEF c
      <4>2. CASE i # n
        <5>1. i \in 1 .. n - 1 /\ i + 1 \in 1 .. n
          BY <4>2
        <5> QED BY <2>2, <3>3, <5>1 DEF Builds
      <4> QED BY <4>1, <4>2
    <3>6. Builds(g, seqs, n + 1)
      <4>1. (n + 1) - 1 = n
        OBVIOUS
      <4> QED BY <3>4, <3>5, <4>1 DEF Builds
    <3> QED BY <3>2, <3>6
  <2> QED BY <2>4, <2>5
<1> HIDE DEF P
<1>3. N = Nat
  <2>1. N \in SUBSET Nat /\ 0 \in N /\ \A n \in N : n + 1 \in N
    BY <1>1, <1>2
  <2> HIDE DEF N
  <2> QED BY <2>1, SetInduction
<1>4. P(Len(seqs))
  BY <1>3
<1> QED BY <1>4 DEF P

\* FlattenSeq is its last value.
LEMMA FlattenIs ==
  ASSUME NEW S, NEW seqs \in Seq(Seq(S)), Len(seqs) > 0
  PROVE  \E f \in [1 .. Len(seqs) -> Seq(S)] :
           Builds(f, seqs, Len(seqs)) /\ FlattenSeq(seqs) = f[Len(seqs)]
<1> DEFINE Def(f) == [i \in 1 .. Len(seqs) |->
                        IF i = 1 THEN seqs[i] ELSE f[i - 1] \o seqs[i]]
           F == CHOOSE f : f = Def(f)
<1> USE LenProperties
<1>1. FlattenSeq(seqs) = F[Len(seqs)]
  BY DEF FlattenSeq
<1>2. PICK g \in [1 .. Len(seqs) -> Seq(S)] : Builds(g, seqs, Len(seqs))
  BY PrefixesExist
<1>3. ASSUME NEW i \in 1 .. Len(seqs) PROVE g[i] = Def(g)[i]
  <2>1. CASE i = 1
    BY <1>2, <2>1 DEF Builds
  <2>2. CASE i # 1
    <3>1. i - 1 \in 1 .. Len(seqs) - 1 /\ (i - 1) + 1 = i
      BY <2>2
    <3>2. g[i] = g[i - 1] \o seqs[i]
      BY <1>2, <3>1 DEF Builds
    <3> QED BY <2>2, <3>2
  <2> QED BY <2>1, <2>2
<1>4. g = Def(g)
  BY <1>3
<1>5. F = Def(F)
  BY <1>4
<1>6. Builds(F, seqs, Len(seqs))
  <2> HIDE DEF F
  <2>1. F[1] = seqs[1]
    BY <1>5
  <2>2. ASSUME NEW i \in 1 .. Len(seqs) - 1 PROVE F[i + 1] = F[i] \o seqs[i + 1]
    <3>1. i + 1 \in 1 .. Len(seqs) /\ i + 1 # 1 /\ (i + 1) - 1 = i
      OBVIOUS
    <3>2. F[i + 1] = F[(i + 1) - 1] \o seqs[i + 1]
      BY <1>5, <3>1
    <3> QED BY <3>1, <3>2
  <2> QED BY <2>1, <2>2 DEF Builds
<1>7. F[Len(seqs)] = g[Len(seqs)]
  <2> HIDE DEF F
  <2>1. Agree(seqs, seqs, Len(seqs))
    BY DEF Agree
  <2>2. Agree(F, g, Len(seqs))
    BY <1>2, <1>6, <2>1, PrefixesAgree
  <2> QED BY <2>2 DEF Agree
<1> QED BY <1>1, <1>2, <1>7

\* FlattenSeq of no sequence, and of one more.
LEMMA FlattenEmpty == FlattenSeq(<<>>) = <<>>
BY DEF FlattenSeq

LEMMA FlattenType ==
  ASSUME NEW S, NEW seqs \in Seq(Seq(S))
  PROVE  FlattenSeq(seqs) \in Seq(S)
<1>1. CASE Len(seqs) = 0
  <2>1. seqs = <<>>
    BY <1>1, EmptySeq
  <2> QED BY <2>1, FlattenEmpty, EmptySeq
<1>2. CASE Len(seqs) > 0
  <2>1. PICK f \in [1 .. Len(seqs) -> Seq(S)] : FlattenSeq(seqs) = f[Len(seqs)]
    BY <1>2, FlattenIs
  <2> QED BY <1>2, <2>1, LenProperties
<1> QED BY <1>1, <1>2, LenProperties

LEMMA FlattenAppend ==
  ASSUME NEW S, NEW seqs \in Seq(Seq(S)), NEW last \in Seq(S)
  PROVE  FlattenSeq(Append(seqs, last)) = FlattenSeq(seqs) \o last
<1>1. PICK more : more = Append(seqs, last)
  OBVIOUS
<1>2. PICK k \in Nat : k = Len(seqs)
  BY LenProperties
<1>3. /\ more \in Seq(Seq(S)) /\ Len(more) = k + 1
      /\ \A i \in 1 .. k : seqs[i] = more[i]
      /\ more[k + 1] = last
  BY <1>1, <1>2, AppendProperties
<1>4. PICK g : Builds(g, more, k + 1) /\ FlattenSeq(more) = g[k + 1]
  <2>1. Len(more) > 0
    BY <1>3
  <2> QED BY <1>3, <2>1, FlattenIs
<1>5. CASE k = 0
  <2>1. seqs = <<>>
    BY <1>2, <1>5, EmptySeq
  <2>2. g[1] = last
    BY <1>3, <1>4, <1>5 DEF Builds
  <2>3. FlattenSeq(more) = last
    BY <1>4, <1>5, <2>2
  <2> QED BY <1>1, <2>1, <2>3, FlattenEmpty, ConcatEmptySeq
<1>6. CASE k > 0
  <2>1. PICK f : Builds(f, seqs, k) /\ FlattenSeq(seqs) = f[k]
    BY <1>2, <1>6, FlattenIs
  <2>2. Agree(f, g, k)
    <3>1. PICK m \in Nat : m = k + 1
      OBVIOUS
    <3>2. k <= m /\ Builds(g, more, m)
      BY <1>4, <3>1
    <3>3. Agree(seqs, more, k)
      BY <1>3 DEF Agree
    <3> QED BY <2>1, <3>2, <3>3, PrefixesAgree
  <2>3. f[k] = g[k] /\ k \in 1 .. (k + 1) - 1
    BY <1>6, <2>2 DEF Agree
  <2>4. g[k + 1] = g[k] \o last
    BY <1>3, <1>4, <2>3 DEF Builds
  <2> QED BY <1>1, <1>4, <2>1, <2>3, <2>4
<1> QED BY <1>5, <1>6

\* The library's theorem for provers that do not find its equation in a goal.
Reassociates(a, b, c) == (a \o b) \o c = a \o (b \o c)

LEMMA Associative ==
  ASSUME NEW S, NEW a \in Seq(S), NEW b \in Seq(S), NEW c \in Seq(S)
  PROVE  Reassociates(a, b, c)
BY ConcatAssociative DEF Reassociates

LEMMA FlattenConcat ==
  ASSUME NEW S, NEW s \in Seq(Seq(S)), NEW t \in Seq(Seq(S))
  PROVE  FlattenSeq(s \o t) = FlattenSeq(s) \o FlattenSeq(t)
<1> DEFINE Splits(u) == FlattenSeq(s \o u) = FlattenSeq(s) \o FlattenSeq(u)
           P(n) == \A u \in Seq(Seq(S)) : Len(u) = n => Splits(u)
           N == {n \in Nat : P(n)}
<1>1. P(0)
  <2>1. SUFFICES ASSUME NEW u \in Seq(Seq(S)), Len(u) = 0 PROVE Splits(u)
    OBVIOUS
  <2>2. u = <<>>
    BY <2>1, EmptySeq
  <2>3. FlattenSeq(s) \in Seq(S) /\ FlattenSeq(u) = <<>>
    BY <2>2, FlattenType, FlattenEmpty
  <2> QED BY <2>2, <2>3, ConcatEmptySeq
<1>2. ASSUME NEW n \in Nat, P(n) PROVE P(n + 1)
  <2>1. SUFFICES ASSUME NEW u \in Seq(Seq(S)), Len(u) = n + 1 PROVE Splits(u)
    OBVIOUS
  <2>2. u # <<>>
    BY <2>1, EmptySeq
  <2>3. PICK v \in Seq(Seq(S)), e \in Seq(S) : u = Append(v, e)
    BY <2>2, SequenceEmptyOrAppend
  <2>4. Len(v) = n
    BY <2>1, <2>3, AppendProperties, LenProperties
  <2>5. FlattenSeq(s \o v) = FlattenSeq(s) \o FlattenSeq(v)
    BY <1>2, <2>4
  <2>6. s \o v \in Seq(Seq(S)) /\ s \o u = Append(s \o v, e)
    <3>1. s \o v \in Seq(Seq(S)) /\ u = v \o <<e>>
      BY <2>3, ConcatProperties, AppendIsConcat
    <3>2. s \o u = (s \o v) \o <<e>>
      BY <2>3, <3>1, ConcatAssociative
    <3> QED BY <3>1, <3>2, AppendIsConcat
  <2>7. FlattenSeq(s \o u) = (FlattenSeq(s) \o FlattenSeq(v)) \o e
    BY <2>5, <2>6, FlattenAppend
  <2>8. FlattenSeq(u) = FlattenSeq(v) \o e
    BY <2>3, FlattenAppend
  <2>9. FlattenSeq(s) \in Seq(S) /\ FlattenSeq(v) \in Seq(S)
    BY FlattenType
  <2> HIDE DEF P, N
  <2>10. (FlattenSeq(s) \o FlattenSeq(v)) \o e = FlattenSeq(s) \o (FlattenSeq(v) \o e)
    <3>1. PICK a \in Seq(S) : a = FlattenSeq(s)
      BY <2>9
    <3>2. PICK b \in Seq(S) : b = FlattenSeq(v)
      BY <2>9
    <3>3. Reassociates(a, b, e)
      BY Associative
    <3> QED BY <3>1, <3>2, <3>3, Zenon DEF Reassociates
  <2> QED BY <2>7, <2>8, <2>10
<1> HIDE DEF P
<1>3. N = Nat
  <2>1. N \in SUBSET Nat /\ 0 \in N /\ \A n \in N : n + 1 \in N
    BY <1>1, <1>2
  <2> HIDE DEF N
  <2> QED BY <2>1, SetInduction
<1>4. P(Len(t))
  BY <1>3, LenProperties
<1>5. Splits(t)
  BY <1>4 DEF P
<1> QED BY <1>5

\* One sequence is itself, and one in front comes first.
LEMMA FlattenOne ==
  ASSUME NEW S, NEW s \in Seq(S)
  PROVE  FlattenSeq(<<s>>) = s
<1>1. <<s>> = Append(<<>>, s) /\ <<>> \in Seq(Seq(S))
  BY EmptySeq
<1>2. FlattenSeq(<<s>>) = <<>> \o s
  BY <1>1, FlattenAppend, FlattenEmpty
<1> QED BY <1>2, ConcatEmptySeq

LEMMA FlattenHead ==
  ASSUME NEW S, NEW seqs \in Seq(Seq(S)), Len(seqs) > 0, seqs[1] # <<>>
  PROVE  FlattenSeq(seqs) # <<>> /\ Head(FlattenSeq(seqs)) = Head(seqs[1])
<1> DEFINE first == seqs[1]
           rest == FlattenSeq(Tail(seqs))
<1>1. /\ first \in Seq(S) /\ first # <<>> /\ Len(first) > 0
      /\ Tail(seqs) \in Seq(Seq(S)) /\ seqs = <<first>> \o Tail(seqs)
  <2>1. seqs # <<>>
    BY EmptySeq
  <2>2. /\ Tail(seqs) \in Seq(Seq(S)) /\ Len(Tail(seqs)) = Len(seqs) - 1
        /\ \A i \in 1 .. Len(Tail(seqs)) : Tail(seqs)[i] = seqs[i + 1]
    BY <2>1, HeadTailProperties
  <2>3. first \in Seq(S) /\ Len(first) > 0
    BY ElementOfSeq, EmptySeq, LenProperties
  <2>4. <<first>> \in Seq(Seq(S)) /\ Len(<<first>>) = 1 /\ <<first>>[1] = first
    BY <2>3
  <2>5. seqs = <<first>> \o Tail(seqs)
    <3> DEFINE c == <<first>> \o Tail(seqs)
    <3>1. /\ c \in Seq(Seq(S)) /\ Len(c) = Len(seqs)
          /\ \A i \in 1 .. Len(seqs) : c[i] = seqs[i]
      BY <2>2, <2>4, ConcatProperties, LenProperties
    <3> HIDE DEF c
    <3>2. c = seqs
      BY <3>1, SeqEqual
    <3> QED BY <3>2 DEF c
  <2> QED BY <2>2, <2>3, <2>5
<1>2. rest \in Seq(S)
  BY <1>1, FlattenType
<1>3. FlattenSeq(seqs) = first \o rest
  <2>1. <<first>> \in Seq(Seq(S))
    BY <1>1
  <2> HIDE DEF first
  <2>2. FlattenSeq(<<first>> \o Tail(seqs)) = FlattenSeq(<<first>>) \o rest
    BY <1>1, <2>1, FlattenConcat
  <2> QED BY <1>1, <2>2, FlattenOne
<1> HIDE DEF first, rest
<1>4. /\ first \o rest \in Seq(S) /\ Len(first \o rest) > 0
      /\ (first \o rest)[1] = first[1]
  BY <1>1, <1>2, ConcatProperties, LenProperties
<1>5. Head(first \o rest) = Head(first) /\ first \o rest # <<>>
  BY <1>1, <1>4, EmptySeq, HeadTailProperties
<1> QED BY <1>3, <1>5 DEF first

\* The last sequence can be made longer.
LEMMA FlattenLast ==
  ASSUME NEW S, NEW seqs \in Seq(Seq(S)), seqs # <<>>, NEW s \in Seq(S)
  PROVE  FlattenSeq([seqs EXCEPT ![Len(seqs)] = @ \o s]) = FlattenSeq(seqs) \o s
<1>1. PICK front \in Seq(Seq(S)), last \in Seq(S) : seqs = Append(front, last)
  BY SequenceEmptyOrAppend
<1>2. PICK new : new = [seqs EXCEPT ![Len(seqs)] = @ \o s]
  OBVIOUS
<1>3. /\ Len(front) \in Nat /\ Len(seqs) = Len(front) + 1
      /\ \A i \in 1 .. Len(front) : seqs[i] = front[i]
      /\ seqs[Len(seqs)] = last
  BY <1>1, AppendProperties, LenProperties
<1>4. PICK longer \in Seq(S) : longer = last \o s
  BY ConcatProperties
<1>5. /\ new \in Seq(Seq(S)) /\ Len(new) = Len(seqs)
      /\ \A i \in 1 .. Len(seqs) : new[i] = IF i = Len(seqs) THEN longer ELSE seqs[i]
  <2>1. Len(seqs) \in 1 .. Len(seqs) /\ new = [seqs EXCEPT ![Len(seqs)] = longer]
    BY <1>2, <1>3, <1>4
  <2> QED BY <2>1, ExceptSeq
<1>6. new = Append(front, longer)
  <2>1. PICK a : a = Append(front, longer)
    OBVIOUS
  <2>2. /\ a \in Seq(Seq(S)) /\ Len(a) = Len(front) + 1
        /\ \A i \in 1 .. Len(front) : a[i] = front[i]
        /\ a[Len(front) + 1] = longer
    BY <2>1, AppendProperties
  <2>3. \A i \in 1 .. Len(new) : new[i] = a[i]
    <3>1. SUFFICES ASSUME NEW i \in 1 .. Len(seqs) PROVE new[i] = a[i]
      BY <1>5
    <3>2. CASE i = Len(seqs)
      BY <1>3, <1>5, <2>2, <3>2
    <3>3. CASE i # Len(seqs)
      <4>1. i \in 1 .. Len(front)
        BY <1>3, <3>3
      <4> QED BY <1>3, <1>5, <2>2, <3>3, <4>1
    <3> QED BY <3>2, <3>3
  <2>4. Len(new) = Len(a)
    BY <1>3, <1>5, <2>2
  <2>5. new = a
    <3>1. PICK T : T = Seq(S) /\ new \in Seq(T) /\ a \in Seq(T)
      BY <1>5, <2>2
    <3> QED BY <2>3, <2>4, <3>1, SeqEqual
  <2> QED BY <2>1, <2>5
<1>7. FlattenSeq(new) = FlattenSeq(front) \o longer
  BY <1>6, FlattenAppend
<1>8. FlattenSeq(seqs) = FlattenSeq(front) \o last /\ FlattenSeq(front) \in Seq(S)
  BY <1>1, FlattenAppend, FlattenType
<1>9. (FlattenSeq(front) \o last) \o s = FlattenSeq(front) \o (last \o s)
  <2>1. PICK a \in Seq(S) : a = FlattenSeq(front)
    BY <1>8
  <2>2. Reassociates(a, last, s)
    BY Associative
  <2> QED BY <2>1, <2>2, Zenon DEF Reassociates
<1> QED BY <1>2, <1>4, <1>7, <1>8, <1>9

\* A sequence given by a function: one more value, or none but empty ones.
LEMMA FlattenNext ==
  ASSUME NEW S, NEW n \in Nat, NEW f \in [1 .. n -> Seq(S)],
         NEW g \in [1 .. n + 1 -> Seq(S)], Agree(f, g, n)
  PROVE  FlattenSeq(g) = FlattenSeq(f) \o g[n + 1]
<1>1. f \in Seq(Seq(S)) /\ Len(f) = n
  OBVIOUS
<1>2. g \in Seq(Seq(S)) /\ Len(g) = n + 1
  OBVIOUS
<1>3. g[n + 1] \in Seq(S)
  OBVIOUS
<1>4. g = Append(f, g[n + 1])
  <2>1. PICK a : a = Append(f, g[n + 1])
    OBVIOUS
  <2>2. /\ a \in Seq(Seq(S)) /\ Len(a) = n + 1 /\ a[n + 1] = g[n + 1]
        /\ \A i \in 1 .. n : a[i] = f[i]
    BY <1>1, <1>3, <2>1, AppendProperties
  <2>3. \A i \in 1 .. n + 1 : a[i] = g[i]
    <3>1. \A i \in 1 .. n + 1 : i \in 1 .. n \/ i = n + 1
      OBVIOUS
    <3> QED BY <2>2, <3>1 DEF Agree
  <2> QED BY <1>2, <2>1, <2>2, <2>3, SeqEqual
<1> QED BY <1>1, <1>3, <1>4, FlattenAppend

LEMMA FlattenNothing ==
  ASSUME NEW n \in Nat, NEW f \in [1 .. n -> {<<>>}]
  PROVE  FlattenSeq(f) = <<>>
<1> DEFINE P(m) == \A g \in [1 .. m -> {<<>>}] : FlattenSeq(g) = <<>>
           N == {m \in Nat : P(m)}
<1>1. P(0)
  <2>1. \A g \in [1 .. 0 -> {<<>>}] : g = <<>>
    OBVIOUS
  <2> QED BY <2>1, FlattenEmpty
<1>2. ASSUME NEW m \in Nat, P(m) PROVE P(m + 1)
  <2>1. SUFFICES ASSUME NEW g \in [1 .. m + 1 -> {<<>>}] PROVE FlattenSeq(g) = <<>>
    OBVIOUS
  <2>2. PICK h \in [1 .. m -> {<<>>}] : \A i \in 1 .. m : h[i] = g[i]
    <3>1. [i \in 1 .. m |-> <<>>] \in [1 .. m -> {<<>>}]
      OBVIOUS
    <3>2. \A i \in 1 .. m : i \in 1 .. m + 1
      OBVIOUS
    <3> QED BY <3>1, <3>2
  <2>3. h \in [1 .. m -> Seq({})] /\ g \in [1 .. m + 1 -> Seq({})]
    BY EmptySeq
  <2>4. FlattenSeq(g) = FlattenSeq(h) \o g[m + 1]
    BY <2>2, <2>3, FlattenNext DEF Agree
  <2>5. FlattenSeq(h) = <<>> /\ g[m + 1] = <<>>
    BY <1>2
  <2> QED BY <2>4, <2>5, EmptySeq, ConcatEmptySeq
<1> HIDE DEF P
<1>3. N = Nat
  <2>1. N \in SUBSET Nat /\ 0 \in N /\ \A m \in N : m + 1 \in N
    BY <1>1, <1>2
  <2> HIDE DEF N
  <2> QED BY <2>1, SetInduction
<1>4. P(n)
  BY <1>3
<1> QED BY <1>4 DEF P

-----------------------------------------------------------------------------
\* A set of numbers has a least one.
LEMMA MinIsLeast ==
  ASSUME NEW T \in SUBSET Nat, T # {}
  PROVE  Min(T) \in T /\ \A y \in T : Min(T) <= y
<1>1. PICK x \in T : \A y \in T : ~ (<<y, x>> \in OpToRel(<, Nat))
  BY WFMin, NatLessThanWellFounded
<1>2. ASSUME NEW y \in T PROVE x <= y
  <2>1. x \in Nat /\ y \in Nat
    OBVIOUS
  <2>2. y < x => <<y, x>> \in OpToRel(<, Nat)
    BY <2>1 DEF OpToRel
  <2>3. ~ (y < x)
    BY <1>1, <2>2
  <2> QED BY <2>1, <2>3
<1> QED BY <1>2 DEF Min

\* A set of numbers with a bound has a greatest one.
LEMMA MaxIsGreatest ==
  ASSUME NEW n \in Nat, NEW T \in SUBSET (0 .. n), T # {}
  PROVE  Max(T) \in T /\ \A y \in T : Max(T) >= y
<1> DEFINE P(m) == \A U \in SUBSET (0 .. m) :
                     U # {} => \E x \in U : \A y \in U : x >= y
           N == {m \in Nat : P(m)}
<1>1. P(0)
  <2>1. SUFFICES ASSUME NEW U \in SUBSET (0 .. 0), U # {}
                 PROVE  \E x \in U : \A y \in U : x >= y
    OBVIOUS
  <2>2. PICK x \in U : TRUE
    BY <2>1
  <2>3. x = 0 /\ \A y \in U : y = 0
    OBVIOUS
  <2>4. \A y \in U : x >= y
    BY <2>3
  <2> QED BY <2>4
<1>2. ASSUME NEW m \in Nat, P(m) PROVE P(m + 1)
  <2>1. SUFFICES ASSUME NEW U \in SUBSET (0 .. m + 1), U # {}
                 PROVE  \E x \in U : \A y \in U : x >= y
    OBVIOUS
  <2>2. CASE m + 1 \in U
    BY <2>2
  <2>3. CASE m + 1 \notin U
    <3>1. U \in SUBSET (0 .. m)
      BY <2>3
    <3> QED BY <1>2, <2>1, <3>1
  <2> QED BY <2>2, <2>3
<1> HIDE DEF P
<1>3. N = Nat
  <2>1. N \in SUBSET Nat /\ 0 \in N /\ \A m \in N : m + 1 \in N
    BY <1>1, <1>2
  <2> HIDE DEF N
  <2> QED BY <2>1, SetInduction
<1>4. P(n)
  BY <1>3
<1>5. \E x \in T : \A y \in T : x >= y
  BY <1>4 DEF P
<1> QED BY <1>5 DEF Max
-----------------------------------------------------------------------------
\* n steps, one after the other, from a.
Iterates(f, step, a, n) == f[0] = a /\ \A k \in 1 .. n : f[k] = step[k][f[k - 1]]

LEMMA Iteration ==
  ASSUME NEW A, NEW a \in A, NEW n \in Nat, NEW step \in [1 .. n -> [A -> A]]
  PROVE  \E f \in [0 .. n -> A] : Iterates(f, step, a, n)
<1> DEFINE P(m) == m <= n => \E f \in [0 .. m -> A] : Iterates(f, step, a, m)
           N == {m \in Nat : P(m)}
<1>1. P(0)
  <2>1. [i \in 0 .. 0 |-> a] \in [0 .. 0 -> A]
    OBVIOUS
  <2>2. Iterates([i \in 0 .. 0 |-> a], step, a, 0)
    BY DEF Iterates
  <2> QED BY <2>1, <2>2
<1>2. ASSUME NEW m \in Nat, P(m) PROVE P(m + 1)
  <2>1. SUFFICES ASSUME m + 1 <= n
                 PROVE  \E g \in [0 .. m + 1 -> A] : Iterates(g, step, a, m + 1)
    OBVIOUS
  <2>2. PICK f \in [0 .. m -> A] : Iterates(f, step, a, m)
    BY <1>2, <2>1
  <2>3. PICK c \in A : c = step[m + 1][f[m]]
    <3>1. m + 1 \in 1 .. n /\ m \in 0 .. m
      BY <2>1
    <3>2. step[m + 1] \in [A -> A] /\ f[m] \in A
      BY <3>1
    <3> QED BY <3>2
  <2> DEFINE g == [i \in 0 .. m + 1 |-> IF i = m + 1 THEN c ELSE f[i]]
  <2>4. g \in [0 .. m + 1 -> A]
    BY <2>3
  <2>5. (\A i \in 0 .. m : g[i] = f[i]) /\ g[m + 1] = c
    OBVIOUS
  <2> HIDE DEF g
  <2>6. g[0] = a
    BY <2>2, <2>5 DEF Iterates
  <2>7. ASSUME NEW k \in 1 .. m + 1 PROVE g[k] = step[k][g[k - 1]]
    <3>1. CASE k = m + 1
      <4>1. k - 1 = m /\ m \in 0 .. m
        BY <3>1
      <4> QED BY <2>3, <2>5, <3>1, <4>1
    <3>2. CASE k # m + 1
      <4>1. k \in 1 .. m /\ k \in 0 .. m /\ k - 1 \in 0 .. m
        BY <3>2
      <4> QED BY <2>2, <2>5, <4>1 DEF Iterates
    <3> QED BY <3>1, <3>2
  <2> QED BY <2>4, <2>6, <2>7 DEF Iterates
<1> HIDE DEF P
<1>3. N = Nat
  <2>1. N \in SUBSET Nat /\ 0 \in N /\ \A m \in N : m + 1 \in N
    BY <1>1, <1>2
  <2> HIDE DEF N
  <2> QED BY <2>1, SetInduction
<1>4. P(n)
  BY <1>3
<1> QED BY <1>4 DEF P
-----------------------------------------------------------------------------
\* t is the n values of s behind the first i.
IsPart(t, s, i, n) == Len(t) = n /\ \A x \in 1 .. n : t[x] = s[i + x]

LEMMA Part ==
  ASSUME NEW S, NEW s \in Seq(S), NEW i \in Nat, NEW n \in Nat, NEW j,
         j = i + n, j <= Len(s)
  PROVE  SubSeq(s, i + 1, j) \in Seq(S) /\ IsPart(SubSeq(s, i + 1, j), s, i, n)
<1>1. PICK l \in Nat : l = Len(s) /\ j \in Nat /\ j <= l
  BY LenProperties
<1>2. PICK y \in Nat : y = i + 1
  OBVIOUS
<1>3. \A x \in y .. j : s[x] \in S
  <2>1. \A x \in y .. j : x \in 1 .. l
    BY <1>1, <1>2
  <2> QED BY <1>1, <2>1, ElementOfSeq
<1>4. PICK t : t = SubSeq(s, y, j)
  OBVIOUS
<1>5. /\ t \in Seq(S) /\ Len(t) = (IF y <= j THEN j - y + 1 ELSE 0)
      /\ \A x \in 1 .. j - y + 1 : t[x] = s[y + x - 1]
  BY <1>1, <1>2, <1>3, <1>4, SubSeqProperties
<1>6. j - y + 1 = n
  BY <1>2
<1>7. Len(t) = n
  BY <1>2, <1>5, <1>6
<1>8. \A x \in 1 .. n : t[x] = s[i + x]
  <2>1. \A x \in 1 .. n : y + x - 1 = i + x
    BY <1>2
  <2> QED BY <1>5, <1>6, <2>1
<1> QED BY <1>2, <1>4, <1>5, <1>7, <1>8 DEF IsPart

LEMMA SameParts ==
  ASSUME NEW S, NEW t \in Seq(S), NEW u \in Seq(S), NEW s, NEW i, NEW n \in Nat,
         IsPart(t, s, i, n), IsPart(u, s, i, n)
  PROVE  t = u
<1>1. Len(t) = Len(u) /\ \A x \in 1 .. Len(t) : t[x] = u[x]
  BY DEF IsPart
<1> QED BY <1>1, SeqEqual

LEMMA PartOfPart ==
  ASSUME NEW t, NEW u, NEW s, NEW i \in Nat, NEW n \in Nat, NEW j \in Nat, NEW m \in Nat,
         IsPart(t, s, i, n), IsPart(u, t, j, m), j + m <= n
  PROVE  IsPart(u, s, i + j, m)
<1>1. ASSUME NEW x \in 1 .. m PROVE u[x] = s[(i + j) + x]
  <2>1. j + x \in 1 .. n /\ i + (j + x) = (i + j) + x
    OBVIOUS
  <2>2. u[x] = t[j + x] /\ t[j + x] = s[i + (j + x)]
    BY <2>1 DEF IsPart
  <2> QED BY <2>1, <2>2
<1> QED BY <1>1 DEF IsPart

LEMMA PartsJoin ==
  ASSUME NEW S, NEW a \in Seq(S), NEW b \in Seq(S), NEW s, NEW i \in Nat,
         NEW m \in Nat, NEW n \in Nat, NEW j, j = i + m,
         IsPart(a, s, i, m), IsPart(b, s, j, n)
  PROVE  a \o b \in Seq(S) /\ IsPart(a \o b, s, i, m + n)
<1>1. PICK c : c = a \o b
  OBVIOUS
<1>2. Len(a) = m /\ Len(b) = n
  BY DEF IsPart
<1>3. c \in Seq(S) /\ Len(c) = m + n
  BY <1>1, <1>2, ConcatProperties
<1>4. \A x \in 1 .. m + n : c[x] = IF x <= m THEN a[x] ELSE b[x - m]
  BY <1>1, <1>2, ConcatProperties
<1>5. ASSUME NEW x \in 1 .. m + n PROVE c[x] = s[i + x]
  <2>1. CASE x <= m
    <3>1. x \in 1 .. m
      BY <2>1
    <3>2. a[x] = s[i + x]
      BY <3>1 DEF IsPart
    <3> QED BY <1>4, <2>1, <3>2
  <2>2. CASE ~ (x <= m)
    <3>1. PICK y \in 1 .. n : y = x - m /\ j + y = i + x
      BY <2>2
    <3>2. b[y] = s[i + x]
      BY <3>1 DEF IsPart
    <3> QED BY <1>4, <2>2, <3>1, <3>2
  <2> QED BY <2>1, <2>2
<1> QED BY <1>1, <1>3, <1>5 DEF IsPart

=============================================================================
