--------------------------- MODULE SequenceLemmas ---------------------------
(***************************************************************************)
(* What the proofs need to know of sequences beyond the library's theorems: *)
(* an induction over the naturals without an operator parameter, the laws   *)
(* of FlattenSeq, and increasing sequences.                                *)
(***************************************************************************)
EXTENDS Integers, SequencesExt, SequenceTheorems, WellFoundedInduction, TLAPS

\* A set of naturals with 0 and all successors is the set of all naturals.
LEMMA NatBySet ==
  ASSUME NEW T, T \subseteq Nat, 0 \in T, \A n \in T : n + 1 \in T
  PROVE  T = Nat
<1> DEFINE R == {ss \in Nat \X Nat : ss[1] < ss[2]}
           U == Nat \ T
<1>1. IsWellFoundedOn(R, Nat)
  BY NatLessThanWellFounded DEF OpToRel
<1>2. ASSUME U # {} PROVE FALSE
  <2>1. PICK x \in U : \A y \in U : ~(<<y, x>> \in R)
    <3> HIDE DEF R
    <3> QED
      BY <1>1, <1>2, WFMin
  <2>2. x # 0 /\ x - 1 \in Nat /\ <<x - 1, x>> \in R
    OBVIOUS
  <2>3. x - 1 \in T
    BY <2>1, <2>2
  <2> QED
    BY <2>3
<1> QED
  BY <1>2

-----------------------------------------------------------------------------
(* FlattenSeq.                                                             *)

\* f is the recursive function of FlattenSeq on the first n members of s.
Flattens(f, s, n) == f = [i \in 1..n |-> IF i = 1 THEN s[i] ELSE f[i - 1] \o s[i]]

LEMMA FlattensExists ==
  ASSUME NEW s, NEW n \in Nat
  PROVE  \E f : Flattens(f, s, n)
<1> DEFINE T == {k \in Nat : \E f : Flattens(f, s, k)}
<1>1. 0 \in T
  <2>1. Flattens(<<>>, s, 0)
    BY DEF Flattens
  <2> QED
    BY <2>1
<1>2. ASSUME NEW k \in T PROVE k + 1 \in T
  <2>1. PICK f : Flattens(f, s, k)
    OBVIOUS
  <2> DEFINE g == [i \in 1..(k + 1) |-> IF i <= k THEN f[i]
                                        ELSE IF i = 1 THEN s[i] ELSE f[i - 1] \o s[i]]
  <2>2. \A i \in 1..k : f[i] = IF i = 1 THEN s[i] ELSE f[i - 1] \o s[i]
    BY <2>1 DEF Flattens
  <2>3. ASSUME NEW i \in 1..(k + 1)
        PROVE  g[i] = IF i = 1 THEN s[i] ELSE g[i - 1] \o s[i]
    <3>1. CASE i <= k
      <4>1. g[i] = f[i] /\ i \in 1..k
        BY <3>1
      <4>2. i # 1 => i - 1 \in 1..(k + 1) /\ i - 1 <= k
        BY <3>1
      <4>3. i # 1 => g[i - 1] = f[i - 1]
        BY <4>2
      <4> HIDE DEF g
      <4> QED
        BY <4>1, <4>3, <2>2
    <3>2. CASE ~(i <= k)
      <4>1. i # 1 => i - 1 \in 1..(k + 1) /\ i - 1 <= k
        BY <3>2
      <4>2. i # 1 => g[i - 1] = f[i - 1]
        BY <4>1
      <4>3. g[i] = IF i = 1 THEN s[i] ELSE f[i - 1] \o s[i]
        BY <3>2
      <4> HIDE DEF g
      <4> QED
        BY <4>2, <4>3
    <3> QED
      BY <3>1, <3>2
  <2>4. g = [i \in 1..(k + 1) |-> g[i]]
    OBVIOUS
  <2>5. Flattens(g, s, k + 1)
    <3> HIDE DEF g
    <3> QED
      BY <2>3, <2>4 DEF Flattens
  <2> QED
    BY <2>5
<1>3. T = Nat
  <2> HIDE DEF T
  <2>1. T \subseteq Nat
    BY DEF T
  <2> QED
    BY <1>1, <1>2, <2>1, NatBySet
<1> QED
  BY <1>3

LEMMA FlattenIs ==
  ASSUME NEW S, NEW s \in Seq(Seq(S)), s # <<>>, NEW f, Flattens(f, s, Len(s))
  PROVE  \E g : Flattens(g, s, Len(s)) /\ FlattenSeq(s) = g[Len(s)]
<1> DEFINE h == CHOOSE g : g = [i \in 1..Len(s) |-> IF i = 1 THEN s[i] ELSE g[i - 1] \o s[i]]
<1>1. Flattens(h, s, Len(s))
  BY Zenon DEF Flattens
<1>2. Len(s) # 0
  BY EmptySeq
<1>3. FlattenSeq(s) = h[Len(s)]
  BY <1>2 DEF FlattenSeq
<1> QED
  BY <1>1, <1>3, Zenon

SameUpTo(s, t, n) == \A i \in 1..n : s[i] = t[i]

LEMMA FlattensAgree ==
  ASSUME NEW s, NEW t, NEW f, NEW g, NEW n \in Nat, NEW m \in Nat, n <= m,
         Flattens(f, s, n), Flattens(g, t, m), SameUpTo(s, t, n)
  PROVE  SameUpTo(f, g, n)
<1> DEFINE T == {k \in Nat : k \in 1..n => f[k] = g[k]}
<1>1. \A i \in 1..n : f[i] = IF i = 1 THEN s[i] ELSE f[i - 1] \o s[i]
  BY DEF Flattens
<1>2. \A i \in 1..n : g[i] = IF i = 1 THEN t[i] ELSE g[i - 1] \o t[i]
  <2>1. \A i \in 1..m : g[i] = IF i = 1 THEN t[i] ELSE g[i - 1] \o t[i]
    BY DEF Flattens
  <2>2. \A i \in 1..n : i \in 1..m
    OBVIOUS
  <2> QED
    BY <2>1, <2>2
<1>a. \A i \in 1..n : s[i] = t[i]
  BY DEF SameUpTo
<1>3. 0 \in T
  OBVIOUS
<1>4. ASSUME NEW k \in T PROVE k + 1 \in T
  <2>1. CASE k + 1 \in 1..n /\ k # 0
    <3>1. k \in 1..n /\ (k + 1) - 1 = k /\ k + 1 # 1
      BY <2>1
    <3>2. f[k] = g[k] /\ s[k + 1] = t[k + 1]
      BY <1>a, <2>1, <3>1
    <3>3. f[k + 1] = f[k] \o s[k + 1]
      BY <1>1, <2>1, <3>1
    <3>4. g[k + 1] = g[k] \o t[k + 1]
      BY <1>2, <2>1, <3>1
    <3>5. f[k + 1] = g[k + 1]
      <4>1. f[k] \o s[k + 1] = g[k] \o t[k + 1]
        BY <3>2, Zenon
      <4> QED
        BY <3>3, <3>4, <4>1, Zenon
    <3> QED
      BY <3>5
  <2>2. CASE k + 1 \in 1..n /\ k = 0
    <3>1. f[1] = s[1] /\ g[1] = t[1] /\ s[1] = t[1]
      BY <1>1, <1>2, <1>a, <2>2
    <3> QED
      BY <2>2, <3>1
  <2>3. CASE k + 1 \notin 1..n
    BY <2>3
  <2> QED
    BY <2>1, <2>2, <2>3
<1>5. T = Nat
  <2>1. T \subseteq Nat
    OBVIOUS
  <2> HIDE DEF T
  <2> QED
    BY <1>3, <1>4, <2>1, NatBySet
<1> QED
  BY <1>5 DEF SameUpTo

LEMMA FlattensType ==
  ASSUME NEW S, NEW s \in Seq(Seq(S)), NEW f, Flattens(f, s, Len(s))
  PROVE  \A i \in 1..Len(s) : f[i] \in Seq(S)
<1> DEFINE T == {k \in Nat : k \in 1..Len(s) => f[k] \in Seq(S)}
<1>1. \A i \in 1..Len(s) : f[i] = IF i = 1 THEN s[i] ELSE f[i - 1] \o s[i]
  BY DEF Flattens
<1>2. 0 \in T
  OBVIOUS
<1>3. ASSUME NEW k \in T PROVE k + 1 \in T
  <2>1. CASE k + 1 \in 1..Len(s) /\ k # 0
    <3>1. k \in 1..Len(s) /\ (k + 1) - 1 = k /\ k + 1 # 1
      BY <2>1
    <3>2. f[k] \in Seq(S) /\ s[k + 1] \in Seq(S)
      BY <2>1, <3>1, ElementOfSeq
    <3>3. f[k + 1] = f[k] \o s[k + 1]
      BY <1>1, <2>1, <3>1
    <3>4. f[k] \o s[k + 1] \in Seq(S)
      BY <3>2, ConcatProperties
    <3>5. f[k + 1] \in Seq(S)
      BY <3>3, <3>4, Zenon
    <3> QED
      BY <3>5
  <2>2. CASE k + 1 \in 1..Len(s) /\ k = 0
    <3>1. f[1] = s[1] /\ s[1] \in Seq(S)
      BY <1>1, <2>2, ElementOfSeq
    <3> QED
      BY <2>2, <3>1
  <2>3. CASE k + 1 \notin 1..Len(s)
    BY <2>3
  <2> QED
    BY <2>1, <2>2, <2>3
<1>4. T = Nat
  <2>1. T \subseteq Nat
    OBVIOUS
  <2> HIDE DEF T
  <2> QED
    BY <1>2, <1>3, <2>1, NatBySet
<1> QED
  BY <1>4

LEMMA FlattenEmpty == FlattenSeq(<<>>) = <<>>
BY DEF FlattenSeq

LEMMA FlattenType ==
  ASSUME NEW S, NEW s \in Seq(Seq(S))
  PROVE  FlattenSeq(s) \in Seq(S)
<1>1. CASE s = <<>>
  BY <1>1, FlattenEmpty, EmptySeq
<1>2. CASE s # <<>>
  <2>1. Len(s) \in Nat /\ Len(s) # 0
    BY <1>2, EmptySeq, LenProperties
  <2>2. PICK g : Flattens(g, s, Len(s)) /\ FlattenSeq(s) = g[Len(s)]
    BY <1>2, <2>1, FlattensExists, FlattenIs
  <2>3. \A i \in 1..Len(s) : g[i] \in Seq(S)
    BY <2>2, FlattensType
  <2> QED
    BY <2>1, <2>2, <2>3
<1> QED
  BY <1>1, <1>2

LEMMA FlattenLast ==
  ASSUME NEW S, NEW s \in Seq(Seq(S)), NEW t \in Seq(Seq(S)),
         Len(t) = Len(s) + 1, \A i \in 1..Len(s) : s[i] = t[i]
  PROVE  FlattenSeq(t) = FlattenSeq(s) \o t[Len(t)]
<1>1. Len(s) \in Nat /\ Len(t) \in Nat /\ t # <<>> /\ t[Len(t)] \in Seq(S)
  BY LenProperties, EmptySeq, ElementOfSeq
<1>2. PICK g : Flattens(g, t, Len(t)) /\ FlattenSeq(t) = g[Len(t)]
  BY <1>1, FlattensExists, FlattenIs
<1>3. g[Len(t)] = IF Len(t) = 1 THEN t[Len(t)] ELSE g[Len(t) - 1] \o t[Len(t)]
  <2>1. \A i \in 1..Len(t) : g[i] = IF i = 1 THEN t[i] ELSE g[i - 1] \o t[i]
    BY <1>2, Zenon DEF Flattens
  <2>2. Len(t) \in 1..Len(t)
    BY <1>1
  <2> QED
    BY <2>1, <2>2, Zenon
<1>4. CASE s = <<>>
  <2>1. Len(t) = 1
    BY <1>1, <1>4
  <2>2. FlattenSeq(t) = t[Len(t)]
    BY <1>1, <1>2, <1>3, <2>1
  <2>3. FlattenSeq(s) \o t[Len(t)] = t[Len(t)]
    BY <1>1, <1>4, FlattenEmpty, ConcatEmptySeq
  <2> QED
    BY <2>2, <2>3
<1>5. CASE s # <<>>
  <2>1. Len(s) # 0
    BY <1>5, EmptySeq
  <2>2. PICK f : Flattens(f, s, Len(s)) /\ FlattenSeq(s) = f[Len(s)]
    BY <1>1, <1>5, FlattensExists, FlattenIs
  <2>3. f[Len(s)] = g[Len(s)]
    <3>1. SameUpTo(s, t, Len(s))
      BY DEF SameUpTo
    <3>2. SameUpTo(f, g, Len(s))
      BY <1>1, <1>2, <2>1, <2>2, <3>1, FlattensAgree
    <3> QED
      BY <1>1, <2>1, <3>2 DEF SameUpTo
  <2>4. FlattenSeq(s) = g[Len(t) - 1]
    BY <1>1, <2>2, <2>3
  <2>5. Len(t) # 1
    BY <1>1, <2>1
  <2> QED
    BY <1>1, <1>2, <1>3, <2>4, <2>5
<1> QED
  BY <1>4, <1>5

LEMMA FlattenAppend ==
  ASSUME NEW S, NEW s \in Seq(Seq(S)), NEW e \in Seq(S)
  PROVE  FlattenSeq(Append(s, e)) = FlattenSeq(s) \o e
<1>1. /\ Append(s, e) \in Seq(Seq(S)) /\ Len(Append(s, e)) = Len(s) + 1
      /\ \A i \in 1..Len(s) : s[i] = Append(s, e)[i]
      /\ Append(s, e)[Len(Append(s, e))] = e
  BY AppendProperties, LenProperties
<1> QED
  BY <1>1, FlattenLast

LEMMA FlattenOne ==
  ASSUME NEW S, NEW e \in Seq(S)
  PROVE  FlattenSeq(<<e>>) = e
<1>1. <<>> \in Seq(Seq(S)) /\ Append(<<>>, e) = <<e>>
  BY EmptySeq
<1>2. FlattenSeq(Append(<<>>, e)) = FlattenSeq(<<>>) \o e
  BY <1>1, FlattenAppend
<1>3. <<>> \o e = e
  BY ConcatEmptySeq
<1> QED
  BY <1>1, <1>2, <1>3, FlattenEmpty

LEMMA FunctionIsSeq ==
  ASSUME NEW S, NEW m \in Nat, NEW f, f \in [1..m -> S]
  PROVE  f \in Seq(S) /\ Len(f) = m
<1>1. f = [i \in 1..m |-> f[i]] /\ \A i \in 1..m : f[i] \in S
  OBVIOUS
<1>2. [i \in 1..m |-> f[i]] \in Seq(S)
  BY <1>1
<1>3. f \in Seq(S)
  BY <1>1, <1>2, Zenon
<1>4. DOMAIN f = 1..m /\ DOMAIN f = 1..Len(f) /\ Len(f) \in Nat
  BY <1>3, LenProperties
<1> QED
  BY <1>3, <1>4

LEMMA ConcatAssoc ==
  ASSUME NEW S, NEW s, NEW t, NEW u, s \in Seq(S), t \in Seq(S), u \in Seq(S)
  PROVE  (s \o t) \o u = s \o (t \o u)
BY ConcatAssociative, SMTT(40)

LEMMA ConcatAppend ==
  ASSUME NEW S, NEW s \in Seq(S), NEW t \in Seq(S), NEW e \in S
  PROVE  s \o Append(t, e) = Append(s \o t, e)
<1>1. PICK u \in Seq(S) : u = <<e>>
  <2>1. <<e>> \in Seq(S)
    OBVIOUS
  <2> QED
    BY <2>1, Zenon
<1>2. s \o t \in Seq(S) /\ Append(t, e) = t \o u /\ Append(s \o t, e) = (s \o t) \o u
  BY <1>1, AppendIsConcat, ConcatProperties
<1>3. (s \o t) \o u = s \o (t \o u)
  BY ConcatAssociative, SMTT(40)
<1> QED
  BY <1>2, <1>3

LEMMA FlattenConcatStep ==
  ASSUME NEW S, NEW s \in Seq(Seq(S)), NEW q \in Seq(Seq(S)), NEW e \in Seq(S),
         FlattenSeq(s \o q) = FlattenSeq(s) \o FlattenSeq(q)
  PROVE  FlattenSeq(s \o Append(q, e)) = FlattenSeq(s) \o FlattenSeq(Append(q, e))
<1>1. s \o Append(q, e) = Append(s \o q, e)
  BY ConcatAppend, SMTT(30)
<1>2. FlattenSeq(s \o Append(q, e)) = FlattenSeq(s \o q) \o e
  BY <1>1, ConcatProperties, FlattenAppend, ZenonT(40)
<1>3. FlattenSeq(Append(q, e)) = FlattenSeq(q) \o e
  BY FlattenAppend
<1>4. FlattenSeq(s) \in Seq(S) /\ FlattenSeq(q) \in Seq(S)
  BY FlattenType
<1>5. (FlattenSeq(s) \o FlattenSeq(q)) \o e = FlattenSeq(s) \o (FlattenSeq(q) \o e)
  BY <1>4, ConcatAssociative, SMTT(30)
<1> QED
  BY <1>2, <1>3, <1>5

LEMMA FlattenConcat ==
  ASSUME NEW S, NEW s \in Seq(Seq(S)), NEW t \in Seq(Seq(S))
  PROVE  FlattenSeq(s \o t) = FlattenSeq(s) \o FlattenSeq(t)
<1> DEFINE T == {n \in Nat : \A r \in Seq(Seq(S)) :
                   Len(r) = n => FlattenSeq(s \o r) = FlattenSeq(s) \o FlattenSeq(r)}
<1>1. 0 \in T
  <2> SUFFICES ASSUME NEW r \in Seq(Seq(S)), Len(r) = 0
               PROVE  FlattenSeq(s \o r) = FlattenSeq(s) \o FlattenSeq(r)
    OBVIOUS
  <2>1. r = <<>>
    BY EmptySeq
  <2>2. FlattenSeq(s) \in Seq(S)
    BY FlattenType
  <2>3. s \o <<>> = s /\ FlattenSeq(s) \o <<>> = FlattenSeq(s)
    BY <2>2, ConcatEmptySeq
  <2> QED
    BY <2>1, <2>3, FlattenEmpty
<1>2. ASSUME NEW n \in T PROVE n + 1 \in T
  <2> SUFFICES ASSUME NEW r \in Seq(Seq(S)), Len(r) = n + 1
               PROVE  FlattenSeq(s \o r) = FlattenSeq(s) \o FlattenSeq(r)
    OBVIOUS
  <2>1. r # <<>>
    BY EmptySeq
  <2>2. PICK q \in Seq(Seq(S)), e \in Seq(S) : r = Append(q, e)
    <3> HIDE DEF T
    <3> QED
      BY <2>1, SequenceEmptyOrAppend
  <2>3. Len(q) = n
    BY <2>2, AppendProperties, LenProperties
  <2>4. FlattenSeq(s \o q) = FlattenSeq(s) \o FlattenSeq(q)
    BY <2>3
  <2> HIDE DEF T
  <2> QED
    BY <2>2, <2>4, FlattenConcatStep
<1>3. T = Nat
  <2>1. T \subseteq Nat
    OBVIOUS
  <2> HIDE DEF T
  <2> QED
    BY <1>1, <1>2, <2>1, NatBySet
<1> QED
  BY <1>3, LenProperties

LEMMA HeadAndTail ==
  ASSUME NEW S, NEW s \in Seq(S), s # <<>>
  PROVE  /\ Head(s) \in S /\ Tail(s) \in Seq(S) /\ <<Head(s)>> \in Seq(S)
         /\ s = <<Head(s)>> \o Tail(s)
<1>1. Head(s) \in S /\ Tail(s) \in Seq(S)
  BY HeadTailProperties
<1>2. <<Head(s)>> \in Seq(S)
  BY <1>1
<1>3. s = <<Head(s)>> \o Tail(s)
  BY <1>1
<1> QED
  BY <1>1, <1>2, <1>3

LEMMA FlattenTail ==
  ASSUME NEW S, NEW s \in Seq(Seq(S)), s # <<>>
  PROVE  /\ Head(s) \in Seq(S) /\ Tail(s) \in Seq(Seq(S))
         /\ FlattenSeq(s) = Head(s) \o FlattenSeq(Tail(s))
<1>1. /\ Head(s) \in Seq(S) /\ Tail(s) \in Seq(Seq(S)) /\ <<Head(s)>> \in Seq(Seq(S))
      /\ s = <<Head(s)>> \o Tail(s)
  BY HeadAndTail
<1>2. FlattenSeq(<<Head(s)>> \o Tail(s)) = FlattenSeq(<<Head(s)>>) \o FlattenSeq(Tail(s))
  BY <1>1, FlattenConcat
<1>3. FlattenSeq(<<Head(s)>>) = Head(s)
  BY <1>1, FlattenOne
<1> QED
  BY <1>1, <1>2, <1>3

\* Nothing comes of empty members, and of nothing else.
LEMMA FlattenNothingStep ==
  ASSUME NEW S, NEW q \in Seq(Seq(S)), NEW e \in Seq(S),
         FlattenSeq(q) = <<>> <=> \A i \in 1..Len(q) : q[i] = <<>>
  PROVE  FlattenSeq(Append(q, e)) = <<>> <=>
           \A i \in 1..Len(Append(q, e)) : Append(q, e)[i] = <<>>
<1>1. /\ Len(Append(q, e)) = Len(q) + 1 /\ Len(q) \in Nat
      /\ \A i \in 1..Len(q) : Append(q, e)[i] = q[i]
      /\ Append(q, e)[Len(q) + 1] = e
  BY AppendProperties, LenProperties
<1>2. FlattenSeq(Append(q, e)) = FlattenSeq(q) \o e /\ FlattenSeq(q) \in Seq(S)
  BY FlattenAppend, FlattenType
<1>3. FlattenSeq(Append(q, e)) = <<>> <=> FlattenSeq(q) = <<>> /\ e = <<>>
  BY <1>2, ConcatProperties, EmptySeq, LenProperties
<1>4. 1..Len(Append(q, e)) = (1..Len(q)) \cup {Len(q) + 1}
  BY <1>1
<1>5. (\A i \in 1..Len(Append(q, e)) : Append(q, e)[i] = <<>>)
        <=> (\A i \in 1..Len(q) : q[i] = <<>>) /\ e = <<>>
  BY <1>1, <1>4, Zenon
<1> QED
  BY <1>3, <1>5

LEMMA FlattenNothing ==
  ASSUME NEW S, NEW s \in Seq(Seq(S))
  PROVE  FlattenSeq(s) = <<>> <=> \A i \in 1..Len(s) : s[i] = <<>>
<1> DEFINE T == {n \in Nat : \A r \in Seq(Seq(S)) :
                   Len(r) = n => (FlattenSeq(r) = <<>> <=> \A i \in 1..Len(r) : r[i] = <<>>)}
<1>1. 0 \in T
  <2> SUFFICES ASSUME NEW r \in Seq(Seq(S)), Len(r) = 0
               PROVE  FlattenSeq(r) = <<>>
    OBVIOUS
  <2> QED
    BY EmptySeq, FlattenEmpty
<1>2. ASSUME NEW n \in T PROVE n + 1 \in T
  <2> SUFFICES ASSUME NEW r \in Seq(Seq(S)), Len(r) = n + 1
               PROVE  FlattenSeq(r) = <<>> <=> \A i \in 1..Len(r) : r[i] = <<>>
    OBVIOUS
  <2>1. r # <<>>
    BY EmptySeq
  <2>2. PICK q \in Seq(Seq(S)), e \in Seq(S) : r = Append(q, e)
    <3> HIDE DEF T
    <3> QED
      BY <2>1, SequenceEmptyOrAppend
  <2>3. Len(q) = n
    BY <2>2, AppendProperties, LenProperties
  <2>4. FlattenSeq(q) = <<>> <=> \A i \in 1..Len(q) : q[i] = <<>>
    BY <2>3
  <2> HIDE DEF T
  <2> QED
    BY <2>2, <2>4, FlattenNothingStep
<1>3. T = Nat
  <2>1. T \subseteq Nat
    OBVIOUS
  <2> HIDE DEF T
  <2> QED
    BY <1>1, <1>2, <2>1, NatBySet
<1> QED
  BY <1>3, LenProperties

-----------------------------------------------------------------------------
(* What the members of a sequence come to together, g saying what each one *)
(* comes to.                                                               *)

Measures(g, M, S) == g \in [M -> Seq(S)]
Pieces(g, s) == [i \in DOMAIN s |-> g[s[i]]]
Gather(g, s) == FlattenSeq(Pieces(g, s))

Mapped(a, g, s) == Len(a) = Len(s) /\ \A i \in 1..Len(s) : a[i] = g[s[i]]

LEMMA PiecesType ==
  ASSUME NEW M, NEW S, NEW g, Measures(g, M, S), NEW s \in Seq(M)
  PROVE  Pieces(g, s) \in Seq(Seq(S)) /\ Mapped(Pieces(g, s), g, s)
<1>1. DOMAIN s = 1..Len(s) /\ Len(s) \in Nat /\ \A i \in 1..Len(s) : g[s[i]] \in Seq(S)
  BY LenProperties, ElementOfSeq DEF Measures
<1>2. Pieces(g, s) = [i \in 1..Len(s) |-> g[s[i]]]
  BY <1>1 DEF Pieces
<1>3. [i \in 1..Len(s) |-> g[s[i]]] \in Seq(Seq(S))
  BY <1>1
<1>4. Mapped([i \in 1..Len(s) |-> g[s[i]]], g, s)
  BY <1>1 DEF Mapped
<1> QED
  BY <1>2, <1>3, <1>4

LEMMA GatherType ==
  ASSUME NEW M, NEW S, NEW g, Measures(g, M, S), NEW s \in Seq(M)
  PROVE  Gather(g, s) \in Seq(S)
BY PiecesType, FlattenType DEF Gather

LEMMA GatherEmpty ==
  ASSUME NEW g
  PROVE  Gather(g, <<>>) = <<>>
<1>1. Pieces(g, <<>>) = <<>>
  BY DEF Pieces
<1> QED
  BY <1>1, FlattenEmpty DEF Gather

LEMMA ConcatIs ==
  ASSUME NEW S, NEW a, NEW b, NEW c, a \in Seq(S), b \in Seq(S), c \in Seq(S),
         Len(c) = Len(a) + Len(b),
         \A i \in 1..Len(a) : c[i] = a[i],
         \A i \in 1..Len(b) : c[Len(a) + i] = b[i]
  PROVE  c = a \o b
<1>1. Len(a) \in Nat /\ Len(b) \in Nat
  BY LenProperties
<1>2. /\ a \o b \in Seq(S) /\ Len(a \o b) = Len(c)
      /\ \A i \in 1..Len(c) : (a \o b)[i] = IF i <= Len(a) THEN a[i] ELSE b[i - Len(a)]
  BY ConcatProperties
<1>3. ASSUME NEW i \in 1..Len(c) PROVE c[i] = (a \o b)[i]
  <2>1. CASE i <= Len(a)
    BY <1>1, <1>2, <2>1
  <2>2. CASE ~(i <= Len(a))
    <3>1. i - Len(a) \in 1..Len(b) /\ Len(a) + (i - Len(a)) = i
      BY <1>1, <2>2
    <3>2. c[Len(a) + (i - Len(a))] = b[i - Len(a)]
      BY <3>1, Zenon
    <3> QED
      BY <1>2, <2>2, <3>1, <3>2
  <2> QED
    BY <2>1, <2>2
<1> QED
  BY <1>2, <1>3, SeqEqual

LEMMA MappedConcat ==
  ASSUME NEW M, NEW S, NEW g, NEW s, NEW t, NEW a, NEW b, NEW c,
         s \in Seq(M), t \in Seq(M), a \in Seq(S), b \in Seq(S), c \in Seq(S),
         Mapped(a, g, s), Mapped(b, g, t), Mapped(c, g, s \o t)
  PROVE  c = a \o b
<1>1. Len(s) \in Nat /\ Len(t) \in Nat /\ Len(s \o t) = Len(s) + Len(t)
  BY ConcatProperties, LenProperties
<1>2. \A i \in 1..Len(s) : (s \o t)[i] = s[i]
  BY <1>1, ConcatProperties
<1>3. \A i \in 1..Len(t) : (s \o t)[Len(s) + i] = t[i]
  BY <1>1, ConcatProperties
<1>4. Len(a) = Len(s) /\ Len(b) = Len(t) /\ Len(c) = Len(s) + Len(t)
  BY <1>1 DEF Mapped
<1>5. ASSUME NEW i \in 1..Len(a) PROVE c[i] = a[i]
  <2>1. a[i] = g[s[i]]
    BY <1>4 DEF Mapped
  <2>2. c[i] = g[(s \o t)[i]]
    BY <1>1, <1>4 DEF Mapped
  <2> QED
    BY <1>2, <1>4, <2>1, <2>2, Zenon
<1>6. ASSUME NEW i \in 1..Len(b) PROVE c[Len(a) + i] = b[i]
  <2>1. b[i] = g[t[i]]
    BY <1>4 DEF Mapped
  <2>2. Len(s) + i \in 1..Len(s \o t)
    BY <1>1, <1>4
  <2>3. c[Len(s) + i] = g[(s \o t)[Len(s) + i]]
    BY <2>2, Zenon DEF Mapped
  <2> QED
    BY <1>3, <1>4, <2>1, <2>3, Zenon
<1>7. Len(c) = Len(a) + Len(b)
  BY <1>4
<1> QED
  BY <1>5, <1>6, <1>7, ConcatIs

LEMMA PiecesConcat ==
  ASSUME NEW M, NEW S, NEW g, Measures(g, M, S), NEW s \in Seq(M), NEW t \in Seq(M)
  PROVE  Pieces(g, s \o t) = Pieces(g, s) \o Pieces(g, t)
<1>1. s \o t \in Seq(M)
  BY ConcatProperties
<1>2. /\ Pieces(g, s) \in Seq(Seq(S)) /\ Mapped(Pieces(g, s), g, s)
      /\ Pieces(g, t) \in Seq(Seq(S)) /\ Mapped(Pieces(g, t), g, t)
      /\ Pieces(g, s \o t) \in Seq(Seq(S)) /\ Mapped(Pieces(g, s \o t), g, s \o t)
  BY <1>1, PiecesType, Zenon
<1> QED
  BY <1>2, MappedConcat

LEMMA GatherConcat ==
  ASSUME NEW M, NEW S, NEW g, Measures(g, M, S), NEW s \in Seq(M), NEW t \in Seq(M)
  PROVE  Gather(g, s \o t) = Gather(g, s) \o Gather(g, t)
<1>1. Pieces(g, s) \in Seq(Seq(S)) /\ Pieces(g, t) \in Seq(Seq(S))
  BY PiecesType
<1>2. FlattenSeq(Pieces(g, s) \o Pieces(g, t)) = FlattenSeq(Pieces(g, s)) \o FlattenSeq(Pieces(g, t))
  BY <1>1, FlattenConcat, Zenon
<1>3. Pieces(g, s \o t) = Pieces(g, s) \o Pieces(g, t)
  BY PiecesConcat
<1> QED
  BY <1>2, <1>3 DEF Gather

LEMMA GatherOne ==
  ASSUME NEW M, NEW S, NEW g, Measures(g, M, S), NEW m \in M
  PROVE  Gather(g, <<m>>) = g[m]
<1>1. Pieces(g, <<m>>) = <<g[m]>>
  BY DEF Pieces
<1>2. g[m] \in Seq(S)
  BY DEF Measures
<1>3. FlattenSeq(<<g[m]>>) = g[m]
  BY <1>2, FlattenOne
<1> QED
  BY <1>1, <1>3 DEF Gather

LEMMA GatherAppend ==
  ASSUME NEW M, NEW S, NEW g, Measures(g, M, S), NEW s \in Seq(M), NEW m \in M
  PROVE  Gather(g, Append(s, m)) = Gather(g, s) \o g[m]
<1>1. PICK u \in Seq(M) : u = <<m>>
  <2>1. <<m>> \in Seq(M)
    OBVIOUS
  <2> QED
    BY <2>1, Zenon
<1>2. Append(s, m) = s \o u
  BY <1>1, AppendIsConcat
<1>3. Gather(g, s \o u) = Gather(g, s) \o Gather(g, u)
  BY GatherConcat
<1>4. Gather(g, u) = g[m]
  BY <1>1, GatherOne
<1> QED
  BY <1>2, <1>3, <1>4

LEMMA GatherTail ==
  ASSUME NEW M, NEW S, NEW g, Measures(g, M, S), NEW s \in Seq(M), s # <<>>
  PROVE  /\ Head(s) \in M /\ Tail(s) \in Seq(M)
         /\ Gather(g, s) = g[Head(s)] \o Gather(g, Tail(s))
<1>1. /\ Head(s) \in M /\ Tail(s) \in Seq(M) /\ <<Head(s)>> \in Seq(M)
      /\ s = <<Head(s)>> \o Tail(s)
  BY HeadAndTail
<1>2. \A x, y \in Seq(M) : Gather(g, x \o y) = Gather(g, x) \o Gather(g, y)
  BY GatherConcat
<1>3. Gather(g, <<Head(s)>> \o Tail(s)) = Gather(g, <<Head(s)>>) \o Gather(g, Tail(s))
  BY <1>1, <1>2
<1>4. Gather(g, <<Head(s)>>) = g[Head(s)]
  BY <1>1, GatherOne
<1> QED
  BY <1>1, <1>3, <1>4

LEMMA GatherNothing ==
  ASSUME NEW M, NEW S, NEW g, Measures(g, M, S), NEW s \in Seq(M)
  PROVE  Gather(g, s) = <<>> <=> \A i \in 1..Len(s) : g[s[i]] = <<>>
<1>1. Pieces(g, s) \in Seq(Seq(S)) /\ Mapped(Pieces(g, s), g, s)
  BY PiecesType
<1>2. FlattenSeq(Pieces(g, s)) = <<>> <=> \A i \in 1..Len(Pieces(g, s)) : Pieces(g, s)[i] = <<>>
  BY <1>1, FlattenNothing
<1> QED
  BY <1>1, <1>2, Zenon DEF Gather, Mapped

-----------------------------------------------------------------------------
(* Increasing sequences.                                                   *)

Increasing(s) == \A i, j \in DOMAIN s : i < j => s[i] < s[j]
Before(A, B) == \A x \in A, y \in B : x < y

LEMMA RangeEmpty == Range(<<>>) = {}
BY DEF Range

LEMMA RangeOne == ASSUME NEW e PROVE Range(<<e>>) = {e}
BY DEF Range

LEMMA RangeMembers ==
  ASSUME NEW S, NEW s \in Seq(S)
  PROVE  /\ Range(s) \subseteq S
         /\ \A i \in 1..Len(s) : s[i] \in Range(s)
         /\ \A x \in Range(s) : \E i \in 1..Len(s) : x = s[i]
         /\ Range(s) = {} <=> s = <<>>
<1>1. Range(s) = {s[i] : i \in 1..Len(s)}
  BY RangeEquality
<1>2. Len(s) \in Nat /\ (s = <<>> <=> Len(s) = 0)
  BY EmptySeq, LenProperties
<1>3. \A i \in 1..Len(s) : s[i] \in S
  BY ElementOfSeq
<1>4. Range(s) = {} <=> s = <<>>
  BY <1>1, <1>2
<1> QED
  BY <1>1, <1>3, <1>4

LEMMA IncreasingConcat ==
  ASSUME NEW s \in Seq(Nat), NEW t \in Seq(Nat)
  PROVE  Increasing(s \o t) <=>
           Increasing(s) /\ Increasing(t) /\ Before(Range(s), Range(t))
<1>1. /\ Len(s) \in Nat /\ Len(t) \in Nat /\ Len(s \o t) = Len(s) + Len(t)
      /\ DOMAIN (s \o t) = 1..(Len(s) + Len(t)) /\ DOMAIN s = 1..Len(s) /\ DOMAIN t = 1..Len(t)
      /\ \A i \in 1..Len(s) : (s \o t)[i] = s[i]
      /\ \A i \in 1..Len(t) : (s \o t)[Len(s) + i] = t[i]
  BY ConcatProperties, LenProperties
<1>2. ASSUME Increasing(s \o t)
      PROVE  Increasing(s) /\ Increasing(t) /\ Before(Range(s), Range(t))
  <2>1. Increasing(s)
    <3> SUFFICES ASSUME NEW i \in 1..Len(s), NEW j \in 1..Len(s), i < j PROVE s[i] < s[j]
      BY <1>1 DEF Increasing
    <3>1. i \in 1..(Len(s) + Len(t)) /\ j \in 1..(Len(s) + Len(t))
      BY <1>1
    <3> QED
      BY <1>1, <1>2, <3>1 DEF Increasing
  <2>2. Increasing(t)
    <3> SUFFICES ASSUME NEW i \in 1..Len(t), NEW j \in 1..Len(t), i < j PROVE t[i] < t[j]
      BY <1>1 DEF Increasing
    <3>1. /\ Len(s) + i \in 1..(Len(s) + Len(t)) /\ Len(s) + j \in 1..(Len(s) + Len(t))
          /\ Len(s) + i < Len(s) + j
      BY <1>1
    <3>2. (s \o t)[Len(s) + i] < (s \o t)[Len(s) + j]
      BY <1>1, <1>2, <3>1 DEF Increasing
    <3> QED
      BY <1>1, <3>2
  <2>3. Before(Range(s), Range(t))
    <3> SUFFICES ASSUME NEW i \in 1..Len(s), NEW j \in 1..Len(t) PROVE s[i] < t[j]
      <4>1. \A x \in Range(s) : \E i \in 1..Len(s) : x = s[i]
        BY RangeMembers
      <4>2. \A x \in Range(t) : \E i \in 1..Len(t) : x = t[i]
        BY RangeMembers
      <4> QED
        BY <4>1, <4>2 DEF Before
    <3>1. i \in 1..(Len(s) + Len(t)) /\ Len(s) + j \in 1..(Len(s) + Len(t)) /\ i < Len(s) + j
      BY <1>1
    <3>2. (s \o t)[i] < (s \o t)[Len(s) + j]
      BY <1>1, <1>2, <3>1 DEF Increasing
    <3> QED
      BY <1>1, <3>2
  <2> QED
    BY <2>1, <2>2, <2>3
<1>3. ASSUME Increasing(s), Increasing(t), Before(Range(s), Range(t))
      PROVE  Increasing(s \o t)
  <2> SUFFICES ASSUME NEW i \in 1..(Len(s) + Len(t)), NEW j \in 1..(Len(s) + Len(t)), i < j
               PROVE  (s \o t)[i] < (s \o t)[j]
    BY <1>1 DEF Increasing
  <2>1. CASE j <= Len(s)
    <3>1. i \in 1..Len(s) /\ j \in 1..Len(s)
      BY <1>1, <2>1
    <3> QED
      BY <1>1, <1>3, <3>1 DEF Increasing
  <2>2. CASE i <= Len(s) /\ Len(s) < j
    <3>1. i \in 1..Len(s) /\ j - Len(s) \in 1..Len(t) /\ Len(s) + (j - Len(s)) = j
      BY <1>1, <2>2
    <3>2. s[i] < t[j - Len(s)]
      BY <1>3, <3>1, RangeMembers DEF Before
    <3>3. (s \o t)[j] = t[j - Len(s)] /\ (s \o t)[i] = s[i]
      BY <1>1, <3>1
    <3> QED
      BY <3>2, <3>3
  <2>3. CASE Len(s) < i
    <3>1. /\ i - Len(s) \in 1..Len(t) /\ Len(s) + (i - Len(s)) = i
          /\ j - Len(s) \in 1..Len(t) /\ Len(s) + (j - Len(s)) = j /\ i - Len(s) < j - Len(s)
      BY <1>1, <2>3
    <3>2. t[i - Len(s)] < t[j - Len(s)]
      BY <1>1, <1>3, <3>1 DEF Increasing
    <3>3. (s \o t)[j] = t[j - Len(s)] /\ (s \o t)[i] = t[i - Len(s)]
      BY <1>1, <3>1
    <3> QED
      BY <3>2, <3>3
  <2> QED
    BY <1>1, <2>1, <2>2, <2>3, SMTT(40)
<1> QED
  BY <1>2, <1>3
=============================================================================
