--------------------------- MODULE SequenceLemmas ---------------------------
(***************************************************************************)
(* Facts about lists and numbers that are shared by the proofs: inserting, *)
(* appending and removing one element, counting, and induction.            *)
(***************************************************************************)
EXTENDS Integers, Sublists, SequencesExt, SequenceTheorems, FiniteSetTheorems,
        WellFoundedInduction, TLAPS

\* Inserting behind the last element is appending.
LEMMA InsertAtEnd ==
    ASSUME NEW S, NEW s \in Seq(S), NEW e \in S
    PROVE  InsertAt(s, Len(s) + 1, e) = Append(s, e)
<1>1. Len(s) \in Nat
  BY LenProperties
<1>2. SubSeq(s, 1, (Len(s) + 1) - 1) = s
  BY <1>1, SubSeqFull
<1>3. SubSeq(s, Len(s) + 1, Len(s)) = <<>>
  BY <1>1, SubSeqEmpty
<1>4. <<e>> \in Seq(S)
  OBVIOUS
<1>5. (s \o <<e>>) \o <<>> = s \o <<e>>
  BY <1>4, ConcatProperties, ConcatEmptySeq
<1>6. Append(s, e) = s \o <<e>>
  BY AppendIsConcat
<1> QED
  BY <1>2, <1>3, <1>5, <1>6 DEF InsertAt

\* What a list looks like without one of its elements, position by position.
LEMMA RemoveAtElements ==
    ASSUME NEW S, NEW s \in Seq(S), NEW i \in 1 .. Len(s)
    PROVE  /\ RemoveAt(s, i) \in Seq(S)
           /\ Len(RemoveAt(s, i)) = Len(s) - 1
           /\ \A j \in 1 .. Len(s) - 1 :
                 RemoveAt(s, i)[j] = IF j < i THEN s[j] ELSE s[j + 1]
<1> DEFINE a == SubSeq(s, 1, i - 1)
           b == SubSeq(s, i + 1, Len(s))
<1>1. Len(s) \in Nat /\ \A j \in 1 .. Len(s) : s[j] \in S
  BY LenProperties
<1>2. /\ a \in Seq(S) /\ Len(a) = i - 1
      /\ \A j \in 1 .. i - 1 : a[j] = s[j]
  <2>1. \A j \in 1 .. i - 1 : s[j] \in S
    BY <1>1
  <2>2. /\ a \in Seq(S)
        /\ Len(a) = IF 1 <= i - 1 THEN (i - 1) - 1 + 1 ELSE 0
        /\ \A j \in 1 .. (i - 1) - 1 + 1 : a[j] = s[1 + j - 1]
    BY <1>1, <2>1, SubSeqProperties
  <2> QED
    BY <1>1, <2>2
<1>3. /\ b \in Seq(S) /\ Len(b) = Len(s) - i
      /\ \A j \in 1 .. Len(s) - i : b[j] = s[i + j]
  <2>1. \A j \in i + 1 .. Len(s) : s[j] \in S
    BY <1>1
  <2>2. /\ b \in Seq(S)
        /\ Len(b) = IF i + 1 <= Len(s) THEN Len(s) - (i + 1) + 1 ELSE 0
        /\ \A j \in 1 .. Len(s) - (i + 1) + 1 : b[j] = s[i + 1 + j - 1]
    BY <1>1, <2>1, SubSeqProperties
  <2> QED
    BY <1>1, <2>2
<1> HIDE DEF a, b
<1>4. /\ a \o b \in Seq(S)
      /\ Len(a \o b) = Len(a) + Len(b)
      /\ \A j \in 1 .. Len(a) + Len(b) :
            (a \o b)[j] = IF j <= Len(a) THEN a[j] ELSE b[j - Len(a)]
  BY <1>2, <1>3, ConcatProperties
<1>5. \A j \in 1 .. Len(s) - 1 :
         (a \o b)[j] = IF j < i THEN s[j] ELSE s[j + 1]
  <2> SUFFICES ASSUME NEW j \in 1 .. Len(s) - 1
               PROVE  (a \o b)[j] = IF j < i THEN s[j] ELSE s[j + 1]
    OBVIOUS
  <2>1. CASE j < i
    BY <1>1, <1>2, <1>3, <1>4, <2>1
  <2>2. CASE ~(j < i)
    <3> DEFINE k == j - (i - 1)
    <3>1. k \in 1 .. Len(s) - i /\ i + k = j + 1
      BY <1>1, <2>2
    <3>2. (a \o b)[j] = b[k]
      BY <1>1, <1>2, <1>3, <1>4, <2>2
    <3> HIDE DEF k
    <3>3. b[k] = s[i + k]
      BY <1>3, <3>1
    <3> QED
      BY <2>2, <3>1, <3>2, <3>3
  <2> QED
    BY <2>1, <2>2
<1>6. RemoveAt(s, i) = a \o b
  BY DEF RemoveAt, a, b
<1> QED
  BY <1>1, <1>2, <1>3, <1>4, <1>5, <1>6

\* Removal takes exactly one element away and leaves no duplicates.
LEMMA RemoveAtRange ==
    ASSUME NEW S, NEW s \in Seq(S), IsInjective(s), NEW i \in 1 .. Len(s)
    PROVE  /\ Range(RemoveAt(s, i)) = Range(s) \ {s[i]}
           /\ IsInjective(RemoveAt(s, i))
<1> DEFINE t == RemoveAt(s, i)
<1>1. Len(s) \in Nat /\ DOMAIN s = 1 .. Len(s)
  BY LenProperties
<1>2. /\ DOMAIN t = 1 .. Len(s) - 1
      /\ \A j \in 1 .. Len(s) - 1 : t[j] = IF j < i THEN s[j] ELSE s[j + 1]
  BY RemoveAtElements, LenProperties
<1>3. \A j, k \in 1 .. Len(s) : s[j] = s[k] => j = k
  BY <1>1 DEF IsInjective
<1> HIDE DEF t
<1>4. Range(t) \subseteq Range(s) \ {s[i]}
  <2> SUFFICES ASSUME NEW j \in 1 .. Len(s) - 1
               PROVE  t[j] \in Range(s) /\ t[j] # s[i]
    BY <1>2 DEF Range
  <2>1. CASE j < i
    BY <1>1, <1>2, <1>3, <2>1 DEF Range
  <2>2. CASE ~(j < i)
    <3>1. t[j] = s[j + 1] /\ j + 1 \in 1 .. Len(s) /\ j + 1 # i
      BY <1>1, <1>2, <2>2
    <3> QED
      BY <1>1, <1>3, <3>1 DEF Range
  <2> QED
    BY <2>1, <2>2
<1>5. Range(s) \ {s[i]} \subseteq Range(t)
  <2> SUFFICES ASSUME NEW j \in 1 .. Len(s), s[j] # s[i]
               PROVE  \E k \in 1 .. Len(s) - 1 : t[k] = s[j]
    BY <1>1, <1>2 DEF Range
  <2>1. CASE j < i
    <3>1. j \in 1 .. Len(s) - 1 /\ t[j] = s[j]
      BY <1>1, <1>2, <2>1
    <3> QED
      BY <3>1
  <2>2. CASE ~(j < i)
    <3>1. j - 1 \in 1 .. Len(s) - 1 /\ ~(j - 1 < i) /\ (j - 1) + 1 = j
      BY <1>1, <2>2
    <3>2. t[j - 1] = s[j]
      BY <1>2, <3>1
    <3> QED
      BY <3>1, <3>2
  <2> QED
    BY <2>1, <2>2
<1>6. \A j, k \in 1 .. Len(s) - 1 : t[j] = t[k] => j = k
  BY <1>1, <1>2, <1>3
<1> QED
  BY <1>2, <1>4, <1>5, <1>6 DEF IsInjective, t

\* Appending an element that is not on the list adds exactly that one.
LEMMA AppendRange ==
    ASSUME NEW S, NEW s \in Seq(S), IsInjective(s), NEW e \in S, e \notin Range(s)
    PROVE  /\ Range(Append(s, e)) = Range(s) \cup {e}
           /\ IsInjective(Append(s, e))
<1>1. Len(s) \in Nat /\ DOMAIN s = 1 .. Len(s)
  BY LenProperties
<1>2. /\ DOMAIN Append(s, e) = 1 .. Len(s) + 1
      /\ \A j \in 1 .. Len(s) : Append(s, e)[j] = s[j]
      /\ Append(s, e)[Len(s) + 1] = e
  BY AppendProperties, LenProperties
<1>3. \A j \in 1 .. Len(s) : s[j] # e
  BY <1>1 DEF Range
<1>4. \A j \in 1 .. Len(s) + 1 : j \in 1 .. Len(s) \/ j = Len(s) + 1
  BY <1>1
<1>5. Len(s) + 1 \in 1 .. Len(s) + 1 /\ 1 .. Len(s) \subseteq 1 .. Len(s) + 1
  BY <1>1
<1> QED
  BY <1>1, <1>2, <1>3, <1>4, <1>5 DEF IsInjective, Range

\* Induction, over a set of numbers.
LEMMA SetInduction ==
    ASSUME NEW T, 0 \in T, \A n \in Nat : n \in T => n + 1 \in T
    PROVE  Nat \subseteq T
<1> SUFFICES ASSUME Nat \ T # {} PROVE FALSE
  OBVIOUS
<1>1. IsWellFoundedOn(OpToRel(<, Nat), Nat)
  BY NatLessThanWellFounded
<1>2. PICK x \in Nat \ T : \A y \in Nat \ T : <<y, x>> \notin OpToRel(<, Nat)
  BY <1>1, WFMin
<1>3. \A y \in Nat \ T : ~(y < x)
  BY <1>2 DEF OpToRel
<1>4. x # 0 /\ x - 1 \in Nat
  OBVIOUS
<1> QED
  BY <1>3, <1>4

\* The least of a set of numbers.
LEMMA LeastOf ==
    ASSUME NEW I \in SUBSET Nat, I # {}
    PROVE  Min(I) \in I /\ \A j \in I : Min(I) <= j
<1>1. \E m \in I : \A j \in I : m <= j
  <2> SUFFICES ASSUME \A m \in I : \E j \in I : j < m PROVE FALSE
    OBVIOUS
  <2> DEFINE T == {n \in Nat : \A m \in 0 .. n : m \notin I}
  <2>1. 0 \in T
    OBVIOUS
  <2>2. \A n \in Nat : n \in T => n + 1 \in T
    OBVIOUS
  <2>3. Nat \subseteq T
    <3> HIDE DEF T
    <3> QED
      BY <2>1, <2>2, SetInduction
  <2>4. PICK m \in I : TRUE
    OBVIOUS
  <2>5. m \in Nat /\ m \in T
    BY <2>3
  <2>6. m \in 0 .. m
    BY <2>5
  <2> QED
    BY <2>4, <2>5, <2>6
<1> QED
  BY <1>1 DEF Min

\* The image of a finite set is finite.
LEMMA ImageFinite ==
    ASSUME NEW f, IsFiniteSet(DOMAIN f)
    PROVE  IsFiniteSet({f[x] : x \in DOMAIN f})
<1> DEFINE g == [x \in DOMAIN f |-> f[x]]
           T == {f[x] : x \in DOMAIN f}
<1>1. g \in Surjection(DOMAIN f, T)
  BY DEF Surjection
<1> QED
  BY <1>1, FS_Surjection

\* A list without duplicates has as many elements as places.
LEMMA InjectiveCount ==
    ASSUME NEW S, NEW s \in Seq(S), IsInjective(s)
    PROVE  IsFiniteSet(Range(s)) /\ Cardinality(Range(s)) = Len(s)
<1> DEFINE n == Len(s)
<1>1. n \in Nat /\ DOMAIN s = 1 .. n /\ s \in [1 .. n -> Range(s)]
  BY LenProperties DEF Range
<1>2. s \in Bijection(1 .. n, Range(s))
  BY <1>1 DEF Bijection, Injection, Surjection, Range
<1>3. ExistsBijection(1 .. n, Range(s))
  BY <1>2 DEF ExistsBijection
<1>4. IsFiniteSet(Range(s))
  BY <1>1, <1>3, FS_NatBijection
<1> QED
  BY <1>1, <1>3, <1>4, FS_CountingElements

\* f[i] is what is kept of the first i entries of s.
IsUpto(f, s, G) == /\ f[0] = <<>>
                   /\ \A i \in 1 .. Len(s) : f[i] = IF s[i] \in G THEN Append(f[i - 1], s[i]) ELSE f[i - 1]
                   /\ Kept(s, G) = f[Len(s)]

\* Kept is computed from the front, one entry after the other.
LEMMA KeptUpto ==
    ASSUME NEW S, NEW s \in Seq(S), NEW G
    PROVE  \E f \in [0 .. Len(s) -> Seq(S)] : IsUpto(f, s, G)
<1> DEFINE N == Len(s)
           Next(i, t) == IF s[i] \in G THEN Append(t, s[i]) ELSE t
           upto[i \in 0 .. N] == IF i = 0 THEN <<>>
                                 ELSE IF s[i] \in G THEN Append(upto[i - 1], s[i])
                                 ELSE upto[i - 1]
           Good(g, n) == \A i \in 0 .. n : g[i] = IF i = 0 THEN <<>> ELSE Next(i, g[i - 1])
<1>1. N \in Nat /\ DOMAIN s = 1 .. N /\ \A i \in 1 .. N : s[i] \in S
  BY LenProperties
<1>2. \E g \in [0 .. N -> Seq(S)] : Good(g, N)
  <2> DEFINE T == {n \in Nat : n <= N => \E g \in [0 .. n -> Seq(S)] : Good(g, n)}
  <2>1. 0 \in T
    <3> DEFINE g == [i \in 0 .. 0 |-> <<>>]
    <3>1. g \in [0 .. 0 -> Seq(S)] /\ Good(g, 0)
      OBVIOUS
    <3> QED
      BY <3>1
  <2>2. ASSUME NEW n \in Nat, n \in T PROVE n + 1 \in T
    <3> HIDE DEF Good
    <3> SUFFICES ASSUME n + 1 <= N PROVE \E g \in [0 .. n + 1 -> Seq(S)] : Good(g, n + 1)
      BY <2>2
    <3>1. PICK g \in [0 .. n -> Seq(S)] : Good(g, n)
      BY <1>1, <2>2
    <3> USE DEF Good
    <3> DEFINE f == [i \in 0 .. n + 1 |-> IF i = n + 1 THEN Next(n + 1, g[n]) ELSE g[i]]
    <3>2. g[n] \in Seq(S) /\ s[n + 1] \in S
      BY <1>1, <3>1
    <3>3. Next(n + 1, g[n]) \in Seq(S)
      BY <3>2, AppendProperties
    <3> HIDE DEF Next
    <3>4. f \in [0 .. n + 1 -> Seq(S)]
      BY <3>1, <3>3
    <3>5. ASSUME NEW i \in 0 .. n + 1
          PROVE  f[i] = IF i = 0 THEN <<>> ELSE Next(i, f[i - 1])
      BY <3>1
    <3> QED
      BY <3>4, <3>5
  <2> HIDE DEF T
  <2>3. N \in T
    BY <1>1, <2>1, <2>2, SetInduction
  <2> QED
    BY <1>1, <2>3 DEF T
<1>3. /\ DOMAIN upto = 0 .. N
      /\ upto[0] = <<>>
      /\ \A i \in 1 .. N : upto[i] = Next(i, upto[i - 1])
  <2> DEFINE Eqn(g) == [i \in 0 .. N |-> IF i = 0 THEN <<>>
                                 ELSE IF s[i] \in G THEN Append(g[i - 1], s[i])
                                 ELSE g[i - 1]]
  <2>1. PICK g \in [0 .. N -> Seq(S)] : Good(g, N)
    BY <1>2
  <2>2. g = Eqn(g)
    BY <2>1
  <2>3. upto = Eqn(upto)
    BY <2>2
  <2> HIDE DEF upto
  <2>4. DOMAIN upto = 0 .. N
    BY <2>3
  <2>5. ASSUME NEW i \in 0 .. N PROVE upto[i] = IF i = 0 THEN <<>> ELSE Next(i, upto[i - 1])
    BY <2>3
  <2>6. 0 \in 0 .. N /\ \A i \in 1 .. N : i \in 0 .. N /\ i # 0
    BY <1>1
  <2> HIDE DEF Next
  <2> QED
    BY <2>4, <2>5, <2>6
<1>4. Kept(s, G) = upto[N]
  BY DEF Kept
<1> HIDE DEF upto
<1>5. \A i \in 0 .. N : upto[i] \in Seq(S)
  <2> DEFINE T == {n \in Nat : n <= N => upto[n] \in Seq(S)}
  <2>1. 0 \in T
    <3>1. upto[0] = <<>> /\ <<>> \in Seq(S)
      BY <1>3
    <3> QED
      BY <3>1
  <2>2. ASSUME NEW n \in Nat, n \in T PROVE n + 1 \in T
    <3> SUFFICES ASSUME n + 1 <= N PROVE upto[n + 1] \in Seq(S)
      OBVIOUS
    <3>1. n + 1 \in 1 .. N /\ (n + 1) - 1 = n /\ s[n + 1] \in S /\ upto[n] \in Seq(S)
      BY <1>1, <2>2
    <3>2. upto[n + 1] = Next(n + 1, upto[n])
      BY <1>3, <3>1
    <3> QED
      BY <3>1, <3>2, AppendProperties
  <2> HIDE DEF T
  <2>3. Nat \subseteq T
    BY <2>1, <2>2, SetInduction
  <2> QED
    BY <1>1, <2>3 DEF T
<1> DEFINE f == [i \in 0 .. N |-> upto[i]]
<1>6. f \in [0 .. N -> Seq(S)]
  BY <1>5
<1>7. \A i \in 0 .. N : f[i] = upto[i]
  OBVIOUS
<1> HIDE DEF f
<1>8. 0 \in 0 .. N /\ N \in 0 .. N /\ \A i \in 1 .. N : i \in 0 .. N /\ i - 1 \in 0 .. N
  BY <1>1
<1>9. f[0] = <<>> /\ Kept(s, G) = f[N]
  BY <1>3, <1>4, <1>7, <1>8
<1>10. \A i \in 1 .. N : f[i] = Next(i, f[i - 1])
  BY <1>3, <1>7, <1>8
<1> QED
  BY <1>6, <1>9, <1>10 DEF IsUpto

\* t has the entries of s that are in G, at increasing places, and those only.
Picked(t, s, G) ==
    \E h \in [1 .. Len(t) -> 1 .. Len(s)] :
       /\ \A i, j \in 1 .. Len(t) : i < j => h[i] < h[j]
       /\ \A j \in 1 .. Len(t) : t[j] = s[h[j]] /\ s[h[j]] \in G
       /\ \A i \in 1 .. Len(s) : s[i] \in G => \E j \in 1 .. Len(t) : h[j] = i

\* Kept keeps the entries of G, in their order.
LEMMA KeptEntries ==
    ASSUME NEW S, NEW s \in Seq(S), NEW G
    PROVE  Kept(s, G) \in Seq(S) /\ Picked(Kept(s, G), s, G)
<1> DEFINE N == Len(s)
           Next(i, t) == IF s[i] \in G THEN Append(t, s[i]) ELSE t
<1>1. N \in Nat /\ DOMAIN s = 1 .. N /\ \A i \in 1 .. N : s[i] \in S
  BY LenProperties
<1>2. PICK upto \in [0 .. Len(s) -> Seq(S)] : IsUpto(upto, s, G)
  BY KeptUpto
<1>3. /\ upto[0] = <<>>
      /\ \A i \in 1 .. N : upto[i] = Next(i, upto[i - 1])
  BY <1>2 DEF IsUpto
<1>4. Kept(s, G) = upto[N]
  BY <1>2 DEF IsUpto
\* What is kept of the first n entries.
<1> DEFINE Sound(n) ==
        /\ upto[n] \in Seq(S)
        /\ \E h \in [1 .. Len(upto[n]) -> 1 .. n] :
              /\ \A i, j \in 1 .. Len(upto[n]) : i < j => h[i] < h[j]
              /\ \A j \in 1 .. Len(upto[n]) : upto[n][j] = s[h[j]] /\ s[h[j]] \in G
              /\ \A i \in 1 .. n : s[i] \in G => \E j \in 1 .. Len(upto[n]) : h[j] = i
           T == {n \in Nat : n <= N => Sound(n)}
<1> HIDE DEF Sound
<1>5. 0 \in T
  <2>1. Len(upto[0]) = 0 /\ upto[0] \in Seq(S)
    BY <1>3
  <2> DEFINE h == [j \in 1 .. 0 |-> 0]
  <2>2. h \in [1 .. 0 -> 1 .. 0]
    OBVIOUS
  <2> HIDE DEF h
  <2>3. Sound(0)
    BY <2>1, <2>2 DEF Sound
  <2> QED
    BY <2>3
<1>6. ASSUME NEW n \in Nat, n \in T PROVE n + 1 \in T
  <2> SUFFICES ASSUME n + 1 <= N PROVE Sound(n + 1)
    OBVIOUS
  <2>1. Sound(n)
    BY <1>1, <1>6
  <2> DEFINE t == upto[n]
             m == Len(t)
             u == upto[n + 1]
  <2>2. t \in Seq(S) /\ m \in Nat /\ u = Next(n + 1, t) /\ s[n + 1] \in S
    BY <1>1, <1>3, <2>1, LenProperties DEF Sound
  <2>3. PICK h \in [1 .. m -> 1 .. n] :
              /\ \A i, j \in 1 .. m : i < j => h[i] < h[j]
              /\ \A j \in 1 .. m : t[j] = s[h[j]] /\ s[h[j]] \in G
              /\ \A i \in 1 .. n : s[i] \in G => \E j \in 1 .. m : h[j] = i
    BY <2>1 DEF Sound
  <2>4. CASE s[n + 1] \notin G
    <3>1. u = t
      BY <2>2, <2>4
    <3>2. h \in [1 .. m -> 1 .. n + 1]
      BY <2>2, <2>3
    <3>3. \A i \in 1 .. n + 1 : s[i] \in G => \E j \in 1 .. m : h[j] = i
      <4>1. \A i \in 1 .. n + 1 : i \in 1 .. n \/ i = n + 1
        OBVIOUS
      <4> QED
        BY <2>3, <2>4, <4>1
    <3> HIDE DEF t
    <3>4. \E f \in [1 .. Len(t) -> 1 .. n + 1] :
              /\ \A i, j \in 1 .. Len(t) : i < j => f[i] < f[j]
              /\ \A j \in 1 .. Len(t) : t[j] = s[f[j]] /\ s[f[j]] \in G
              /\ \A i \in 1 .. n + 1 : s[i] \in G => \E j \in 1 .. Len(t) : f[j] = i
      BY <2>3, <3>2, <3>3
    <3>5. upto[n + 1] = t /\ t \in Seq(S)
      BY <2>2, <3>1
    <3> HIDE DEF m, u, Next
    <3> QED
      BY <3>4, <3>5 DEF Sound
  <2>5. CASE s[n + 1] \in G
    <3>1. /\ u = Append(t, s[n + 1]) /\ u \in Seq(S) /\ Len(u) = m + 1
          /\ \A j \in 1 .. m : u[j] = t[j]
          /\ u[m + 1] = s[n + 1]
      BY <2>2, <2>5, AppendProperties
    <3> DEFINE f == [j \in 1 .. m + 1 |-> IF j = m + 1 THEN n + 1 ELSE h[j]]
    <3> HIDE DEF t, m, u, Next
    <3>2. \A j \in 1 .. m + 1 : j \in 1 .. m \/ j = m + 1
      BY <2>2
    <3>3. f \in [1 .. m + 1 -> 1 .. n + 1]
      BY <2>2, <2>3, <3>2
    <3>4. f[m + 1] = n + 1 /\ \A j \in 1 .. m : f[j] = h[j] /\ h[j] \in 1 .. n /\ f[j] < n + 1
      BY <2>2, <2>3
    <3> HIDE DEF f
    <3>5. \A i, j \in 1 .. m + 1 : i < j => f[i] < f[j]
      <4> SUFFICES ASSUME NEW i \in 1 .. m + 1, NEW j \in 1 .. m + 1, i < j PROVE f[i] < f[j]
        OBVIOUS
      <4>1. i \in 1 .. m
        BY <2>2
      <4> QED
        BY <2>3, <3>2, <3>4, <4>1
    <3>6. \A j \in 1 .. m + 1 : u[j] = s[f[j]] /\ s[f[j]] \in G
      BY <2>3, <2>5, <3>1, <3>2, <3>4
    <3>7. \A i \in 1 .. n + 1 : s[i] \in G => \E j \in 1 .. m + 1 : f[j] = i
      <4> SUFFICES ASSUME NEW i \in 1 .. n + 1, s[i] \in G PROVE \E j \in 1 .. m + 1 : f[j] = i
        OBVIOUS
      <4>1. CASE i = n + 1
        BY <2>2, <3>4, <4>1
      <4>2. CASE i \in 1 .. n
        <5>1. PICK j \in 1 .. m : h[j] = i
          BY <2>3, <4>2
        <5>2. j \in 1 .. m + 1 /\ f[j] = i
          BY <2>2, <3>4, <5>1
        <5> QED
          BY <5>2
      <4> QED
        BY <4>1, <4>2
    <3>8. u \in Seq(S) /\ \E g \in [1 .. Len(u) -> 1 .. n + 1] :
              /\ \A i, j \in 1 .. Len(u) : i < j => g[i] < g[j]
              /\ \A j \in 1 .. Len(u) : u[j] = s[g[j]] /\ s[g[j]] \in G
              /\ \A i \in 1 .. n + 1 : s[i] \in G => \E j \in 1 .. Len(u) : g[j] = i
      <4>1. 1 .. Len(u) = 1 .. m + 1 /\ u \in Seq(S)
        BY <3>1
      <4>2. f \in [1 .. Len(u) -> 1 .. n + 1]
        BY <3>3, <4>1
      <4>3. \A i, j \in 1 .. Len(u) : i < j => f[i] < f[j]
        BY <3>5, <4>1
      <4>4. \A j \in 1 .. Len(u) : u[j] = s[f[j]] /\ s[f[j]] \in G
        BY <3>6, <4>1
      <4>5. \A i \in 1 .. n + 1 : s[i] \in G => \E j \in 1 .. Len(u) : f[j] = i
        BY <3>7, <4>1
      <4> QED
        BY <4>1, <4>2, <4>3, <4>4, <4>5
    <3> QED
      BY <3>8 DEF Sound, u
  <2> QED
    BY <2>4, <2>5
<1> HIDE DEF Sound
<1>7. Sound(N)
  <2> HIDE DEF T
  <2>1. N \in T
    BY <1>1, <1>5, <1>6, SetInduction
  <2> QED
    BY <1>1, <2>1 DEF T
<1> DEFINE k == upto[N]
<1>8. Kept(s, G) = k
  BY <1>4
<1>9. /\ k \in Seq(S)
      /\ \E h \in [1 .. Len(k) -> 1 .. N] :
            /\ \A i, j \in 1 .. Len(k) : i < j => h[i] < h[j]
            /\ \A j \in 1 .. Len(k) : k[j] = s[h[j]] /\ s[h[j]] \in G
            /\ \A i \in 1 .. N : s[i] \in G => \E j \in 1 .. Len(k) : h[j] = i
  BY <1>7 DEF Sound
<1> HIDE DEF k, T
<1>10. Picked(k, s, G)
  BY <1>9 DEF Picked
<1> QED
  BY <1>8, <1>9, <1>10

\* What is kept of a list without duplicates has none, and is what was in it of G.
LEMMA KeptRange ==
    ASSUME NEW S, NEW s \in Seq(S), NEW G
    PROVE  /\ Kept(s, G) \in Seq(S)
           /\ Range(Kept(s, G)) = Range(s) \cap G
           /\ IsInjective(s) => IsInjective(Kept(s, G))
<1> DEFINE t == Kept(s, G)
<1> HIDE DEF t
<1>1. t \in Seq(S) /\ Picked(t, s, G)
  BY KeptEntries DEF t
<1>2. PICK h \in [1 .. Len(t) -> 1 .. Len(s)] :
                 /\ \A i, j \in 1 .. Len(t) : i < j => h[i] < h[j]
                 /\ \A j \in 1 .. Len(t) : t[j] = s[h[j]] /\ s[h[j]] \in G
                 /\ \A i \in 1 .. Len(s) : s[i] \in G => \E j \in 1 .. Len(t) : h[j] = i
  BY <1>1 DEF Picked
<1>3. /\ Len(t) \in Nat /\ DOMAIN t = 1 .. Len(t)
      /\ Len(s) \in Nat /\ DOMAIN s = 1 .. Len(s)
  BY <1>1, LenProperties
<1>4. Range(t) = Range(s) \cap G
  <2>1. ASSUME NEW j \in 1 .. Len(t) PROVE t[j] \in Range(s) \cap G
    BY <1>2, <1>3 DEF Range
  <2>2. ASSUME NEW i \in 1 .. Len(s), s[i] \in G PROVE s[i] \in Range(t)
    <3>1. PICK j \in 1 .. Len(t) : h[j] = i
      BY <1>2, <2>2
    <3>2. t[j] = s[i]
      BY <1>2, <3>1
    <3> QED
      BY <1>3, <3>2 DEF Range
  <2> QED
    BY <1>3, <2>1, <2>2 DEF Range
<1>5. ASSUME IsInjective(s), NEW i \in 1 .. Len(t), NEW j \in 1 .. Len(t), t[i] = t[j]
      PROVE  i = j
  <2>1. h[i] = h[j] /\ h[i] \in Int
    BY <1>2, <1>3, <1>5 DEF IsInjective
  <2> QED
    BY <1>2, <1>3, <2>1
<1>6. IsInjective(s) => IsInjective(t)
  BY <1>3, <1>5 DEF IsInjective
<1> QED
  BY <1>1, <1>4, <1>6 DEF t

\* What a list looks like with one more element, position by position.
LEMMA InsertAtElements ==
    ASSUME NEW S, NEW s \in Seq(S), NEW e \in S, NEW i \in 1 .. Len(s) + 1
    PROVE  /\ InsertAt(s, i, e) \in Seq(S)
           /\ Len(InsertAt(s, i, e)) = Len(s) + 1
           /\ \A j \in 1 .. Len(s) + 1 :
                 InsertAt(s, i, e)[j] = IF j < i THEN s[j] ELSE IF j = i THEN e ELSE s[j - 1]
<1> DEFINE a == SubSeq(s, 1, i - 1)
           b == SubSeq(s, i, Len(s))
           d == <<e>>
           c == a \o d
<1>1. Len(s) \in Nat /\ \A j \in 1 .. Len(s) : s[j] \in S
  BY LenProperties
<1>2. /\ a \in Seq(S) /\ Len(a) = i - 1
      /\ \A j \in 1 .. i - 1 : a[j] = s[j]
  <2>1. \A j \in 1 .. i - 1 : s[j] \in S
    BY <1>1
  <2>2. /\ a \in Seq(S)
        /\ Len(a) = IF 1 <= i - 1 THEN (i - 1) - 1 + 1 ELSE 0
        /\ \A j \in 1 .. (i - 1) - 1 + 1 : a[j] = s[1 + j - 1]
    BY <1>1, <2>1, SubSeqProperties
  <2> QED
    BY <1>1, <2>2
<1>3. /\ b \in Seq(S) /\ Len(b) = Len(s) - i + 1
      /\ \A j \in 1 .. Len(s) - i + 1 : b[j] = s[i + j - 1]
  <2>1. \A j \in i .. Len(s) : s[j] \in S
    BY <1>1
  <2>2. /\ b \in Seq(S)
        /\ Len(b) = IF i <= Len(s) THEN Len(s) - i + 1 ELSE 0
        /\ \A j \in 1 .. Len(s) - i + 1 : b[j] = s[i + j - 1]
    BY <1>1, <2>1, SubSeqProperties
  <2> QED
    BY <1>1, <2>2
<1> HIDE DEF a, b
<1>4. /\ d \in Seq(S) /\ Len(d) = 1 /\ d[1] = e
  OBVIOUS
<1> HIDE DEF d
<1>5. /\ c \in Seq(S) /\ Len(c) = i
      /\ \A j \in 1 .. i - 1 : c[j] = s[j]
      /\ c[i] = e
  <2>1. /\ c \in Seq(S)
        /\ Len(c) = Len(a) + Len(d)
        /\ \A j \in 1 .. Len(a) + Len(d) : c[j] = IF j <= Len(a) THEN a[j] ELSE d[j - Len(a)]
    BY <1>2, <1>4, ConcatProperties
  <2>2. i \in 1 .. Len(a) + Len(d) /\ ~(i <= Len(a)) /\ i - Len(a) = 1
    BY <1>1, <1>2, <1>4
  <2>3. c[i] = d[1]
    BY <2>1, <2>2
  <2> HIDE DEF c
  <2> QED
    BY <1>1, <1>2, <1>4, <2>1, <2>3
<1> HIDE DEF c
<1>6. /\ c \o b \in Seq(S)
      /\ Len(c \o b) = Len(c) + Len(b)
      /\ \A j \in 1 .. Len(c) + Len(b) :
            (c \o b)[j] = IF j <= Len(c) THEN c[j] ELSE b[j - Len(c)]
  BY <1>3, <1>5, ConcatProperties
<1>7. \A j \in 1 .. Len(s) + 1 :
         (c \o b)[j] = IF j < i THEN s[j] ELSE IF j = i THEN e ELSE s[j - 1]
  <2> SUFFICES ASSUME NEW j \in 1 .. Len(s) + 1
               PROVE  (c \o b)[j] = IF j < i THEN s[j] ELSE IF j = i THEN e ELSE s[j - 1]
    OBVIOUS
  <2>1. CASE j <= i
    BY <1>1, <1>3, <1>5, <1>6, <2>1
  <2>2. CASE ~(j <= i)
    <3> DEFINE k == j - i
    <3>1. k \in 1 .. Len(s) - i + 1 /\ i + k - 1 = j - 1
      BY <1>1, <2>2
    <3>2. (c \o b)[j] = b[k]
      BY <1>1, <1>3, <1>5, <1>6, <2>2
    <3> HIDE DEF k
    <3>3. b[k] = s[j - 1]
      BY <1>3, <3>1
    <3> QED
      BY <2>2, <3>2, <3>3
  <2> QED
    BY <2>1, <2>2
<1>8. InsertAt(s, i, e) = c \o b
  BY DEF InsertAt, a, b, c, d
<1> QED
  BY <1>1, <1>3, <1>5, <1>6, <1>7, <1>8

\* Inserting adds one element, and no duplicate if it is a new one.
LEMMA InsertAtRange ==
    ASSUME NEW S, NEW s \in Seq(S), NEW e \in S, NEW i \in 1 .. Len(s) + 1
    PROVE  /\ Range(InsertAt(s, i, e)) = Range(s) \cup {e}
           /\ IsInjective(s) /\ e \notin Range(s) => IsInjective(InsertAt(s, i, e))
<1> DEFINE t == InsertAt(s, i, e)
<1>1. Len(s) \in Nat /\ DOMAIN s = 1 .. Len(s)
  BY LenProperties
<1>2. /\ DOMAIN t = 1 .. Len(s) + 1
      /\ \A j \in 1 .. Len(s) + 1 : t[j] = IF j < i THEN s[j] ELSE IF j = i THEN e ELSE s[j - 1]
  <2>1. t \in Seq(S) /\ Len(t) = Len(s) + 1
    BY InsertAtElements
  <2>2. DOMAIN t = 1 .. Len(t)
    BY <2>1, LenProperties
  <2>3. \A j \in 1 .. Len(s) + 1 : t[j] = IF j < i THEN s[j] ELSE IF j = i THEN e ELSE s[j - 1]
    BY InsertAtElements
  <2> HIDE DEF t
  <2> QED
    BY <2>1, <2>2, <2>3
<1> HIDE DEF t
<1>3. ASSUME NEW j \in 1 .. Len(s) + 1, j # i
      PROVE  \E k \in 1 .. Len(s) : t[j] = s[k] /\ k = IF j < i THEN j ELSE j - 1
  BY <1>1, <1>2, <1>3
<1>4. ASSUME NEW k \in 1 .. Len(s)
      PROVE  \E j \in 1 .. Len(s) + 1 : t[j] = s[k]
  <2>1. CASE k < i
    BY <1>1, <1>2, <2>1
  <2>2. CASE ~(k < i)
    <3>1. k + 1 \in 1 .. Len(s) + 1 /\ ~(k + 1 < i) /\ k + 1 # i /\ (k + 1) - 1 = k
      BY <1>1, <2>2
    <3> QED
      BY <1>2, <3>1
  <2> QED
    BY <2>1, <2>2
<1>5. t[i] = e
  BY <1>1, <1>2
<1>6. Range(t) = Range(s) \cup {e}
  <2>1. \A j \in 1 .. Len(s) + 1 : t[j] \in Range(s) \cup {e}
    BY <1>1, <1>3, <1>5 DEF Range
  <2>2. e \in Range(t) /\ \A k \in 1 .. Len(s) : s[k] \in Range(t)
    BY <1>2, <1>4, <1>5 DEF Range
  <2> QED
    BY <1>1, <1>2, <2>1, <2>2 DEF Range
<1>7. ASSUME IsInjective(s), e \notin Range(s) PROVE IsInjective(t)
  <2> SUFFICES ASSUME NEW j \in 1 .. Len(s) + 1, NEW k \in 1 .. Len(s) + 1, t[j] = t[k]
               PROVE  j = k
    BY <1>2 DEF IsInjective
  <2>1. \A l \in 1 .. Len(s) : s[l] # e
    BY <1>1, <1>7 DEF Range
  <2>2. CASE j = i \/ k = i
    BY <1>3, <1>5, <2>1, <2>2
  <2>3. CASE j # i /\ k # i
    <3>1. PICK l \in 1 .. Len(s) : t[j] = s[l] /\ l = IF j < i THEN j ELSE j - 1
      BY <1>3, <2>3
    <3>2. PICK m \in 1 .. Len(s) : t[k] = s[m] /\ m = IF k < i THEN k ELSE k - 1
      BY <1>3, <2>3
    <3>3. l = m
      BY <1>1, <1>7, <3>1, <3>2 DEF IsInjective
    <3> QED
      BY <1>1, <2>3, <3>1, <3>2, <3>3
  <2> QED
    BY <2>2, <2>3
<1> QED
  BY <1>6, <1>7 DEF t

\* One more entry is kept or not, whatever is in front of it.
LEMMA KeptAppend ==
    ASSUME NEW S, NEW s \in Seq(S), NEW x \in S, NEW G
    PROVE  Kept(Append(s, x), G) = IF x \in G THEN Append(Kept(s, G), x) ELSE Kept(s, G)
<1> DEFINE t == Append(s, x)
           N == Len(s)
<1>1. /\ N \in Nat /\ t \in Seq(S) /\ Len(t) = N + 1
      /\ \A i \in 1 .. N : t[i] = s[i]
      /\ t[N + 1] = x
  BY LenProperties, AppendProperties
<1>2. PICK f \in [0 .. N -> Seq(S)] : IsUpto(f, s, G)
  BY KeptUpto
<1> HIDE DEF t
<1>3. PICK g \in [0 .. Len(t) -> Seq(S)] : IsUpto(g, t, G)
  BY <1>1, KeptUpto
<1> DEFINE T == {n \in Nat : n <= N => g[n] = f[n]}
<1>4. 0 \in T
  BY <1>2, <1>3 DEF IsUpto
<1>5. ASSUME NEW n \in Nat, n \in T PROVE n + 1 \in T
  <2> SUFFICES ASSUME n + 1 <= N PROVE g[n + 1] = f[n + 1]
    OBVIOUS
  <2>1. /\ n + 1 \in 1 .. N /\ n + 1 \in 1 .. Len(t) /\ (n + 1) - 1 = n
        /\ g[n] = f[n] /\ t[n + 1] = s[n + 1]
    BY <1>1, <1>5
  <2>2. f[n + 1] = IF s[n + 1] \in G THEN Append(f[n], s[n + 1]) ELSE f[n]
    BY <1>2, <2>1 DEF IsUpto
  <2>3. g[n + 1] = IF t[n + 1] \in G THEN Append(g[n], t[n + 1]) ELSE g[n]
    BY <1>3, <2>1 DEF IsUpto
  <2> QED
    BY <2>1, <2>2, <2>3
<1>6. g[N] = f[N]
  <2> HIDE DEF T
  <2>1. N \in T
    BY <1>1, <1>4, <1>5, SetInduction
  <2> QED
    BY <1>1, <2>1 DEF T
<1>7. N + 1 \in 1 .. Len(t) /\ (N + 1) - 1 = N
  BY <1>1
<1>8. g[N + 1] = IF x \in G THEN Append(g[N], x) ELSE g[N]
  BY <1>1, <1>3, <1>7 DEF IsUpto
<1>9. Kept(t, G) = g[N + 1] /\ Kept(s, G) = f[N]
  BY <1>1, <1>2, <1>3 DEF IsUpto
<1> QED
  BY <1>6, <1>8, <1>9 DEF t

LEMMA KeptOfNone == ASSUME NEW G PROVE Kept(<<>>, G) = <<>>
<1>1. <<>> \in Seq({}) /\ Len(<<>>) = 0
  OBVIOUS
<1>2. PICK f \in [0 .. Len(<<>>) -> Seq({})] : IsUpto(f, <<>>, G)
  BY <1>1, KeptUpto
<1> QED
  BY <1>1, <1>2 DEF IsUpto

LEMMA KeptOfOne ==
    ASSUME NEW x, NEW G
    PROVE  Kept(<<x>>, G) = IF x \in G THEN <<x>> ELSE <<>>
<1> DEFINE none == <<>>
           S == {x}
<1>1. none \in Seq(S) /\ x \in S /\ Append(none, x) = <<x>> /\ Kept(none, G) = none
  BY KeptOfNone
<1> HIDE DEF none, S
<1>2. Kept(Append(none, x), G) = IF x \in G THEN Append(Kept(none, G), x) ELSE Kept(none, G)
  BY <1>1, KeptAppend
<1> QED
  BY <1>1, <1>2 DEF none

\* What is kept of one list behind another.
LEMMA KeptConcat ==
    ASSUME NEW S, NEW s \in Seq(S), NEW t \in Seq(S), NEW G
    PROVE  Kept(s \o t, G) = Kept(s, G) \o Kept(t, G)
<1> DEFINE T == {n \in Nat : \A u \in Seq(S) : Len(u) = n => Kept(s \o u, G) = Kept(s, G) \o Kept(u, G)}
<1>1. 0 \in T
  <2> SUFFICES ASSUME NEW u \in Seq(S), Len(u) = 0 PROVE Kept(s \o u, G) = Kept(s, G) \o Kept(u, G)
    OBVIOUS
  <2>1. u = <<>>
    OBVIOUS
  <2>2. Kept(s, G) \in Seq(S)
    BY KeptEntries
  <2>3. s \o <<>> = s /\ Kept(s, G) \o <<>> = Kept(s, G)
    BY <2>2, ConcatEmptySeq
  <2> QED
    BY <2>1, <2>3, KeptOfNone
<1>2. ASSUME NEW n \in Nat, n \in T PROVE n + 1 \in T
  <2> SUFFICES ASSUME NEW u \in Seq(S), Len(u) = n + 1
               PROVE  Kept(s \o u, G) = Kept(s, G) \o Kept(u, G)
    OBVIOUS
  <2>1. PICK v \in Seq(S), x \in S : u = Append(v, x) /\ Len(v) = n
    <3> DEFINE v == [i \in 1 .. n |-> u[i]]
               x == u[n + 1]
    <3>1. n + 1 \in 1 .. Len(u) /\ \A i \in 1 .. n : i \in 1 .. Len(u)
      OBVIOUS
    <3>2. x \in S /\ v \in [1 .. n -> S]
      BY <3>1
    <3>3. v \in Seq(S) /\ Len(v) = n /\ \A i \in 1 .. n : v[i] = u[i]
      BY <3>2
    <3> HIDE DEF v, x
    <3> DEFINE w == Append(v, x)
    <3>4. /\ w \in Seq(S) /\ Len(w) = n + 1
          /\ \A i \in 1 .. n : w[i] = v[i]
          /\ w[n + 1] = x
      BY <3>2, <3>3, AppendProperties
    <3> HIDE DEF w
    <3>5. \A i \in 1 .. n + 1 : w[i] = u[i]
      <4>1. \A i \in 1 .. n + 1 : i \in 1 .. n \/ i = n + 1
        OBVIOUS
      <4> QED
        BY <3>3, <3>4, <4>1 DEF x
    <3>6. u = [i \in 1 .. n + 1 |-> u[i]] /\ w = [i \in 1 .. n + 1 |-> w[i]]
      BY <3>4
    <3>7. u = Append(v, x)
      BY <3>5, <3>6 DEF w
    <3> QED
      BY <3>2, <3>3, <3>7
  <2>2. Kept(s \o v, G) = Kept(s, G) \o Kept(v, G)
    BY <1>2, <2>1
  <2>3. s \o v \in Seq(S) /\ Kept(s, G) \in Seq(S) /\ Kept(v, G) \in Seq(S)
    BY <2>1, KeptEntries, ConcatProperties
  <2>4. s \o Append(v, x) = Append(s \o v, x)
    BY <2>1, <2>3, AppendIsConcat, ConcatAssociative
  <2>5. Kept(s, G) \o Append(Kept(v, G), x) = Append(Kept(s, G) \o Kept(v, G), x)
    BY <2>1, <2>3, AppendIsConcat, ConcatAssociative
  <2>6. Kept(Append(s \o v, x), G) = IF x \in G THEN Append(Kept(s \o v, G), x) ELSE Kept(s \o v, G)
    BY <2>3, KeptAppend
  <2>7. Kept(Append(v, x), G) = IF x \in G THEN Append(Kept(v, G), x) ELSE Kept(v, G)
    BY <2>1, KeptAppend
  <2> QED
    BY <2>1, <2>2, <2>4, <2>5, <2>6, <2>7
<1>3. Len(t) \in Nat
  BY LenProperties
<1> HIDE DEF T
<1>4. Len(t) \in T
  BY <1>1, <1>2, <1>3, SetInduction
<1> QED
  BY <1>4 DEF T


\* Value i follows from value i - 1.
Stepwise(g, step, b, N) == g[0] = b /\ \A i \in 1 .. N : g[i] = step[<<i, g[i - 1]>>]

\* A function that is defined from 0 on exists.
LEMMA StepwiseExists ==
    ASSUME NEW N \in Nat, NEW V, NEW b \in V, NEW step \in [(1 .. N) \X V -> V]
    PROVE  \E g \in [0 .. N -> V] : Stepwise(g, step, b, N)
<1> DEFINE T == {n \in Nat : n <= N => \E g \in [0 .. n -> V] : Stepwise(g, step, b, n)}
<1>1. 0 \in T
  <2> DEFINE g == [i \in 0 .. 0 |-> b]
  <2>1. g \in [0 .. 0 -> V] /\ Stepwise(g, step, b, 0)
    BY DEF Stepwise
  <2> QED
    BY <2>1
<1>2. ASSUME NEW n \in Nat, n \in T PROVE n + 1 \in T
  <2> SUFFICES ASSUME n + 1 <= N PROVE \E g \in [0 .. n + 1 -> V] : Stepwise(g, step, b, n + 1)
    OBVIOUS
  <2>1. PICK g \in [0 .. n -> V] : Stepwise(g, step, b, n)
    BY <1>2
  <2>2. g[n] \in V /\ n + 1 \in 1 .. N
    BY <2>1
  <2>3. step[<<n + 1, g[n]>>] \in V
    BY <2>2
  <2> DEFINE v == step[<<n + 1, g[n]>>]
             f == [i \in 0 .. n + 1 |-> IF i = n + 1 THEN v ELSE g[i]]
  <2> HIDE DEF v
  <2>4. f \in [0 .. n + 1 -> V]
    BY <2>3 DEF v
  <2>5. f[0] = b
    BY <2>1 DEF Stepwise
  <2>6. ASSUME NEW i \in 1 .. n + 1 PROVE f[i] = step[<<i, f[i - 1]>>]
    <3>1. i \in 0 .. n + 1 /\ i - 1 \in 0 .. n + 1 /\ i - 1 # n + 1
      OBVIOUS
    <3>2. f[i - 1] = g[i - 1]
      BY <3>1
    <3>3. CASE i = n + 1
      <4>1. i - 1 = n /\ f[i] = v
        BY <3>1, <3>3
      <4> HIDE DEF f
      <4> QED
        BY <3>2, <3>3, <4>1 DEF v
    <3>4. CASE i # n + 1
      <4>1. f[i] = g[i] /\ i \in 1 .. n
        BY <3>1, <3>4
      <4> HIDE DEF f
      <4> QED
        BY <2>1, <3>2, <4>1 DEF Stepwise
    <3> QED
      BY <3>3, <3>4
  <2> HIDE DEF f
  <2> QED
    BY <2>4, <2>5, <2>6 DEF Stepwise
<1> HIDE DEF T
<1>3. N \in T
  BY <1>1, <1>2, SetInduction
<1> QED
  BY <1>3 DEF T


\* The entries from h on, at most N + 1 of them, where next[k] is the one behind k and null the end.
Walked(next, h, null, N) ==
    LET go[j \in 0 .. N] ==
            IF j = 0 THEN IF h = null THEN <<>> ELSE <<h>>
            ELSE LET w == go[j - 1]
                 IN  IF Len(w) < j \/ next[w[j]] = null THEN w
                     ELSE Append(w, next[w[j]])
    IN  go[N]

\* w follows next from h on, and goes on to the end or to the m-th entry.
WalksTo(w, next, h, null, m) ==
    /\ w = <<>> <=> h = null
    /\ h # null => Len(w) \in 1 .. m /\ w[1] = h
    /\ \A i \in 1 .. Len(w) - 1 : w[i + 1] = next[w[i]]
    /\ h # null /\ Len(w) < m => next[w[Len(w)]] = null

\* One step more.
LEMMA WalkNext ==
    ASSUME NEW R, NEW null, null \notin R, NEW next, \A k \in R : next[k] \in R \cup {null},
           NEW h \in R \cup {null}, NEW j \in Nat \ {0}, NEW w \in Seq(R), WalksTo(w, next, h, null, j)
    PROVE  LET v == IF Len(w) < j \/ next[w[j]] = null THEN w ELSE Append(w, next[w[j]])
           IN  v \in Seq(R) /\ WalksTo(v, next, h, null, j + 1)
<1> DEFINE v == IF Len(w) < j \/ next[w[j]] = null THEN w ELSE Append(w, next[w[j]])
<1>1. Len(w) \in Nat /\ \A i \in 1 .. Len(w) : w[i] \in R
  BY LenProperties
<1>2. CASE h = null
  <2>1. w = <<>> /\ Len(w) = 0
    BY <1>2 DEF WalksTo
  <2>2. v = w
    BY <2>1
  <2> QED
    BY <1>2, <2>1, <2>2 DEF WalksTo
<1>3. CASE h # null /\ Len(w) < j
  <2>1. v = w
    BY <1>3
  <2>2. Len(w) \in 1 .. j + 1
    BY <1>1, <1>3 DEF WalksTo
  <2>3. next[w[Len(w)]] = null
    BY <1>3 DEF WalksTo
  <2> QED
    BY <1>3, <2>1, <2>2, <2>3 DEF WalksTo
<1>4. CASE h # null /\ ~(Len(w) < j)
  <2>1. Len(w) = j /\ w[1] = h
    BY <1>1, <1>4 DEF WalksTo
  <2>2. CASE next[w[j]] = null
    <3>1. v = w
      BY <2>2
    <3>2. Len(w) \in 1 .. j + 1
      BY <2>1
    <3> QED
      BY <1>4, <2>1, <2>2, <3>1, <3>2 DEF WalksTo
  <2>3. CASE next[w[j]] # null
    <3> DEFINE e == next[w[j]]
    <3>1. v = Append(w, e)
      BY <2>1, <2>3
    <3>2. e \in R
      BY <1>1, <2>1, <2>3
    <3> HIDE DEF e, v
    <3>3. /\ v \in Seq(R) /\ Len(v) = j + 1
          /\ \A i \in 1 .. j : v[i] = w[i]
          /\ v[j + 1] = e
      BY <2>1, <3>1, <3>2, AppendProperties
    <3>4. v # <<>> /\ v[1] = h /\ Len(v) \in 1 .. j + 1 /\ ~(Len(v) < j + 1)
      <4>1. 1 \in 1 .. j
        OBVIOUS
      <4>2. v # <<>>
        BY <3>3
      <4>3. v[1] = h
        BY <2>1, <3>3, <4>1
      <4> QED
        BY <3>3, <4>2, <4>3
    <3>5. ASSUME NEW i \in 1 .. Len(v) - 1 PROVE v[i + 1] = next[v[i]]
      <4>1. i \in 1 .. j /\ v[i] = w[i]
        BY <3>3
      <4>2. CASE i = j
        BY <3>3, <4>1, <4>2 DEF e
      <4>3. CASE i # j
        <5>1. i \in 1 .. Len(w) - 1 /\ i + 1 \in 1 .. j
          BY <2>1, <4>1, <4>3
        <5> QED
          BY <3>3, <4>1, <5>1 DEF WalksTo
      <4> QED
        BY <4>2, <4>3
    <3>6. WalksTo(v, next, h, null, j + 1)
      BY <1>4, <3>4, <3>5 DEF WalksTo
    <3> QED
      BY <3>3, <3>6 DEF v
  <2> QED
    BY <2>2, <2>3
<1> QED
  BY <1>2, <1>3, <1>4

\* What a walk finds.
LEMMA WalkFinds ==
    ASSUME NEW R, NEW null, null \notin R, NEW next, \A k \in R : next[k] \in R \cup {null},
           NEW h \in R \cup {null}, NEW N \in Nat
    PROVE  /\ Walked(next, h, null, N) \in Seq(R)
           /\ WalksTo(Walked(next, h, null, N), next, h, null, N + 1)
<1> DEFINE V == Seq(R)
           b == IF h = null THEN <<>> ELSE <<h>>
           Then(j, w) == IF Len(w) < j \/ next[w[j]] = null THEN w ELSE Append(w, next[w[j]])
           go[j \in 0 .. N] ==
               IF j = 0 THEN IF h = null THEN <<>> ELSE <<h>>
               ELSE LET w == go[j - 1]
                    IN  IF Len(w) < j \/ next[w[j]] = null THEN w
                        ELSE Append(w, next[w[j]])
           step == [x \in (1 .. N) \X V |-> Then(x[1], x[2])]
<1>1. b \in V
  OBVIOUS
<1>2. PICK g \in [0 .. N -> V] : Stepwise(g, step, b, N)
  <2>1. ASSUME NEW j \in 1 .. N, NEW w \in V PROVE Then(j, w) \in V
    <3>1. CASE Len(w) < j \/ next[w[j]] = null
      BY <3>1
    <3>2. CASE ~(Len(w) < j \/ next[w[j]] = null)
      <4>1. w[j] \in R
        BY <3>2, LenProperties
      <4>2. next[w[j]] \in R
        BY <3>2, <4>1
      <4> QED
        BY <3>2, <4>2, AppendProperties
    <3> QED
      BY <3>1, <3>2
  <2>2. step \in [(1 .. N) \X V -> V]
    <3> HIDE DEF Then, V
    <3> QED
      BY <2>1
  <2> HIDE DEF step, V, b
  <2> QED
    BY <1>1, <2>2, StepwiseExists
<1> HIDE DEF b
<1>3. ASSUME NEW j \in 1 .. N PROVE g[j] = Then(j, g[j - 1])
  <2> HIDE DEF V
  <2>1. g[j - 1] \in V
    BY <1>2
  <2>2. g[j] = step[<<j, g[j - 1]>>]
    BY <1>2 DEF Stepwise
  <2>3. <<j, g[j - 1]>> \in (1 .. N) \X V
    BY <2>1
  <2> HIDE DEF Then
  <2> QED
    BY <2>2, <2>3
<1>4. g[0] = b
  BY <1>2 DEF Stepwise
<1> DEFINE Eqn(f) == [j \in 0 .. N |->
               IF j = 0 THEN IF h = null THEN <<>> ELSE <<h>>
               ELSE LET w == f[j - 1]
                    IN  IF Len(w) < j \/ next[w[j]] = null THEN w
                        ELSE Append(w, next[w[j]])]
<1>5. g = Eqn(g)
  <2>1. ASSUME NEW j \in 0 .. N PROVE g[j] = IF j = 0 THEN b ELSE Then(j, g[j - 1])
    <3>1. j = 0 \/ j \in 1 .. N
      OBVIOUS
    <3> HIDE DEF Then
    <3> QED
      BY <1>3, <1>4, <3>1
  <2>2. g = [j \in 0 .. N |-> IF j = 0 THEN b ELSE Then(j, g[j - 1])]
    <3> HIDE DEF Then
    <3> QED
      BY <2>1
  <2> QED
    BY <2>2 DEF b
<1>6. go = Eqn(go)
  BY <1>5
<1> HIDE DEF go
<1>7. go[0] = b /\ \A j \in 1 .. N : go[j] = Then(j, go[j - 1])
  <2>1. ASSUME NEW j \in 0 .. N PROVE go[j] = IF j = 0 THEN b ELSE Then(j, go[j - 1])
    BY <1>6 DEF b
  <2>2. 0 \in 0 .. N /\ \A j \in 1 .. N : j \in 0 .. N /\ j # 0
    OBVIOUS
  <2> HIDE DEF Then
  <2> QED
    BY <2>1, <2>2
<1> DEFINE T == {j \in Nat : j <= N => go[j] \in Seq(R) /\ WalksTo(go[j], next, h, null, j + 1)}
<1>8. 0 \in T
  <2>1. CASE h = null
    <3>1. b = <<>>
      BY <2>1 DEF b
    <3>2. WalksTo(b, next, h, null, 0 + 1)
      <4>1. Len(b) = 0
        BY <3>1
      <4>2. 1 .. Len(b) - 1 = {}
        BY <4>1
      <4> QED
        BY <2>1, <3>1, <4>2 DEF WalksTo
    <3> QED
      BY <1>1, <1>7, <3>2
  <2>2. CASE h # null
    <3>1. b # <<>> /\ Len(b) = 1 /\ b[1] = h
      BY <2>2 DEF b
    <3>2. WalksTo(b, next, h, null, 0 + 1)
      <4> HIDE DEF go
      <4> QED
        BY <2>2, <3>1 DEF WalksTo
    <3> QED
      BY <1>1, <1>7, <3>2
  <2> QED
    BY <2>1, <2>2
<1>9. ASSUME NEW j \in Nat, j \in T PROVE j + 1 \in T
  <2> SUFFICES ASSUME j + 1 <= N PROVE go[j + 1] \in Seq(R) /\ WalksTo(go[j + 1], next, h, null, (j + 1) + 1)
    OBVIOUS
  <2>1. /\ j + 1 \in 1 .. N /\ (j + 1) - 1 = j /\ j + 1 \in Nat \ {0}
        /\ go[j] \in Seq(R) /\ WalksTo(go[j], next, h, null, j + 1)
    BY <1>9
  <2>2. go[j + 1] = Then(j + 1, go[j])
    BY <1>7, <2>1
  <2> DEFINE w == go[j]
  <2> HIDE DEF w
  <2>3. Then(j + 1, w) \in Seq(R) /\ WalksTo(Then(j + 1, w), next, h, null, (j + 1) + 1)
    <3>1. w \in Seq(R) /\ WalksTo(w, next, h, null, j + 1)
      BY <2>1 DEF w
    <3> QED
      BY <2>1, <3>1, WalkNext
  <2> QED
    BY <2>2, <2>3 DEF w
<1> HIDE DEF T
<1>10. N \in T
  BY <1>8, <1>9, SetInduction
<1>11. Walked(next, h, null, N) = go[N]
  BY DEF Walked, go
<1> QED
  BY <1>10, <1>11 DEF T

\* A walk along a list that ends finds that list.
LEMMA WalkIs ==
    ASSUME NEW R, NEW null, null \notin R, NEW next, NEW c \in Seq(R),
           \A i \in 1 .. Len(c) : next[c[i]] = IF i < Len(c) THEN c[i + 1] ELSE null,
           NEW N \in Nat, Len(c) <= N + 1
    PROVE  Walked(next, IF Len(c) = 0 THEN null ELSE c[1], null, N) = c
<1> DEFINE h == IF Len(c) = 0 THEN null ELSE c[1]
           w == Walked(next, h, null, N)
           L == Len(c)
           S == {c[i] : i \in 1 .. L}
<1>1. L \in Nat /\ DOMAIN c = 1 .. L /\ \A i \in 1 .. L : c[i] \in R
  BY LenProperties
<1>2. null \notin S /\ h \in S \cup {null}
  BY <1>1
<1>3. \A k \in S : next[k] \in S \cup {null}
  <2> SUFFICES ASSUME NEW i \in 1 .. L PROVE next[c[i]] \in S \cup {null}
    OBVIOUS
  <2>1. i < L => i + 1 \in 1 .. L
    BY <1>1
  <2> QED
    BY <2>1
<1> HIDE DEF S
<1>4. w \in Seq(S) /\ WalksTo(w, next, h, null, N + 1)
  <2> HIDE DEF h
  <2> QED
    BY <1>2, <1>3, WalkFinds
<1> HIDE DEF w
<1>5. Len(w) \in Nat /\ DOMAIN w = 1 .. Len(w) /\ \A i \in 1 .. Len(w) : w[i] \in S
  BY <1>4, LenProperties
<1>6. CASE L = 0
  <2>1. w = <<>>
    BY <1>4, <1>6 DEF WalksTo
  <2>2. c = <<>>
    BY <1>6, EmptySeq
  <2> QED
    BY <2>1, <2>2 DEF w
<1>7. CASE L # 0
  <2>1. /\ h = c[1] /\ h # null /\ Len(w) \in 1 .. N + 1 /\ w[1] = c[1]
        /\ \A i \in 1 .. Len(w) - 1 : w[i + 1] = next[w[i]]
        /\ Len(w) < N + 1 => next[w[Len(w)]] = null
    <3>1. h = c[1] /\ h # null
      BY <1>1, <1>7
    <3> HIDE DEF h
    <3> QED
      BY <1>4, <3>1 DEF WalksTo
  <2> DEFINE T == {i \in Nat : i + 1 <= Len(w) => i + 1 <= L /\ w[i + 1] = c[i + 1]}
  <2>2. 0 \in T
    BY <1>1, <1>7, <2>1
  <2>3. ASSUME NEW i \in Nat, i \in T PROVE i + 1 \in T
    <3> SUFFICES ASSUME (i + 1) + 1 <= Len(w)
                 PROVE  (i + 1) + 1 <= L /\ w[(i + 1) + 1] = c[(i + 1) + 1]
      OBVIOUS
    <3>1. i + 1 <= L /\ w[i + 1] = c[i + 1] /\ i + 1 \in 1 .. Len(w) - 1 /\ i + 1 \in 1 .. L
          /\ (i + 1) + 1 \in 1 .. Len(w)
      BY <1>1, <1>5, <2>3
    <3>2. w[(i + 1) + 1] = next[c[i + 1]]
      BY <2>1, <3>1
    <3>3. w[(i + 1) + 1] # null
      BY <1>2, <1>5, <3>1
    <3>4. i + 1 < L
      BY <1>1, <3>1, <3>2, <3>3
    <3>5. (i + 1) + 1 <= L
      BY <1>1, <3>4
    <3> QED
      BY <3>1, <3>2, <3>4, <3>5
  <2> HIDE DEF T
  <2>4. Nat \subseteq T
    BY <2>2, <2>3, SetInduction
  <2>5. \A i \in 1 .. Len(w) : i <= L /\ w[i] = c[i]
    <3> SUFFICES ASSUME NEW i \in 1 .. Len(w) PROVE i <= L /\ w[i] = c[i]
      OBVIOUS
    <3>1. i - 1 \in Nat /\ (i - 1) + 1 = i
      OBVIOUS
    <3>2. i - 1 \in T
      BY <2>4, <3>1
    <3> QED
      BY <1>5, <3>1, <3>2 DEF T
  <2>6. Len(w) = L
    <3>1. Len(w) <= L /\ Len(w) \in 1 .. L /\ w[Len(w)] = c[Len(w)]
      BY <1>1, <1>5, <2>1, <2>5
    <3>2. ASSUME Len(w) < L PROVE FALSE
      <4>1. Len(w) < N + 1
        BY <1>1, <1>5, <3>2
      <4>2. next[c[Len(w)]] = c[Len(w) + 1] /\ Len(w) + 1 \in 1 .. L
        BY <1>1, <1>5, <3>1, <3>2
      <4> QED
        BY <1>1, <2>1, <3>1, <4>1, <4>2
    <3> DEFINE l == Len(w)
    <3>3. l \in Nat /\ L \in Nat /\ l <= L /\ ~(l < L)
      BY <1>1, <1>5, <3>1, <3>2
    <3> HIDE DEF l, L
    <3>4. l = L
      BY <3>3
    <3> QED
      BY <3>4 DEF l, L
  <2>7. w = [i \in 1 .. L |-> w[i]] /\ c = [i \in 1 .. L |-> c[i]]
    BY <1>4, <2>6
  <2>8. w = c
    BY <2>5, <2>6, <2>7
  <2> QED
    BY <2>8 DEF w
<1> QED
  BY <1>6, <1>7

-----------------------------------------------------------------------------
(* Lists put together                                                      *)

\* f is made of the first m of the lists ss, of which the i-th ends at end[i].
PartsOf(f, ss, end, m) ==
    /\ end[0] = 0 /\ end[m] = Len(f)
    /\ \A i \in 1 .. m : /\ end[i] = end[i - 1] + Len(ss[i])
                         /\ \A j \in 1 .. Len(ss[i]) : f[end[i - 1] + j] = ss[i][j]
    /\ \A i, k \in 0 .. m : i <= k => end[i] <= end[k]
    /\ \A p \in 1 .. Len(f) : \E i \in 1 .. m : p \in end[i - 1] + 1 .. end[i]

\* One list more.
LEMMA OnePartMore ==
    ASSUME NEW S, NEW ss \in Seq(Seq(S)), NEW m \in Nat, m + 1 <= Len(ss),
           NEW f \in Seq(S), NEW end \in [0 .. m -> Nat], PartsOf(f, ss, end, m)
    PROVE  \E e \in [0 .. m + 1 -> Nat] : PartsOf(f \o ss[m + 1], ss, e, m + 1)
<1> DEFINE s == ss[m + 1]
           n == Len(f) + Len(s)
           e == [i \in 0 .. m + 1 |-> IF i = m + 1 THEN n ELSE end[i]]
           g == f \o s
<1>1. m + 1 \in 1 .. Len(ss)
  BY LenProperties
<1>2. s \in Seq(S)
  BY <1>1, LenProperties
<1>3. /\ g \in Seq(S) /\ Len(f) \in Nat /\ Len(s) \in Nat /\ n \in Nat /\ Len(g) = n
      /\ \A j \in 1 .. n : g[j] = IF j <= Len(f) THEN f[j] ELSE s[j - Len(f)]
  BY <1>2, LenProperties, ConcatProperties
<1>4. /\ e[m + 1] = n
      /\ \A i \in 0 .. m : e[i] = end[i]
      /\ e \in [0 .. m + 1 -> Nat]
  BY <1>3
<1>5. /\ end[0] = 0 /\ end[m] = Len(f)
      /\ \A i \in 1 .. m : /\ end[i] = end[i - 1] + Len(ss[i])
                           /\ \A j \in 1 .. Len(ss[i]) : f[end[i - 1] + j] = ss[i][j]
      /\ \A i, k \in 0 .. m : i <= k => end[i] <= end[k]
      /\ \A p \in 1 .. Len(f) : \E i \in 1 .. m : p \in end[i - 1] + 1 .. end[i]
  BY DEF PartsOf
<1> HIDE DEF e, g, s, n
<1>6. ASSUME NEW i \in 1 .. m + 1
      PROVE  e[i] = e[i - 1] + Len(ss[i]) /\ \A j \in 1 .. Len(ss[i]) : g[e[i - 1] + j] = ss[i][j]
  <2>1. CASE i = m + 1
    <3>1. e[i] = n /\ e[i - 1] = Len(f) /\ ss[i] = s
      BY <1>4, <1>5, <2>1 DEF s
    <3>2. ASSUME NEW j \in 1 .. Len(s) PROVE g[Len(f) + j] = s[j]
      <4>1. Len(f) + j \in 1 .. n /\ ~(Len(f) + j <= Len(f)) /\ (Len(f) + j) - Len(f) = j
        BY <1>3 DEF n
      <4> QED
        BY <1>3, <4>1
    <3> QED
      BY <3>1, <3>2 DEF n
  <2>2. CASE i # m + 1
    <3>1. i \in 1 .. m /\ i \in 0 .. m /\ i - 1 \in 0 .. m
      BY <2>2
    <3>2. e[i] = end[i] /\ e[i - 1] = end[i - 1] /\ end[i] \in Nat /\ end[i - 1] \in Nat
      BY <1>4, <3>1
    <3>3. end[i] = end[i - 1] + Len(ss[i]) /\ \A j \in 1 .. Len(ss[i]) : f[end[i - 1] + j] = ss[i][j]
      BY <1>5, <3>1
    <3>4. end[i] <= Len(f)
      BY <1>5, <3>1
    <3>5. i \in 1 .. Len(ss)
      BY <1>1, <3>1
    <3>6. Len(ss[i]) \in Nat
      BY <3>5, LenProperties
    <3>7. ASSUME NEW j \in 1 .. Len(ss[i]) PROVE g[end[i - 1] + j] = ss[i][j]
      <4> DEFINE u == end[i - 1]
                 l == Len(ss[i])
      <4>0. u \in Nat /\ l \in Nat /\ u + l <= Len(f) /\ j \in 1 .. l
        BY <3>2, <3>3, <3>4, <3>6
      <4> HIDE DEF u, l
      <4>4. u + j <= Len(f) /\ u + j \in 1 .. n
        BY <1>3, <4>0 DEF n
      <4>1. end[i - 1] + j <= Len(f)
        BY <4>4 DEF u
      <4>2. end[i - 1] + j \in 1 .. n
        BY <4>4 DEF u
      <4>3. g[end[i - 1] + j] = f[end[i - 1] + j]
        BY <1>3, <4>1, <4>2
      <4> QED
        BY <3>3, <4>3
    <3> QED
      BY <3>2, <3>3, <3>7
  <2> QED
    BY <2>1, <2>2
<1>7. ASSUME NEW i \in 0 .. m + 1, NEW k \in 0 .. m + 1, i <= k PROVE e[i] <= e[k]
  <2>1. CASE k = m + 1 /\ i = m + 1
    BY <1>3, <1>4, <2>1
  <2>2. CASE k = m + 1 /\ i # m + 1
    <3>1. i \in 0 .. m /\ m \in 0 .. m
      BY <2>2
    <3>2. end[i] <= Len(f)
      BY <1>5, <3>1
    <3>3. e[i] = end[i] /\ e[k] = n /\ end[i] \in Nat
      BY <1>4, <2>2, <3>1
    <3> QED
      BY <1>3, <3>2, <3>3 DEF n
  <2>3. CASE k # m + 1
    <3>1. i \in 0 .. m /\ k \in 0 .. m
      BY <1>7, <2>3
    <3> QED
      BY <1>4, <1>5, <1>7, <3>1
  <2> QED
    BY <2>1, <2>2, <2>3
<1>8. ASSUME NEW p \in 1 .. Len(g) PROVE \E i \in 1 .. m + 1 : p \in e[i - 1] + 1 .. e[i]
  <2>1. CASE p <= Len(f)
    <3>1. PICK i \in 1 .. m : p \in end[i - 1] + 1 .. end[i]
      BY <1>3, <1>5, <2>1
    <3>2. i \in 0 .. m /\ i - 1 \in 0 .. m /\ i \in 1 .. m + 1
      OBVIOUS
    <3> QED
      BY <1>4, <3>1, <3>2
  <2>2. CASE p > Len(f)
    <3>1. m + 1 \in 1 .. m + 1 /\ (m + 1) - 1 = m /\ m \in 0 .. m
      OBVIOUS
    <3>2. e[m] = Len(f) /\ e[m + 1] = n
      BY <1>4, <1>5, <3>1
    <3>3. p \in Len(f) + 1 .. n
      BY <1>3, <2>2
    <3> QED
      BY <3>1, <3>2, <3>3
  <2> QED
    BY <1>3, <2>1, <2>2
<1>9. e[0] = 0 /\ e[m + 1] = Len(g)
  <2>1. 0 \in 0 .. m
    OBVIOUS
  <2> QED
    BY <1>3, <1>4, <1>5, <2>1
<1>10. PartsOf(g, ss, e, m + 1)
  BY <1>6, <1>7, <1>8, <1>9 DEF PartsOf
<1> QED
  BY <1>4, <1>10 DEF g, s

\* A list of lists put together.
LEMMA FlattenParts ==
    ASSUME NEW S, NEW ss \in Seq(Seq(S))
    PROVE  /\ FlattenSeq(ss) \in Seq(S)
           /\ \E end \in [0 .. Len(ss) -> Nat] : PartsOf(FlattenSeq(ss), ss, end, Len(ss))
<1> DEFINE N == Len(ss)
           V == Seq(S)
           step == [x \in (1 .. N) \X V |-> x[2] \o ss[x[1]]]
           flatten[i \in 1 .. N] == IF i = 1 THEN ss[i] ELSE flatten[i - 1] \o ss[i]
           Eqn(f) == [i \in 1 .. N |-> IF i = 1 THEN ss[i] ELSE f[i - 1] \o ss[i]]
<1>1. N \in Nat /\ \A i \in 1 .. N : ss[i] \in V
  BY LenProperties
<1>2. <<>> \in V
  OBVIOUS
<1>3. \A i \in 1 .. N, w \in V : w \o ss[i] \in V
  BY <1>1, ConcatProperties
<1>4. step \in [(1 .. N) \X V -> V]
  <2> HIDE DEF V, N
  <2> QED
    BY <1>3
<1>5. PICK g \in [0 .. N -> V] : Stepwise(g, step, <<>>, N)
  <2> HIDE DEF V, N, step
  <2> QED
    BY <1>1, <1>2, <1>4, StepwiseExists
<1>6. ASSUME NEW i \in 1 .. N PROVE g[i] = g[i - 1] \o ss[i]
  <2>1. g[i - 1] \in V
    OBVIOUS
  <2>2. g[i] = step[<<i, g[i - 1]>>]
    BY <1>5 DEF Stepwise
  <2> HIDE DEF V, N
  <2> QED
    BY <2>1, <2>2
<1>7. CASE N = 0
  <2>1. FlattenSeq(ss) = <<>>
    BY <1>7 DEF FlattenSeq
  <2> DEFINE end == [i \in 0 .. 0 |-> 0]
  <2>2. end[0] = 0 /\ Len(<<>>) = 0 /\ end \in [0 .. 0 -> Nat]
    OBVIOUS
  <2> HIDE DEF end
  <2>3. PartsOf(<<>>, ss, end, 0)
    <3>1. 1 .. 0 = {} /\ 0 .. 0 = {0}
      OBVIOUS
    <3> QED
      BY <2>2, <3>1 DEF PartsOf
  <2> QED
    BY <1>2, <1>7, <2>1, <2>2, <2>3
<1>8. CASE N # 0
  <2>1. FlattenSeq(ss) = flatten[N]
    BY <1>8 DEF FlattenSeq
  <2> DEFINE h == [i \in 1 .. N |-> g[i]]
  <2>2. h = Eqn(h)
    <3>1. ASSUME NEW i \in 1 .. N PROVE h[i] = IF i = 1 THEN ss[i] ELSE h[i - 1] \o ss[i]
      <4>1. CASE i = 1
        <5>1. g[0] = <<>>
          BY <1>5 DEF Stepwise
        <5>2. <<>> \o ss[1] = ss[1]
          BY <1>1, <4>1, ConcatEmptySeq
        <5>3. 1 \in 1 .. N /\ 1 - 1 = 0
          BY <1>1, <4>1
        <5>4. g[1] = g[0] \o ss[1]
          BY <1>6, <5>3
        <5>5. h[1] = g[1]
          BY <5>3
        <5> QED
          BY <4>1, <5>1, <5>2, <5>4, <5>5
      <4>2. CASE i # 1
        <5>1. i - 1 \in 1 .. N
          BY <1>1, <4>2
        <5> HIDE DEF N
        <5> QED
          BY <1>6, <4>2, <5>1
      <4> QED
        BY <4>1, <4>2
    <3> HIDE DEF N
    <3> QED
      BY <3>1
  <2>3. flatten = Eqn(flatten)
    BY <2>2
  <2> HIDE DEF flatten
  <2>4. /\ flatten[1] = ss[1]
        /\ \A i \in 2 .. N : flatten[i] = flatten[i - 1] \o ss[i]
    <3>1. 1 \in 1 .. N /\ \A i \in 2 .. N : i \in 1 .. N /\ i # 1
      BY <1>1, <1>8
    <3>2. \A i \in 1 .. N : flatten[i] = IF i = 1 THEN ss[i] ELSE flatten[i - 1] \o ss[i]
      BY <2>3
    <3> HIDE DEF N
    <3> QED
      BY <3>1, <3>2
  <2> DEFINE Good(m) == /\ flatten[m] \in V
                        /\ \E end \in [0 .. m -> Nat] : PartsOf(flatten[m], ss, end, m)
             T == {n \in Nat : n + 1 <= N => Good(n + 1)}
  <2>5. 0 \in T
    <3> DEFINE end == [i \in 0 .. 0 |-> 0]
    <3>1. end[0] = 0 /\ Len(<<>>) = 0 /\ end \in [0 .. 0 -> Nat]
      OBVIOUS
    <3> HIDE DEF end
    <3>2. PartsOf(<<>>, ss, end, 0)
      <4>1. 1 .. 0 = {} /\ 0 .. 0 = {0}
        OBVIOUS
      <4> QED
        BY <3>1, <4>1 DEF PartsOf
    <3>3. 0 + 1 <= N
      BY <1>1, <1>8
    <3>4. \E e \in [0 .. 0 + 1 -> Nat] : PartsOf(<<>> \o ss[0 + 1], ss, e, 0 + 1)
      BY <1>2, <3>1, <3>2, <3>3, OnePartMore
    <3>5. <<>> \o ss[0 + 1] = flatten[0 + 1] /\ ss[1] \in V
      BY <1>1, <2>4, <3>3, ConcatEmptySeq
    <3>6. 0 + 1 = 1
      OBVIOUS
    <3>7. Good(1)
      BY <2>4, <3>4, <3>5, <3>6
    <3> HIDE DEF Good
    <3> QED
      BY <3>6, <3>7
  <2>6. ASSUME NEW n \in Nat, n \in T PROVE n + 1 \in T
    <3> SUFFICES ASSUME (n + 1) + 1 <= N
                 PROVE  Good((n + 1) + 1)
      <4> HIDE DEF Good
      <4> QED
        OBVIOUS
    <3>1. n + 1 <= N /\ n + 1 \in Nat
      BY <1>1
    <3>8. Good(n + 1)
      <4> HIDE DEF Good
      <4> QED
        BY <2>6, <3>1
    <3>2. flatten[n + 1] \in V
      BY <3>8
    <3>3. PICK end \in [0 .. n + 1 -> Nat] : PartsOf(flatten[n + 1], ss, end, n + 1)
      BY <3>8
    <3>4. (n + 1) + 1 \in 2 .. N /\ ((n + 1) + 1) - 1 = n + 1
      BY <1>1
    <3>5. flatten[(n + 1) + 1] = flatten[n + 1] \o ss[(n + 1) + 1]
      BY <2>4, <3>4
    <3>6. \E e \in [0 .. (n + 1) + 1 -> Nat] :
             PartsOf(flatten[n + 1] \o ss[(n + 1) + 1], ss, e, (n + 1) + 1)
      BY <3>1, <3>2, <3>3, OnePartMore
    <3>7. ss[(n + 1) + 1] \in V
      BY <1>1, <3>4
    <3>9. flatten[n + 1] \o ss[(n + 1) + 1] \in V
      BY <3>2, <3>7, ConcatProperties
    <3> HIDE DEF N, V
    <3> QED
      BY <3>5, <3>6, <3>9
  <2> HIDE DEF T, Good
  <2>7. N - 1 \in T
    <3>1. N - 1 \in Nat
      BY <1>1, <1>8
    <3>2. Nat \subseteq T
      BY <2>5, <2>6, SetInduction
    <3> QED
      BY <3>1, <3>2
  <2>8. (N - 1) + 1 = N
    BY <1>1
  <2> QED
    BY <2>1, <2>7, <2>8 DEF T, Good
<1> QED
  BY <1>7, <1>8

IsAt(f, ss, end, p) ==
    \E i \in 1 .. Len(ss) : \E j \in 1 .. Len(ss[i]) : p = end[i - 1] + j /\ f[p] = ss[i][j]

\* Every position of the whole is one of a part.
LEMMA PartAt ==
    ASSUME NEW S, NEW ss \in Seq(Seq(S)), NEW f, NEW end \in [0 .. Len(ss) -> Nat],
           PartsOf(f, ss, end, Len(ss)), NEW p \in 1 .. Len(f)
    PROVE  IsAt(f, ss, end, p)
<1>1. PICK i \in 1 .. Len(ss) : p \in end[i - 1] + 1 .. end[i]
  BY DEF PartsOf
<1>2. ss[i] \in Seq(S) /\ Len(ss[i]) \in Nat /\ Len(ss) \in Nat
  BY <1>1, LenProperties
<1>3. /\ end[i] = end[i - 1] + Len(ss[i])
      /\ \A j \in 1 .. Len(ss[i]) : f[end[i - 1] + j] = ss[i][j]
  BY <1>1 DEF PartsOf
<1>4. end[i - 1] \in Nat /\ end[i] \in Nat
  <2>1. i \in 0 .. Len(ss) /\ i - 1 \in 0 .. Len(ss)
    BY <1>1, <1>2
  <2> QED
    BY <2>1
<1> DEFINE u == end[i - 1]
           l == Len(ss[i])
           e == end[i]
<1>5. u \in Nat /\ l \in Nat /\ e = u + l /\ p \in u + 1 .. e
  BY <1>1, <1>2, <1>3, <1>4
<1> HIDE DEF u, l, e
<1>6. p - u \in 1 .. l /\ p = u + (p - u)
  BY <1>5
<1>7. f[u + (p - u)] = ss[i][p - u]
  BY <1>3, <1>6 DEF u, l
<1> QED
  BY <1>1, <1>6, <1>7 DEF u, l, IsAt

IsIn(f, ss, end, i, j) == /\ end[i - 1] + j \in 1 .. Len(f)
                          /\ f[end[i - 1] + j] = ss[i][j]
                          /\ end[i - 1] + j <= end[i]

\* A position of a part is one of the whole.
LEMMA PartIn ==
    ASSUME NEW S, NEW ss \in Seq(Seq(S)), NEW f, NEW end \in [0 .. Len(ss) -> Nat], Len(f) \in Nat,
           PartsOf(f, ss, end, Len(ss)), NEW i \in 1 .. Len(ss), NEW j \in 1 .. Len(ss[i])
    PROVE  IsIn(f, ss, end, i, j)
<1>1. ss[i] \in Seq(S) /\ Len(ss[i]) \in Nat /\ Len(ss) \in Nat
  BY LenProperties
<1>2. i - 1 \in 0 .. Len(ss) /\ i \in 0 .. Len(ss) /\ Len(ss) \in 0 .. Len(ss) /\ i <= Len(ss)
  BY <1>1
<1>3. /\ end[i] = end[i - 1] + Len(ss[i])
      /\ f[end[i - 1] + j] = ss[i][j]
      /\ end[i] <= end[Len(ss)] /\ end[Len(ss)] = Len(f)
  BY <1>2 DEF PartsOf
<1> DEFINE u == end[i - 1]
           l == Len(ss[i])
           e == end[i]
<1>4. u \in Nat /\ l \in Nat /\ e = u + l /\ e <= Len(f) /\ j \in 1 .. l
  BY <1>1, <1>2, <1>3
<1> HIDE DEF u, l, e
<1>5. u + j \in 1 .. Len(f) /\ u + j <= e
  BY <1>4
<1> QED
  BY <1>3, <1>5 DEF u, e, IsIn

\* What is in the lists, and nothing else, is in the whole.
LEMMA FlattenRange ==
    ASSUME NEW S, NEW ss \in Seq(Seq(S)), NEW x
    PROVE  x \in Range(FlattenSeq(ss)) <=> \E i \in 1 .. Len(ss) : x \in Range(ss[i])
<1> DEFINE f == FlattenSeq(ss)
<1>1. f \in Seq(S)
  BY FlattenParts
<1>2. PICK end \in [0 .. Len(ss) -> Nat] : PartsOf(f, ss, end, Len(ss))
  BY FlattenParts
<1> HIDE DEF f
<1>3. Len(f) \in Nat /\ DOMAIN f = 1 .. Len(f)
  BY <1>1, LenProperties
<1>4. \A i \in 1 .. Len(ss) : DOMAIN ss[i] = 1 .. Len(ss[i])
  BY LenProperties
<1>5. ASSUME x \in Range(f) PROVE \E i \in 1 .. Len(ss) : x \in Range(ss[i])
  <2>1. PICK p \in 1 .. Len(f) : x = f[p]
    BY <1>3, <1>5 DEF Range
  <2>2. PICK i \in 1 .. Len(ss) : \E j \in 1 .. Len(ss[i]) : p = end[i - 1] + j /\ f[p] = ss[i][j]
    <3>1. IsAt(f, ss, end, p)
      BY <1>2, PartAt
    <3> QED
      BY <3>1 DEF IsAt
  <2> QED
    BY <1>4, <2>1, <2>2 DEF Range
<1>6. ASSUME NEW i \in 1 .. Len(ss), x \in Range(ss[i]) PROVE x \in Range(f)
  <2>1. PICK j \in 1 .. Len(ss[i]) : x = ss[i][j]
    BY <1>4, <1>6 DEF Range
  <2>2. IsIn(f, ss, end, i, j)
    BY <1>2, <1>3, PartIn
  <2> HIDE DEF f
  <2> QED
    BY <1>3, <2>1, <2>2 DEF Range, IsIn
<1> QED
  BY <1>5, <1>6 DEF f

\* Positions of different parts are in the order of the parts.
LEMMA PartOrder ==
    ASSUME NEW S, NEW ss \in Seq(Seq(S)), NEW f, NEW end \in [0 .. Len(ss) -> Nat], Len(f) \in Nat,
           PartsOf(f, ss, end, Len(ss)),
           NEW i \in 1 .. Len(ss), NEW j \in 1 .. Len(ss[i]),
           NEW k \in 1 .. Len(ss), NEW l \in 1 .. Len(ss[k]), i < k
    PROVE  end[i - 1] + j < end[k - 1] + l
<1>1. end[i - 1] + j <= end[i]
  BY PartIn DEF IsIn
<1>2. Len(ss) \in Nat /\ i \in 0 .. Len(ss) /\ i - 1 \in 0 .. Len(ss) /\ k - 1 \in 0 .. Len(ss) /\ i <= k - 1
  BY LenProperties
<1>3. end[i] <= end[k - 1]
  BY <1>2 DEF PartsOf
<1> DEFINE u == end[i - 1]
           v == end[i]
           w == end[k - 1]
<1>4. u \in Nat /\ v \in Nat /\ w \in Nat /\ u + j <= v /\ v <= w
  BY <1>1, <1>2, <1>3
<1>5. j \in Int /\ l \in Nat \ {0}
  BY LenProperties
<1> HIDE DEF u, v, w
<1>6. u + j < w + l
  BY <1>4, <1>5
<1> QED
  BY <1>6 DEF u, w

\* Lists without repetitions that have nothing in common have none together.
LEMMA FlattenInjective ==
    ASSUME NEW S, NEW ss \in Seq(Seq(S)), \A i \in 1 .. Len(ss) : IsInjective(ss[i]),
           \A i, k \in 1 .. Len(ss) : i # k => Range(ss[i]) \cap Range(ss[k]) = {}
    PROVE  IsInjective(FlattenSeq(ss))
<1> DEFINE f == FlattenSeq(ss)
<1>1. f \in Seq(S)
  BY FlattenParts
<1>2. PICK end \in [0 .. Len(ss) -> Nat] : PartsOf(f, ss, end, Len(ss))
  BY FlattenParts
<1> HIDE DEF f
<1>3. Len(f) \in Nat /\ DOMAIN f = 1 .. Len(f)
  BY <1>1, LenProperties
<1>4. \A i \in 1 .. Len(ss) : DOMAIN ss[i] = 1 .. Len(ss[i])
  BY LenProperties
<1>5. ASSUME NEW p \in 1 .. Len(f), NEW q \in 1 .. Len(f), f[p] = f[q] PROVE p = q
  <2>1. PICK i \in 1 .. Len(ss) : \E j \in 1 .. Len(ss[i]) : p = end[i - 1] + j /\ f[p] = ss[i][j]
    <3>1. IsAt(f, ss, end, p)
      BY <1>2, PartAt
    <3> QED
      BY <3>1 DEF IsAt
  <2>2. PICK j \in 1 .. Len(ss[i]) : p = end[i - 1] + j /\ f[p] = ss[i][j]
    BY <2>1
  <2>3. PICK k \in 1 .. Len(ss) : \E l \in 1 .. Len(ss[k]) : q = end[k - 1] + l /\ f[q] = ss[k][l]
    <3>1. IsAt(f, ss, end, q)
      BY <1>2, PartAt
    <3> QED
      BY <3>1 DEF IsAt
  <2>4. PICK l \in 1 .. Len(ss[k]) : q = end[k - 1] + l /\ f[q] = ss[k][l]
    BY <2>3
  <2>5. ss[i][j] \in Range(ss[i]) /\ ss[k][l] \in Range(ss[k])
    BY <1>4 DEF Range
  <2>6. i = k
    BY <1>5, <2>2, <2>4, <2>5
  <2>7. j = l
    BY <1>4, <1>5, <2>2, <2>4, <2>6 DEF IsInjective
  <2> QED
    BY <2>2, <2>4, <2>6, <2>7
<1> QED
  BY <1>3, <1>5 DEF IsInjective, f
=============================================================================
