-------------------------- MODULE ContainersProofs --------------------------
(***************************************************************************)
(* Proofs about the containers: the linked list is an abstract list, the   *)
(* binary array a keyed store, what they hand out while they change is     *)
(* sound, and the hand-written quicksort leaves a sorted permutation.      *)
(* The stash, a tree whose nodes are hash tables, is exact in all it is    *)
(* asked for, for any subidentifiers, buckets and length of identifiers.   *)
(***************************************************************************)
EXTENDS Containers, OidStash, SequenceLemmas

-----------------------------------------------------------------------------
(* The linked list                                                          *)

\* Entry i of a list, or the end.
Nth(c, i) == IF i \in 1 .. Len(c) THEN c[i] ELSE Null

\* The pointers nx link the entries of c in order, from hd on.
Joined(c, hd, nx) == /\ c \in Seq(Node) /\ IsInjective(c)
                     /\ hd = Nth(c, 1)
                     /\ \A i \in 1 .. Len(c) : nx[c[i]] = Nth(c, i + 1)

ListTyped == /\ kind \in {"sorted", "lifo", "fifo"}
             /\ next \in [Node -> Node \cup {Null}]
             /\ item \in [Node -> Item \cup {Null}]

\* The memory in use is that of the list, which is in order if it is sorted.
Holds(c) == /\ \A n \in Node : item[n] # Null <=> n \in Range(c)
            /\ count = Len(c)
            /\ kind = "sorted" => \A i, j \in 1 .. Len(c) : i <= j => Key(c[i]) <= Key(c[j])

\* An iterator in sync stands on the list, and knows its last entry.
Stands(c) == inSync => /\ at \in Range(c) \cup {Null}
                       /\ last # Null => c # <<>> /\ last = c[Len(c)]

ListIs(c) == Joined(c, head, next) /\ Holds(c) /\ Stands(c)

ListInv == ListTyped /\ \E c \in Seq(Node) : ListIs(c)

\* What a list without repetition says of itself.
LEMMA JoinedFacts ==
    ASSUME NEW c, NEW hd, NEW nx, Joined(c, hd, nx)
    PROVE  /\ c \in Seq(Node) /\ IsInjective(c)
           /\ Len(c) \in Nat /\ DOMAIN c = 1 .. Len(c)
           /\ \A i \in 1 .. Len(c) : c[i] \in Node /\ c[i] # Null /\ c[i] \in Range(c) /\ Nth(c, i) = c[i]
           /\ \A i, j \in 1 .. Len(c) : c[i] = c[j] => i = j
           /\ Nth(c, 0) = Null /\ Nth(c, Len(c) + 1) = Null
           /\ Len(c) <= Cardinality(Node) /\ Cardinality(Node) \in Nat
<1>1. c \in Seq(Node) /\ IsInjective(c)
  BY DEF Joined
<1>2. Len(c) \in Nat /\ DOMAIN c = 1 .. Len(c) /\ \A i \in 1 .. Len(c) : c[i] \in Node
  BY <1>1, LenProperties
<1>3. \A i \in 1 .. Len(c) : c[i] # Null /\ c[i] \in Range(c) /\ Nth(c, i) = c[i]
  BY <1>2, ListAssumption DEF Range, Nth
<1>4. \A i, j \in 1 .. Len(c) : c[i] = c[j] => i = j
  BY <1>1, <1>2 DEF IsInjective
<1>5. Nth(c, 0) = Null /\ Nth(c, Len(c) + 1) = Null
  <2>1. 0 \notin 1 .. Len(c) /\ Len(c) + 1 \notin 1 .. Len(c)
    BY <1>2
  <2> QED
    BY <2>1 DEF Nth
<1>6. Len(c) <= Cardinality(Node) /\ Cardinality(Node) \in Nat
  <2>1. Range(c) \subseteq Node
    BY <1>2 DEF Range
  <2>2. IsFiniteSet(Node)
    BY ListAssumption
  <2>3. Cardinality(Range(c)) = Len(c)
    BY <1>1, InjectiveCount
  <2>4. Cardinality(Range(c)) <= Cardinality(Node) /\ Cardinality(Node) \in Nat
    BY <2>1, <2>2, FS_Subset, FS_CardinalityType
  <2> QED
    BY <2>3, <2>4
<1> QED
  BY <1>1, <1>2, <1>3, <1>4, <1>5, <1>6

\* d is the list c from entry l on.
RestOf(d, c, l) == /\ d \in Seq(Node) /\ Len(d) = Len(c) - l + 1
                   /\ \A i \in 1 .. Len(c) - l + 1 : d[i] = c[l + i - 1]

\* From entry l on, a walk finds the rest of the list.
LEMMA WalkFrom ==
    ASSUME NEW c, NEW hd, NEW nx, Joined(c, hd, nx), NEW l \in 1 .. Len(c) + 1
    PROVE  RestOf(Walked(nx, Nth(c, l), Null, Cardinality(Node)), c, l)
<1> DEFINE L == Len(c)
           d == [i \in 1 .. L - l + 1 |-> c[l + i - 1]]
           N == Cardinality(Node)
<1>1. /\ L \in Nat /\ l \in 1 .. L + 1 /\ N \in Nat /\ L <= N
      /\ \A i \in 1 .. L : c[i] \in Node /\ Nth(c, i) = c[i]
      /\ Nth(c, L + 1) = Null
  BY JoinedFacts
<1> HIDE DEF L, N
<1>2. \A i \in 1 .. L - l + 1 : l + i - 1 \in 1 .. L
  BY <1>1
<1>3. L - l + 1 \in Nat /\ L - l + 1 <= N + 1
  BY <1>1
<1>4. /\ d \in Seq(Node) /\ Len(d) = L - l + 1 /\ \A i \in 1 .. L - l + 1 : d[i] = c[l + i - 1]
  BY <1>1, <1>2, <1>3
<1> HIDE DEF d
<1>5. \A i \in 1 .. Len(d) : nx[d[i]] = IF i < Len(d) THEN d[i + 1] ELSE Null
  <2> SUFFICES ASSUME NEW i \in 1 .. Len(d) PROVE nx[d[i]] = IF i < Len(d) THEN d[i + 1] ELSE Null
    OBVIOUS
  <2>1. l + i - 1 \in 1 .. L /\ d[i] = c[l + i - 1]
    BY <1>2, <1>4
  <2>2. nx[d[i]] = Nth(c, (l + i - 1) + 1)
    BY <2>1 DEF Joined, L
  <2>3. CASE i < Len(d)
    <3>1. i + 1 \in 1 .. L - l + 1 /\ l + (i + 1) - 1 = (l + i - 1) + 1 /\ (l + i - 1) + 1 \in 1 .. L
      BY <1>1, <1>4, <2>3, SMTT(30)
    <3>2. d[i + 1] = c[(l + i - 1) + 1]
      BY <1>4, <3>1
    <3> QED
      BY <1>1, <2>2, <2>3, <3>1, <3>2
  <2>4. CASE ~(i < Len(d))
    <3>1. (l + i - 1) + 1 = L + 1
      BY <1>1, <1>4, <2>4
    <3> QED
      BY <1>1, <2>2, <2>4, <3>1
  <2> QED
    BY <2>3, <2>4
<1>6. Nth(c, l) = IF Len(d) = 0 THEN Null ELSE d[1]
  <2>1. CASE l = L + 1
    <3>1. Len(d) = 0
      BY <1>1, <1>4, <2>1
    <3> QED
      BY <1>1, <2>1, <3>1
  <2>2. CASE l # L + 1
    <3>1. Len(d) # 0 /\ 1 \in 1 .. L - l + 1 /\ l \in 1 .. L /\ l + 1 - 1 = l
      BY <1>1, <1>4, <2>2
    <3>2. d[1] = c[l]
      BY <1>4, <3>1
    <3> QED
      BY <1>1, <3>1, <3>2
  <2> QED
    BY <2>1, <2>2
<1>7. Walked(nx, Nth(c, l), Null, N) = d
  <2>1. Null \notin Node /\ N \in Nat /\ Len(d) <= N + 1 /\ d \in Seq(Node)
    BY <1>1, <1>3, <1>4, ListAssumption
  <2>2. Walked(nx, IF Len(d) = 0 THEN Null ELSE d[1], Null, N) = d
    BY ONLY <1>5, <2>1, WalkIs, SMTT(30)
  <2> QED
    BY <1>6, <2>2
<1>8. RestOf(d, c, l)
  BY <1>4 DEF RestOf, L
<1> QED
  BY <1>7, <1>8 DEF N

\* The nodes that are found are those of the list.
LEMMA WalkAll ==
    ASSUME NEW c, NEW hd, NEW nx, Joined(c, hd, nx)
    PROVE  Walked(nx, hd, Null, Cardinality(Node)) = c
<1> DEFINE d == Walked(nx, hd, Null, Cardinality(Node))
           L == Len(c)
<1>1. L \in Nat /\ c \in Seq(Node) /\ DOMAIN c = 1 .. L
  BY JoinedFacts
<1>2. hd = Nth(c, 1)
  BY DEF Joined
<1>3. 1 \in 1 .. Len(c) + 1
  BY <1>1
<1>4. d \in Seq(Node) /\ Len(d) = Len(c) - 1 + 1 /\ \A i \in 1 .. Len(c) - 1 + 1 : d[i] = c[1 + i - 1]
  <2>1. RestOf(Walked(nx, Nth(c, 1), Null, Cardinality(Node)), c, 1)
    BY <1>3, WalkFrom
  <2>2. RestOf(d, c, 1)
    BY <1>2, <2>1
  <2> HIDE DEF d
  <2> QED
    BY <2>2 DEF RestOf
<1> HIDE DEF d
<1>5. Len(d) = L /\ L - 1 + 1 = L /\ \A i \in 1 .. L : 1 + i - 1 = i
  BY <1>1, <1>4
<1>6. \A i \in 1 .. L : d[i] = c[i]
  BY <1>4, <1>5
<1>7. d = c
  BY <1>1, <1>4, <1>5, <1>6, SeqEqual
<1> QED
  BY <1>7 DEF d

\* The list with a node n that was put at i.
LEMMA LinkedInsert ==
    ASSUME NEW c, NEW hd, NEW nx, Joined(c, hd, nx),
           NEW n \in Node, n \notin Range(c), NEW i \in 1 .. Len(c) + 1,
           NEW hd2, NEW nx2,
           hd2 = IF i = 1 THEN n ELSE hd,
           nx2[n] = Nth(c, i),
           i > 1 => nx2[c[i - 1]] = n,
           \A j \in 1 .. Len(c) : j # i - 1 => nx2[c[j]] = nx[c[j]]
    PROVE  Joined(InsertAt(c, i, n), hd2, nx2)
<1> DEFINE d == InsertAt(c, i, n)
           L == Len(c)
<1>1. /\ c \in Seq(Node) /\ IsInjective(c) /\ L \in Nat
      /\ \A j \in 1 .. L : c[j] \in Node /\ Nth(c, j) = c[j]
      /\ Nth(c, 0) = Null /\ Nth(c, L + 1) = Null
  BY JoinedFacts
<1>2. i \in 1 .. L + 1
  OBVIOUS
<1>3. /\ d \in Seq(Node) /\ Len(d) = L + 1
      /\ \A j \in 1 .. L + 1 : d[j] = IF j < i THEN c[j] ELSE IF j = i THEN n ELSE c[j - 1]
  <2> HIDE DEF d, L
  <2>1. c \in Seq(Node) /\ n \in Node /\ i \in 1 .. Len(c) + 1
    BY <1>1, <1>2 DEF L
  <2>2. /\ InsertAt(c, i, n) \in Seq(Node)
        /\ Len(InsertAt(c, i, n)) = Len(c) + 1
        /\ \A j \in 1 .. Len(c) + 1 :
              InsertAt(c, i, n)[j] = IF j < i THEN c[j] ELSE IF j = i THEN n ELSE c[j - 1]
    BY ONLY <2>1, InsertAtElements
  <2> QED
    BY <2>2 DEF d, L
<1>4. IsInjective(d)
  BY <1>1, <1>2, InsertAtRange
<1>5. \A j \in 1 .. L : nx[c[j]] = Nth(c, j + 1)
  BY DEF Joined
<1> HIDE DEF d
<1>6. (\A j \in 1 .. L + 1 : Nth(d, j) = d[j]) /\ Nth(d, (L + 1) + 1) = Null
  <2>1. (L + 1) + 1 \notin 1 .. L + 1
    BY <1>1
  <2> QED
    BY <1>3, <2>1 DEF Nth
<1>7. \A j \in 1 .. L : j # i - 1 => nx2[c[j]] = nx[c[j]]
  OBVIOUS
<1>8. hd2 = Nth(d, 1)
  <2>1. 1 \in 1 .. L + 1 /\ (i # 1 => 1 < i /\ 1 \in 1 .. L)
    BY <1>1, <1>2
  <2>2. hd = Nth(c, 1)
    BY DEF Joined
  <2>3. d[1] = IF 1 < i THEN c[1] ELSE IF 1 = i THEN n ELSE c[1 - 1]
    BY <1>3, <2>1
  <2> HIDE DEF L
  <2>4. CASE i = 1
    BY <1>6, <2>1, <2>3, <2>4
  <2>5. CASE i # 1
    BY <1>1, <1>6, <2>1, <2>2, <2>3, <2>5
  <2> QED
    BY <2>4, <2>5
<1> HIDE DEF L
<1>9. ASSUME NEW j \in 1 .. L + 1 PROVE nx2[d[j]] = Nth(d, j + 1)
  <2>1. CASE j < i - 1
    <3>1. j \in 1 .. L /\ j + 1 \in 1 .. L /\ j + 1 \in 1 .. L + 1 /\ j < i /\ j + 1 < i /\ j # i - 1
      BY <1>1, <1>2, <2>1
    <3>2. d[j] = c[j] /\ d[j + 1] = c[j + 1]
      BY <1>3, <3>1
    <3> QED
      BY <1>1, <1>5, <1>6, <1>7, <3>1, <3>2
  <2>2. CASE j = i - 1
    <3>1. j \in 1 .. L /\ j < i /\ i > 1 /\ j + 1 = i
      BY <1>1, <1>2, <2>2
    <3>2. d[j] = c[j] /\ d[i] = n
      BY <1>2, <1>3, <3>1
    <3>3. nx2[c[j]] = n
      BY <2>2, <3>1
    <3> QED
      BY <1>2, <1>6, <3>1, <3>2, <3>3
  <2>3. CASE j = i
    <3>1. d[j] = n /\ nx2[n] = Nth(c, i)
      BY <1>3, <2>3
    <3>2. CASE i = L + 1
      BY <1>1, <1>6, <2>3, <3>1, <3>2
    <3>3. CASE i # L + 1
      <4>1. i \in 1 .. L /\ j + 1 \in 1 .. L + 1 /\ ~(j + 1 < i) /\ j + 1 # i /\ (j + 1) - 1 = i
        BY <1>1, <1>2, <2>3, <3>3
      <4>2. d[j + 1] = c[i]
        BY <1>3, <4>1
      <4> QED
        BY <1>1, <1>6, <3>1, <4>1, <4>2
    <3> QED
      BY <3>2, <3>3
  <2>4. CASE j > i
    <3>1. j - 1 \in 1 .. L /\ ~(j < i) /\ j # i /\ (j - 1) + 1 = j /\ j - 1 # i - 1
      BY <1>1, <1>2, <2>4
    <3>2. d[j] = c[j - 1]
      BY <1>3, <3>1
    <3>3. nx2[d[j]] = Nth(c, j)
      BY <1>5, <1>7, <3>1, <3>2
    <3>4. CASE j = L + 1
      BY <1>1, <1>6, <3>3, <3>4
    <3>5. CASE j # L + 1
      <4>1. j \in 1 .. L /\ j + 1 \in 1 .. L + 1 /\ ~(j + 1 < i) /\ j + 1 # i /\ (j + 1) - 1 = j
        BY <1>1, <1>2, <2>4, <3>5
      <4>2. d[j + 1] = c[j]
        BY <1>3, <4>1
      <4> QED
        BY <1>1, <1>6, <3>3, <4>1, <4>2
    <3> QED
      BY <3>4, <3>5
  <2>5. j < i - 1 \/ j = i - 1 \/ j = i \/ j > i
    BY <1>1, <1>2
  <2> QED
    BY <2>1, <2>2, <2>3, <2>4, <2>5
<1>10. Joined(d, hd2, nx2)
  BY <1>3, <1>4, <1>8, <1>9 DEF Joined
<1> QED
  BY <1>10 DEF d

\* The list without the node at i.
LEMMA LinkedRemove ==
    ASSUME NEW c, NEW hd, NEW nx, Joined(c, hd, nx), NEW i \in 1 .. Len(c),
           NEW hd2, NEW nx2,
           hd2 = IF i = 1 THEN nx[c[1]] ELSE hd,
           i > 1 => nx2[c[i - 1]] = nx[c[i]],
           \A j \in 1 .. Len(c) : j # i - 1 /\ j # i => nx2[c[j]] = nx[c[j]]
    PROVE  Joined(RemoveAt(c, i), hd2, nx2)
<1> DEFINE d == RemoveAt(c, i)
           L == Len(c)
<1>1. /\ c \in Seq(Node) /\ IsInjective(c) /\ L \in Nat
      /\ \A j \in 1 .. L : c[j] \in Node /\ Nth(c, j) = c[j]
      /\ Nth(c, 0) = Null /\ Nth(c, L + 1) = Null
  BY JoinedFacts
<1>2. i \in 1 .. L
  OBVIOUS
<1>3. /\ d \in Seq(Node) /\ Len(d) = L - 1
      /\ \A j \in 1 .. L - 1 : d[j] = IF j < i THEN c[j] ELSE c[j + 1]
  BY <1>1, <1>2, RemoveAtElements
<1>4. IsInjective(d)
  BY <1>1, <1>2, RemoveAtRange
<1>5. \A j \in 1 .. L : nx[c[j]] = Nth(c, j + 1)
  BY DEF Joined
<1> HIDE DEF d
<1>6. (\A j \in 1 .. L - 1 : Nth(d, j) = d[j]) /\ Nth(d, L) = Null
  <2>1. L \notin 1 .. L - 1
    BY <1>1
  <2> QED
    BY <1>3, <2>1 DEF Nth
<1>7. \A j \in 1 .. L : j # i - 1 /\ j # i => nx2[c[j]] = nx[c[j]]
  OBVIOUS
\* What comes after a place in the new list is what came after the same entry, or the next.
<1>8. \A j \in 1 .. L - 1 : j + 1 < i => Nth(d, j + 1) = c[j + 1]
  <2> SUFFICES ASSUME NEW j \in 1 .. L - 1, j + 1 < i PROVE Nth(d, j + 1) = c[j + 1]
    OBVIOUS
  <2>1. j + 1 \in 1 .. L - 1
    BY <1>1, <1>2
  <2> QED
    BY <1>3, <1>6, <2>1
<1> HIDE DEF L
<1>9. \A j \in 0 .. L - 1 : j + 1 >= i => Nth(d, j + 1) = Nth(c, j + 2)
  <2> SUFFICES ASSUME NEW j \in 0 .. L - 1, j + 1 >= i PROVE Nth(d, j + 1) = Nth(c, j + 2)
    OBVIOUS
  <2>1. CASE j = L - 1
    <3>1. j + 1 = L /\ j + 2 = L + 1
      BY <1>1, <2>1
    <3> QED
      BY <1>1, <1>6, <3>1
  <2>2. CASE j # L - 1
    <3>1. j + 1 \in 1 .. L - 1 /\ ~(j + 1 < i) /\ (j + 1) + 1 = j + 2 /\ j + 2 \in 1 .. L
      BY <1>1, <2>2
    <3>2. d[j + 1] = c[j + 2]
      BY <1>3, <3>1
    <3> QED
      BY <1>1, <1>6, <3>1, <3>2
  <2> QED
    BY <2>1, <2>2
<1>10. hd2 = Nth(d, 1)
  <2>1. hd = Nth(c, 1)
    BY DEF Joined
  <2>2. CASE i = 1
    <3>1. 0 \in 0 .. L - 1 /\ 0 + 1 >= i /\ 1 \in 1 .. L /\ 0 + 1 = 1 /\ 0 + 2 = 1 + 1
      BY <1>1, <1>2, <2>2
    <3>2. Nth(d, 1) = Nth(c, 1 + 1)
      BY <1>9, <3>1
    <3>3. hd2 = nx[c[1]]
      BY <2>2
    <3> QED
      BY <1>5, <3>1, <3>2, <3>3
  <2>3. CASE i # 1
    <3>1. 1 \in 1 .. L - 1 /\ 1 < i /\ 1 \in 1 .. L
      BY <1>1, <1>2, <2>3
    <3>2. Nth(d, 1) = c[1]
      BY <1>3, <1>6, <3>1
    <3> QED
      BY <1>1, <2>1, <2>3, <3>1, <3>2
  <2> QED
    BY <2>2, <2>3
<1>11. ASSUME NEW j \in 1 .. L - 1 PROVE nx2[d[j]] = Nth(d, j + 1)
  <2>1. CASE j < i - 1
    <3>1. j \in 1 .. L /\ j + 1 \in 1 .. L /\ j < i /\ j + 1 < i /\ j # i - 1 /\ j # i
      BY <1>1, <1>2, <2>1
    <3>2. d[j] = c[j] /\ Nth(d, j + 1) = c[j + 1]
      BY <1>3, <1>8, <3>1
    <3> QED
      BY <1>1, <1>5, <1>7, <3>1, <3>2
  <2>2. CASE j = i - 1
    <3>1. j \in 1 .. L /\ j < i /\ i > 1 /\ j + 1 >= i /\ j \in 0 .. L - 1 /\ j + 2 = i + 1
      BY <1>1, <1>2, <2>2
    <3>2. d[j] = c[j] /\ Nth(d, j + 1) = Nth(c, i + 1)
      BY <1>3, <1>9, <3>1
    <3>3. nx2[c[j]] = nx[c[i]]
      BY <2>2, <3>1
    <3> QED
      BY <1>2, <1>5, <3>2, <3>3
  <2>3. CASE j >= i
    <3>1. /\ j + 1 \in 1 .. L /\ ~(j < i) /\ j + 1 >= i /\ j \in 0 .. L - 1
          /\ j + 1 # i - 1 /\ j + 1 # i /\ (j + 1) + 1 = j + 2
      BY <1>1, <1>2, <2>3
    <3>2. d[j] = c[j + 1] /\ Nth(d, j + 1) = Nth(c, j + 2)
      BY <1>3, <1>9, <3>1
    <3>3. nx2[c[j + 1]] = nx[c[j + 1]] /\ nx[c[j + 1]] = Nth(c, j + 2)
      BY <1>5, <1>7, <3>1
    <3> QED
      BY <3>2, <3>3
  <2>4. j < i - 1 \/ j = i - 1 \/ j >= i
    BY <1>1, <1>2
  <2> QED
    BY <2>1, <2>2, <2>3, <2>4
<1>12. Joined(d, hd2, nx2)
  BY <1>3, <1>4, <1>10, <1>11 DEF Joined
<1> QED
  BY <1>12 DEF d

\* The nodes that Chain finds are those of the list.
LEMMA ChainWalks ==
    /\ Chain = Walked(next, head, Null, Cardinality(Node))
    /\ Chain' = Walked(next', head', Null, Cardinality(Node))
    /\ \A n, i : Walk(n, i) = Walked(next, n, Null, i)
BY DEF Chain, Walk, Walked

\* The entries of a list of nodes.
ContentsOf(c, it) == [i \in 1 .. Len(c) |-> it[c[i]]]

\* What the pointers link is the chain, and its keys are the contents.
LEMMA ItemsAre ==
    ASSUME NEW c
    PROVE  /\ Joined(c, head, next) => Chain = c /\ Contents = ContentsOf(c, item)
           /\ Joined(c, head', next') => Chain' = c /\ Contents' = ContentsOf(c, item')
<1>1. ASSUME Joined(c, head, next) PROVE Chain = c /\ Contents = ContentsOf(c, item)
  <2>1. Chain = c
    BY <1>1, WalkAll, ChainWalks
  <2>2. DOMAIN c = 1 .. Len(c)
    BY <1>1, JoinedFacts
  <2> QED
    BY <2>1, <2>2 DEF Contents, ContentsOf
<1>2. ASSUME Joined(c, head', next') PROVE Chain' = c /\ Contents' = ContentsOf(c, item')
  <2>1. Chain' = c
    BY <1>2, WalkAll, ChainWalks
  <2>2. DOMAIN c = 1 .. Len(c)
    BY <1>2, JoinedFacts
  <2> QED
    BY <2>1, <2>2 DEF Contents, ContentsOf
<1> QED
  BY <1>1, <1>2

\* The first index that passes a test.
LEMMA FirstFound ==
    ASSUME NEW c, Len(c) \in Nat, DOMAIN c = 1 .. Len(c), NEW hits \in SUBSET (1 .. Len(c))
    PROVE  LET f == IF hits = {} THEN 0 ELSE CHOOSE i \in hits : \A j \in hits : i <= j
           IN  /\ hits = {} => f = 0
               /\ hits # {} => f \in hits /\ \A j \in hits : f <= j
<1>1. ASSUME hits # {} PROVE LET f == CHOOSE i \in hits : \A j \in hits : i <= j
                             IN  f \in hits /\ \A j \in hits : f <= j
  <2>1. hits \in SUBSET Nat
    OBVIOUS
  <2>2. Min(hits) \in hits /\ \A j \in hits : Min(hits) <= j
    BY <1>1, <2>1, LeastOf
  <2>3. \E i \in hits : \A j \in hits : i <= j
    BY <2>2
  <2> QED
    BY <2>3
<1> QED
  BY <1>1

\* Where an entry belongs.
Belongs(c, i, e) == /\ i \in 1 .. Len(c) + 1
                    /\ kind = "lifo" => i = 1
                    /\ kind = "fifo" => i = Len(c) + 1
                    /\ kind = "sorted" => \A j \in 1 .. Len(c) : /\ j < i => Key(c[j]) <= e.key
                                                                 /\ i <= j => e.key < Key(c[j])

\* Every place of the list holds an item with a key.
LEMMA KeysAreNumbers ==
    ASSUME ListTyped, NEW c, ListIs(c)
    PROVE  \A i \in 1 .. Len(c) : item[c[i]] \in Item /\ item[c[i]] # Null /\ Key(c[i]) \in Int
<1> SUFFICES ASSUME NEW i \in 1 .. Len(c)
             PROVE  item[c[i]] \in Item /\ item[c[i]] # Null /\ Key(c[i]) \in Int
  OBVIOUS
<1>1. c[i] \in Node /\ c[i] \in Range(c)
  BY JoinedFacts DEF ListIs
<1>2. item[c[i]] # Null
  BY <1>1 DEF ListIs, Holds
<1>3. item[c[i]] \in Item
  BY <1>1, <1>2 DEF ListTyped
<1> QED
  BY <1>2, <1>3, ListAssumption DEF Key

\* A new entry goes behind the node it should.
LEMMA PredecessorIs ==
    ASSUME ListTyped, NEW c, ListIs(c), c # <<>>, NEW e \in Item
    PROVE  \E i \in 1 .. Len(c) + 1 : Belongs(c, i, e) /\ Predecessor(e) = Nth(c, i - 1)
<1> DEFINE L == Len(c)
           hits == {i \in 1 .. L : Key(c[i]) > e.key}
           f == IF hits = {} THEN 0 ELSE CHOOSE i \in hits : \A j \in hits : i <= j
<1>1. /\ c \in Seq(Node) /\ L \in Nat /\ DOMAIN c = 1 .. L /\ \A i \in 1 .. L : Nth(c, i) = c[i]
      /\ Nth(c, 0) = Null
  BY JoinedFacts DEF ListIs
<1>2. L # 0
  BY <1>1, EmptySeq
<1>3. Chain = c
  BY ItemsAre DEF ListIs
<1>4. Predecessor(e) = IF kind = "lifo" THEN Null
                       ELSE IF kind = "fifo" \/ f = 0 THEN c[L]
                       ELSE Before(c, f)
  BY <1>1, <1>3 DEF Predecessor, FirstIndex
<1>5. kind \in {"sorted", "lifo", "fifo"} /\ e.key \in Int
  BY ListAssumption DEF ListTyped
<1>6. \A i \in 1 .. L : Key(c[i]) \in Int
  BY KeysAreNumbers
<1>7. (hits = {} => f = 0) /\ (hits # {} => f \in hits /\ \A j \in hits : f <= j)
  <2>1. hits \in SUBSET (1 .. Len(c))
    OBVIOUS
  <2> HIDE DEF hits
  <2> QED
    BY <1>1, <2>1, FirstFound
<1> HIDE DEF f
<1>8. CASE kind = "lifo"
  <2>1. 1 \in 1 .. L + 1 /\ 1 - 1 = 0
    BY <1>1
  <2>2. Belongs(c, 1, e)
    BY <1>8, <2>1 DEF Belongs
  <2>3. Predecessor(e) = Nth(c, 1 - 1)
    BY <1>1, <1>4, <1>8, <2>1
  <2> QED
    BY <2>1, <2>2, <2>3
<1>9. CASE kind = "fifo"
  <2>1. L + 1 \in 1 .. L + 1 /\ (L + 1) - 1 = L /\ L \in 1 .. L
    BY <1>1, <1>2
  <2>2. Belongs(c, L + 1, e)
    BY <1>9, <2>1 DEF Belongs
  <2>3. Predecessor(e) = Nth(c, (L + 1) - 1)
    BY <1>1, <1>4, <1>9, <2>1
  <2> QED
    BY <2>1, <2>2, <2>3
<1>10. CASE kind = "sorted" /\ hits = {}
  <2>1. L + 1 \in 1 .. L + 1 /\ (L + 1) - 1 = L /\ L \in 1 .. L
    BY <1>1, <1>2
  <2>2. \A j \in 1 .. L : ~(Key(c[j]) > e.key) /\ ~(L + 1 <= j)
    BY <1>1, <1>10
  <2>3. Belongs(c, L + 1, e)
    BY <1>5, <1>6, <1>10, <2>1, <2>2 DEF Belongs
  <2>4. Predecessor(e) = Nth(c, (L + 1) - 1)
    BY <1>1, <1>4, <1>7, <1>10, <2>1
  <2> QED
    BY <2>1, <2>3, <2>4
<1>11. CASE kind = "sorted" /\ hits # {}
  <2>1. f \in 1 .. L /\ Key(c[f]) > e.key /\ \A j \in hits : f <= j
    BY <1>7, <1>11
  <2>2. f \in 1 .. L + 1 /\ f # 0 /\ (f # 1 => f - 1 \in 1 .. L)
    BY <1>1, <2>1
  <2>3. ASSUME NEW j \in 1 .. L, j < f PROVE Key(c[j]) <= e.key
    <3>1. j \notin hits
      BY <2>1, <2>3
    <3>2. ~(Key(c[j]) > e.key)
      BY <3>1
    <3> QED
      BY <1>5, <1>6, <3>2
  <2>4. ASSUME NEW j \in 1 .. L, f <= j PROVE e.key < Key(c[j])
    <3>1. Key(c[f]) <= Key(c[j])
      BY <1>11, <2>1, <2>4 DEF ListIs, Holds
    <3>2. Key(c[f]) \in Int /\ Key(c[j]) \in Int
      BY <1>6, <2>1
    <3> HIDE DEF hits
    <3> QED
      BY <1>5, <2>1, <3>1, <3>2
  <2>5. Belongs(c, f, e)
    BY <1>11, <2>2, <2>3, <2>4 DEF Belongs
  <2>6. Before(c, f) = Nth(c, f - 1)
    <3> HIDE DEF hits, L
    <3>1. CASE f = 1
      BY <1>1, <3>1 DEF Before
    <3>2. CASE f # 1
      BY <1>1, <2>2, <3>2 DEF Before
    <3> QED
      BY <3>1, <3>2
  <2>7. Predecessor(e) = Nth(c, f - 1)
    BY <1>4, <1>11, <2>2, <2>6
  <2> QED
    BY <2>2, <2>5, <2>7
<1> QED
  BY <1>5, <1>8, <1>9, <1>10, <1>11

\* That is where the abstract list puts it.
LEMMA PlaceIs ==
    ASSUME ListTyped, NEW c, ListIs(c), NEW e \in Item, NEW i, Belongs(c, i, e)
    PROVE  List!Place(e) = i
<1> DEFINE L == Len(c)
           s == ContentsOf(c, item)
<1>1. L \in Nat /\ Contents = s
  BY JoinedFacts, ItemsAre DEF ListIs
<1>2. DOMAIN s = 1 .. L /\ Len(s) = L /\ \A j \in 1 .. L : s[j].key = Key(c[j])
  <2>1. s = [j \in 1 .. L |-> item[c[j]]]
    BY DEF ContentsOf
  <2> HIDE DEF s
  <2> QED
    BY <1>1, <2>1 DEF Key
<1>3. kind \in {"sorted", "lifo", "fifo"} /\ e.key \in Int
  BY ListAssumption DEF ListTyped
<1> HIDE DEF s
<1>4. CASE kind = "lifo"
  BY <1>4 DEF List!Place, Belongs
<1>5. CASE kind = "fifo"
  BY <1>1, <1>2, <1>5 DEF List!Place, Belongs
<1>6. CASE kind = "sorted"
  <2> DEFINE B == {j \in 1 .. L : s[j].key <= e.key}
  <2>1. i \in 1 .. L + 1 /\ \A j \in 1 .. L : (j < i => Key(c[j]) <= e.key) /\ (i <= j => e.key < Key(c[j]))
    BY <1>6 DEF Belongs
  <2>2. \A j \in 1 .. L : Key(c[j]) \in Int
    BY KeysAreNumbers
  <2>3. B = 1 .. i - 1
    <3>1. ASSUME NEW j \in B PROVE j \in 1 .. i - 1
      <4>1. j \in 1 .. L /\ Key(c[j]) <= e.key
        BY <1>2
      <4>2. ~(i <= j)
        BY <1>3, <2>1, <2>2, <4>1
      <4> QED
        BY <1>1, <2>1, <4>1, <4>2
    <3>2. ASSUME NEW j \in 1 .. i - 1 PROVE j \in B
      <4>1. j \in 1 .. L /\ j < i
        BY <1>1, <2>1
      <4>2. s[j].key <= e.key
        BY <1>2, <2>1, <4>1
      <4> QED
        BY <4>1, <4>2
    <3> QED
      BY <3>1, <3>2
  <2>4. Cardinality(1 .. i - 1) = i - 1
    <3>1. 1 \in Int /\ i - 1 \in Int /\ (1 > i - 1 => i - 1 = 0) /\ (i - 1) - 1 + 1 = i - 1
      BY <1>1, <2>1
    <3>2. Cardinality(1 .. i - 1) = IF 1 > i - 1 THEN 0 ELSE (i - 1) - 1 + 1
      BY <3>1, FS_Interval
    <3> QED
      BY <3>1, <3>2
  <2>5. List!Place(e) = Cardinality(B) + 1
    <3>1. List!Place(e) = Cardinality({j \in DOMAIN Contents : Contents[j].key <= e.key}) + 1
      <4>1. \A S : List!Cardinality(S) = Cardinality(S)
        BY DEF List!Cardinality, Cardinality
      <4> QED
        BY <1>6, <4>1 DEF List!Place
    <3>2. {j \in DOMAIN Contents : Contents[j].key <= e.key} = B
      BY <1>1, <1>2
    <3> HIDE DEF B
    <3> QED
      BY <3>1, <3>2
  <2>6. (i - 1) + 1 = i
    BY <1>1, <2>1
  <2> HIDE DEF B
  <2> QED
    BY <2>3, <2>4, <2>5, <2>6
<1> QED
  BY <1>3, <1>4, <1>5, <1>6

\* _ssll_insert: the nodes stay a list, and the list has the entry at its place.
LEMMA InsertStep ==
    ASSUME ListInv, NEW e \in Item, ListInsert(e)
    PROVE  ListInv' /\ List!Put(e) /\ kind' = kind
<1>1. PICK c \in Seq(Node) : ListIs(c)
  BY DEF ListInv
<1>2. PICK n \in Free :
          /\ item' = [item EXCEPT ![n] = e]
          /\ count' = count + 1
          /\ IF head = Null THEN head' = n /\ next' = [next EXCEPT ![n] = Null]
             ELSE LET p == Predecessor(e)
                  IN  IF p = Null THEN /\ head' = n
                                       /\ next' = [next EXCEPT ![n] = head]
                      ELSE /\ next' = [next EXCEPT ![n] = next[p], ![p] = n]
                           /\ UNCHANGED head
          /\ Stale
          /\ UNCHANGED kind
  BY DEF ListInsert
<1> DEFINE L == Len(c)
<1>3. /\ IsInjective(c) /\ L \in Nat /\ DOMAIN c = 1 .. L
      /\ \A i \in 1 .. L : c[i] \in Node /\ c[i] # Null /\ c[i] \in Range(c) /\ Nth(c, i) = c[i]
      /\ \A i, j \in 1 .. L : c[i] = c[j] => i = j
      /\ Nth(c, 0) = Null /\ Nth(c, L + 1) = Null
  BY <1>1, JoinedFacts DEF ListIs
<1>4. ListTyped /\ Joined(c, head, next) /\ Holds(c)
  BY <1>1 DEF ListIs, ListInv
<1>5. n \in Node /\ n \notin Range(c) /\ \A i \in 1 .. L : c[i] # n
  BY <1>3, <1>4 DEF Free, Holds
<1>6. next \in [Node -> Node \cup {Null}] /\ item \in [Node -> Item \cup {Null}]
  BY <1>4 DEF ListTyped
<1>7. head = Nth(c, 1) /\ \A i \in 1 .. L : next[c[i]] = Nth(c, i + 1)
  BY <1>4 DEF Joined
<1>8. PICK i \in 1 .. L + 1 : /\ Belongs(c, i, e)
                              /\ head' = IF i = 1 THEN n ELSE head
                              /\ next'[n] = Nth(c, i)
                              /\ i > 1 => next'[c[i - 1]] = n
                              /\ \A j \in 1 .. L : j # i - 1 => next'[c[j]] = next[c[j]]
                              /\ next' \in [Node -> Node \cup {Null}]
  <2>1. CASE head = Null
    <3>1. L = 0
      <4>1. L # 0 => 1 \in 1 .. L
        BY <1>3
      <4> QED
        BY <1>3, <1>7, <2>1, <4>1
    <3>2. Belongs(c, 1, e)
      <4>1. 1 \in 1 .. Len(c) + 1 /\ Len(c) + 1 = 1 /\ \A j \in 1 .. Len(c) : FALSE
        BY <3>1
      <4> QED
        BY <4>1 DEF Belongs
    <3>3. head' = n /\ next' = [next EXCEPT ![n] = Null]
      BY <1>2, <2>1
    <3>4. next'[n] = Null /\ Nth(c, 1) = Null /\ next' \in [Node -> Node \cup {Null}]
      BY <1>5, <1>6, <1>7, <2>1, <3>3
    <3>5. 1 \in 1 .. L + 1 /\ \A j \in 1 .. L : FALSE
      BY <3>1
    <3> QED
      BY <3>2, <3>3, <3>4, <3>5
  <2>2. CASE head # Null
    <3>1. c # <<>>
      BY <1>7, <2>2, EmptySeq DEF Nth
    <3>2. PICK i \in 1 .. Len(c) + 1 : Belongs(c, i, e) /\ Predecessor(e) = Nth(c, i - 1)
      BY <1>1, <1>4, <3>1, PredecessorIs
    <3>3. CASE i = 1
      <4>1. Predecessor(e) = Null
        BY <1>3, <3>2, <3>3
      <4>2. head' = n /\ next' = [next EXCEPT ![n] = head]
        BY <1>2, <2>2, <4>1
      <4>3. head \in Node \cup {Null}
        BY <1>3, <1>7 DEF Nth
      <4>4. next'[n] = Nth(c, 1) /\ next' \in [Node -> Node \cup {Null}]
        BY <1>5, <1>6, <1>7, <4>2, <4>3
      <4>5. \A j \in 1 .. L : next'[c[j]] = next[c[j]]
        BY <1>3, <1>5, <1>6, <4>2
      <4> QED
        BY <3>2, <3>3, <4>2, <4>4, <4>5
    <3>4. CASE i # 1
      <4>1. i - 1 \in 1 .. L /\ (i - 1) + 1 = i /\ i > 1
        BY <1>3, <3>4
      <4>2. Predecessor(e) = c[i - 1] /\ c[i - 1] # Null /\ c[i - 1] \in Node /\ c[i - 1] # n
        BY <1>3, <1>5, <3>2, <4>1
      <4>3. head' = head /\ next' = [next EXCEPT ![n] = next[c[i - 1]], ![c[i - 1]] = n]
        BY <1>2, <2>2, <4>2
      <4>4. next[c[i - 1]] = Nth(c, i)
        BY <1>7, <4>1
      <4>5. next'[n] = Nth(c, i) /\ next'[c[i - 1]] = n /\ next' \in [Node -> Node \cup {Null}]
        BY <1>5, <1>6, <4>2, <4>3, <4>4
      <4>6. ASSUME NEW j \in 1 .. L, j # i - 1 PROVE next'[c[j]] = next[c[j]]
        <5>1. c[j] # c[i - 1] /\ c[j] # n /\ c[j] \in Node
          BY <1>3, <1>5, <4>1, <4>6
        <5> QED
          BY <1>5, <1>6, <4>2, <4>3, <5>1
      <4> QED
        BY <3>2, <3>4, <4>1, <4>3, <4>5, <4>6
    <3> QED
      BY <3>3, <3>4
  <2> QED
    BY <2>1, <2>2
<1>9. PICK d : d = InsertAt(c, i, n)
  OBVIOUS
<1>10. Joined(d, head', next')
  BY <1>4, <1>5, <1>8, <1>9, LinkedInsert
<1>11. /\ d \in Seq(Node) /\ Len(d) = L + 1
       /\ \A j \in 1 .. L + 1 : d[j] = IF j < i THEN c[j] ELSE IF j = i THEN n ELSE c[j - 1]
  <2>1. c \in Seq(Node) /\ n \in Node /\ i \in 1 .. Len(c) + 1
    BY <1>5
  <2>2. /\ InsertAt(c, i, n) \in Seq(Node)
        /\ Len(InsertAt(c, i, n)) = Len(c) + 1
        /\ \A j \in 1 .. Len(c) + 1 :
              InsertAt(c, i, n)[j] = IF j < i THEN c[j] ELSE IF j = i THEN n ELSE c[j - 1]
    BY ONLY <2>1, InsertAtElements
  <2> QED
    BY <1>9, <2>2
<1>12. Range(d) = Range(c) \cup {n}
  BY <1>5, <1>8, <1>9, InsertAtRange
<1>13. item'[n] = e /\ \A k \in Node : k # n => item'[k] = item[k]
  BY <1>2, <1>5, <1>6
<1>14. \A j \in 1 .. L + 1 : item'[d[j]] = IF j < i THEN item[c[j]] ELSE IF j = i THEN e ELSE item[c[j - 1]]
  <2> SUFFICES ASSUME NEW j \in 1 .. L + 1
               PROVE  item'[d[j]] = IF j < i THEN item[c[j]] ELSE IF j = i THEN e ELSE item[c[j - 1]]
    OBVIOUS
  <2>1. (j < i => j \in 1 .. L) /\ (~(j < i) /\ j # i => j - 1 \in 1 .. L)
    BY <1>3, <1>8
  <2> QED
    BY <1>3, <1>5, <1>11, <1>13, <2>1
<1> HIDE DEF L
<1>15. Holds(d)'
  <2>1. \A k \in Node : item'[k] # Null <=> k \in Range(d)
    <3>1. e # Null
      BY ListAssumption
    <3>2. \A k \in Node : item[k] # Null <=> k \in Range(c)
      BY <1>4 DEF Holds
    <3> QED
      BY <1>12, <1>13, <3>1, <3>2
  <2>2. count' = Len(d)
    BY <1>2, <1>4, <1>11 DEF Holds, L
  <2>3. ASSUME kind' = "sorted", NEW j \in 1 .. L + 1, NEW k \in 1 .. L + 1, j <= k
        PROVE  item'[d[j]].key <= item'[d[k]].key
    <3>1. kind = "sorted"
      BY <1>2, <2>3
    <3>2. \A m \in 1 .. L : /\ m < i => item[c[m]].key <= e.key
                            /\ i <= m => e.key < item[c[m]].key
      BY <1>8, <3>1 DEF Belongs, Key, L
    <3>3. \A m, o \in 1 .. L : m <= o => item[c[m]].key <= item[c[o]].key
      BY <1>4, <3>1 DEF Holds, Key, L
    <3>4. e.key \in Int /\ \A m \in 1 .. L : item[c[m]].key \in Int
      BY <1>1, <1>4, KeysAreNumbers, ListAssumption DEF Key, L
    <3>5. CASE k < i
      <4>1. j \in 1 .. L /\ k \in 1 .. L /\ j < i
        BY <1>3, <1>8, <2>3, <3>5
      <4> QED
        BY <1>14, <2>3, <3>3, <3>5, <4>1
    <3>6. CASE k = i
      <4>1. j = i \/ (j < i /\ j \in 1 .. L)
        BY <1>3, <1>8, <2>3, <3>6
      <4>2. item'[d[k]] = e
        BY <1>14, <3>6
      <4>3. CASE j = i
        BY <3>4, <3>6, <4>2, <4>3
      <4>4. CASE j < i /\ j \in 1 .. L
        BY <1>14, <3>2, <4>2, <4>4
      <4> QED
        BY <4>1, <4>3, <4>4
    <3>7. CASE k > i
      <4>1. k - 1 \in 1 .. L /\ i <= k - 1 /\ ~(k < i) /\ k # i
        BY <1>3, <1>8, <3>7
      <4>2. item'[d[k]] = item[c[k - 1]]
        BY <1>14, <4>1
      <4>3. CASE j < i
        <5>1. j \in 1 .. L /\ j <= k - 1
          BY <1>3, <1>8, <4>1, <4>3
        <5> QED
          BY <1>14, <3>3, <4>1, <4>2, <4>3, <5>1
      <4>4. CASE j = i
        <5>1. e.key < item[c[k - 1]].key
          BY <3>2, <4>1
        <5>2. item'[d[j]] = e
          BY <1>14, <4>4
        <5> QED
          BY <3>4, <4>1, <4>2, <5>1, <5>2
      <4>5. CASE j > i
        <5>1. j - 1 \in 1 .. L /\ j - 1 <= k - 1 /\ ~(j < i) /\ j # i
          BY <1>3, <1>8, <2>3, <4>1, <4>5
        <5> QED
          BY <1>14, <3>3, <4>1, <4>2, <5>1
      <4> QED
        BY <1>8, <4>3, <4>4, <4>5
    <3> QED
      BY <1>8, <3>5, <3>6, <3>7
  <2>4. kind' = "sorted" => \A j, k \in 1 .. Len(d) : j <= k => item'[d[j]].key <= item'[d[k]].key
    BY <1>11, <2>3
  <2> QED
    BY <2>1, <2>2, <2>4 DEF Holds, Key
<1>16. ListIs(d)'
  <2>1. inSync' = FALSE
    BY <1>2 DEF Stale
  <2> QED
    BY <1>10, <1>15, <2>1 DEF ListIs, Stands
<1>17. ListTyped'
  <2>1. item' \in [Node -> Item \cup {Null}]
    BY <1>2, <1>5, <1>6
  <2> QED
    BY <1>2, <1>4, <1>8, <2>1 DEF ListTyped
<1>18. List!Put(e)
  <2> DEFINE s == ContentsOf(c, item)
             t == ContentsOf(d, item')
  <2>1. Contents = s /\ Contents' = t
    BY <1>4, <1>10, ItemsAre
  <2>2. s \in Seq(Item) /\ Len(s) = L /\ \A j \in 1 .. L : s[j] = item[c[j]]
    <3>1. s = [j \in 1 .. L |-> item[c[j]]]
      BY DEF ContentsOf, L
    <3>2. \A j \in 1 .. L : item[c[j]] \in Item
      BY <1>1, <1>4, KeysAreNumbers DEF L
    <3> QED
      BY <1>3, <3>1, <3>2
  <2>3. DOMAIN t = 1 .. L + 1 /\ \A j \in 1 .. L + 1 : t[j] = item'[d[j]]
    BY <1>11 DEF ContentsOf
  <2>4. t = [j \in 1 .. L + 1 |-> item'[d[j]]]
    BY <1>11 DEF ContentsOf
  <2> HIDE DEF s, t
  <2>5. /\ InsertAt(s, i, e) \in Seq(Item)
        /\ Len(InsertAt(s, i, e)) = L + 1
        /\ \A j \in 1 .. L + 1 : InsertAt(s, i, e)[j] = IF j < i THEN s[j] ELSE IF j = i THEN e ELSE s[j - 1]
    <3>1. i \in 1 .. Len(s) + 1 /\ s \in Seq(Item) /\ e \in Item
      BY <1>8, <2>2 DEF L
    <3>2. /\ InsertAt(s, i, e) \in Seq(Item)
          /\ Len(InsertAt(s, i, e)) = Len(s) + 1
          /\ \A j \in 1 .. Len(s) + 1 :
                InsertAt(s, i, e)[j] = IF j < i THEN s[j] ELSE IF j = i THEN e ELSE s[j - 1]
      BY ONLY <3>1, InsertAtElements
    <3> QED
      BY <2>2, <3>2
  <2> DEFINE u == InsertAt(s, i, e)
  <2> HIDE DEF u
  <2>6. u \in Seq(Item) /\ Len(u) = L + 1
        /\ \A j \in 1 .. L + 1 : u[j] = IF j < i THEN s[j] ELSE IF j = i THEN e ELSE s[j - 1]
    BY <2>5 DEF u
  <2>7. ASSUME NEW j \in 1 .. L + 1 PROVE u[j] = t[j]
    <3>1. (j < i => j \in 1 .. L) /\ (~(j < i) /\ j # i => j - 1 \in 1 .. L)
      BY <1>3, <1>8 DEF L
    <3> QED
      BY <1>14, <2>2, <2>3, <2>6, <3>1, SMTT(30)
  <2>8. u = t
    <3>1. t \in Seq(Item) /\ Len(t) = L + 1
      <4>1. \A j \in 1 .. L + 1 : t[j] \in Item
        <5> SUFFICES ASSUME NEW j \in 1 .. L + 1 PROVE t[j] \in Item
          OBVIOUS
        <5>1. u[j] \in Item
          BY <2>6, ElementOfSeq
        <5> QED
          BY <2>7, <5>1
      <4>2. L + 1 \in Nat
        BY <1>3 DEF L
      <4> QED
        BY <2>3, <2>4, <4>1, <4>2
    <3> QED
      BY <2>6, <2>7, <3>1, SeqEqual
  <2>9. List!Place(e) = i
    BY <1>1, <1>4, <1>8, PlaceIs
  <2>10. List!InsertAt(s, i, e) = InsertAt(s, i, e)
    BY DEF List!InsertAt, InsertAt
  <2> QED
    BY <2>1, <2>8, <2>9, <2>10 DEF List!Put, u
<1> QED
  BY <1>2, <1>11, <1>16, <1>17, <1>18 DEF ListInv

\* A node that is released leaves the list, and its entry the contents.
LEMMA ReleaseStep ==
    ASSUME ListTyped, NEW c \in Seq(Node), ListIs(c), NEW i \in 1 .. Len(c), Release(i)
    PROVE  ListInv' /\ Contents' = RemoveAt(Contents, i) /\ kind' = kind
<1> DEFINE L == Len(c)
<1>1. /\ IsInjective(c) /\ L \in Nat /\ DOMAIN c = 1 .. L
      /\ \A j \in 1 .. L : c[j] \in Node /\ c[j] # Null /\ c[j] \in Range(c) /\ Nth(c, j) = c[j]
      /\ \A j, k \in 1 .. L : c[j] = c[k] => j = k
  BY JoinedFacts DEF ListIs
<1>2. Joined(c, head, next) /\ Holds(c) /\ Chain = c /\ i \in 1 .. L
  BY ItemsAre DEF ListIs
<1>3. next \in [Node -> Node \cup {Null}] /\ item \in [Node -> Item \cup {Null}]
  BY DEF ListTyped
<1>4. /\ item' = [item EXCEPT ![c[i]] = Null]
      /\ count' = count - 1 /\ kind' = kind /\ inSync' = FALSE
      /\ IF Before(c, i) = Null THEN head' = next[c[i]] /\ next' = [next EXCEPT ![c[i]] = Null]
         ELSE next' = [next EXCEPT ![Before(c, i)] = next[c[i]], ![c[i]] = Null] /\ UNCHANGED head
  BY <1>2 DEF Release, Unlink, Stale
<1>5. next[c[i]] \in Node \cup {Null}
  BY <1>1, <1>2, <1>3
<1>6. /\ head' = IF i = 1 THEN next[c[1]] ELSE head
      /\ i > 1 => next'[c[i - 1]] = next[c[i]]
      /\ \A j \in 1 .. L : j # i - 1 /\ j # i => next'[c[j]] = next[c[j]]
      /\ next' \in [Node -> Node \cup {Null}]
  <2>1. CASE i = 1
    <3>1. head' = next[c[i]] /\ next' = [next EXCEPT ![c[i]] = Null]
      BY <1>4, <2>1 DEF Before
    <3>2. next' \in [Node -> Node \cup {Null}] /\ \A j \in 1 .. L : j # i => next'[c[j]] = next[c[j]]
      BY <1>1, <1>2, <1>3, <3>1
    <3> QED
      BY <2>1, <3>1, <3>2
  <2>2. CASE i # 1
    <3>1. i - 1 \in 1 .. L /\ i - 1 # i
      BY <1>1, <2>2
    <3>2. c[i - 1] # c[i] /\ c[i - 1] # Null /\ c[i - 1] \in Node
      BY <1>1, <1>2, <3>1
    <3>3. head' = head /\ next' = [next EXCEPT ![c[i - 1]] = next[c[i]], ![c[i]] = Null]
      BY <1>4, <2>2, <3>2 DEF Before
    <3>4. next' \in [Node -> Node \cup {Null}] /\ next'[c[i - 1]] = next[c[i]]
      BY <1>1, <1>2, <1>3, <1>5, <3>2, <3>3
    <3>5. ASSUME NEW j \in 1 .. L, j # i - 1, j # i PROVE next'[c[j]] = next[c[j]]
      <4>1. c[j] # c[i - 1] /\ c[j] # c[i] /\ c[j] \in Node
        BY <1>1, <1>2, <3>1, <3>5
      <4> QED
        BY <1>1, <1>3, <3>2, <3>3, <4>1
    <3> QED
      BY <2>2, <3>3, <3>4, <3>5
  <2> QED
    BY <2>1, <2>2
<1>7. PICK d : d = RemoveAt(c, i)
  OBVIOUS
<1>8. Joined(d, head', next')
  BY <1>2, <1>6, <1>7, LinkedRemove, ZenonT(40)
<1>9. /\ d \in Seq(Node) /\ Len(d) = L - 1
      /\ \A j \in 1 .. L - 1 : d[j] = IF j < i THEN c[j] ELSE c[j + 1]
  <2>1. c \in Seq(Node) /\ i \in 1 .. Len(c)
    OBVIOUS
  <2>2. /\ RemoveAt(c, i) \in Seq(Node)
        /\ Len(RemoveAt(c, i)) = Len(c) - 1
        /\ \A j \in 1 .. Len(c) - 1 : RemoveAt(c, i)[j] = IF j < i THEN c[j] ELSE c[j + 1]
    BY ONLY <2>1, RemoveAtElements
  <2> QED
    BY <1>7, <2>2
<1>10. Range(d) = Range(c) \ {c[i]}
  BY <1>1, <1>7, RemoveAtRange
<1> HIDE DEF L
<1>11. \A j \in 1 .. L - 1 : LET k == IF j < i THEN j ELSE j + 1
                             IN  k \in 1 .. L /\ k # i /\ d[j] = c[k] /\ item'[d[j]] = item[c[k]]
  <2> SUFFICES ASSUME NEW j \in 1 .. L - 1, NEW k, k = IF j < i THEN j ELSE j + 1
               PROVE  k \in 1 .. L /\ k # i /\ d[j] = c[k] /\ item'[d[j]] = item[c[k]]
    OBVIOUS
  <2>1. k \in 1 .. L /\ k # i
    BY <1>1, <1>2
  <2>2. d[j] = c[k]
    BY <1>9
  <2>3. c[k] # c[i] /\ c[k] \in Node
    BY <1>1, <1>2, <2>1
  <2> QED
    BY <1>3, <1>4, <2>1, <2>2, <2>3
<1>12. Holds(d)'
  <2>1. \A k \in Node : item'[k] # Null <=> k \in Range(d)
    BY <1>1, <1>2, <1>3, <1>4, <1>10 DEF Holds
  <2>2. count' = Len(d)
    BY <1>2, <1>4, <1>9 DEF Holds, L
  <2>3. ASSUME kind' = "sorted", NEW j \in 1 .. Len(d), NEW k \in 1 .. Len(d), j <= k
        PROVE  item'[d[j]].key <= item'[d[k]].key
    <3>1. PICK m, o : m = (IF j < i THEN j ELSE j + 1) /\ o = (IF k < i THEN k ELSE k + 1)
      OBVIOUS
    <3>2. m \in 1 .. L /\ o \in 1 .. L /\ item'[d[j]] = item[c[m]] /\ item'[d[k]] = item[c[o]]
      BY <1>9, <1>11, <3>1
    <3>3. m <= o
      BY <1>1, <1>2, <1>9, <2>3, <3>1
    <3>4. item[c[m]].key <= item[c[o]].key
      BY <1>2, <1>4, <2>3, <3>2, <3>3 DEF Holds, Key, L
    <3> QED
      BY <3>2, <3>4
  <2> QED
    BY <2>1, <2>2, <2>3 DEF Holds, Key
<1>13. ListIs(d)'
  BY <1>4, <1>8, <1>12 DEF ListIs, Stands
<1>14. ListTyped'
  <2>1. item' \in [Node -> Item \cup {Null}]
    BY <1>1, <1>2, <1>3, <1>4
  <2> QED
    BY <1>4, <1>6, <2>1 DEF ListTyped
<1>15. Contents' = RemoveAt(Contents, i)
  <2> DEFINE s == ContentsOf(c, item)
             t == ContentsOf(d, item')
  <2>1. Contents = s /\ Contents' = t
    BY <1>2, <1>8, ItemsAre
  <2>2. s \in Seq(Item) /\ Len(s) = L /\ \A j \in 1 .. L : s[j] = item[c[j]]
    <3>1. s = [j \in 1 .. L |-> item[c[j]]]
      BY DEF ContentsOf, L
    <3>2. \A j \in 1 .. L : item[c[j]] \in Item
      BY KeysAreNumbers DEF L
    <3> QED
      BY <1>1, <3>1, <3>2
  <2>3. t = [j \in 1 .. L - 1 |-> item'[d[j]]]
    BY <1>9 DEF ContentsOf
  <2> HIDE DEF s, t
  <2>4. /\ RemoveAt(s, i) \in Seq(Item)
        /\ Len(RemoveAt(s, i)) = L - 1
        /\ \A j \in 1 .. L - 1 : RemoveAt(s, i)[j] = IF j < i THEN s[j] ELSE s[j + 1]
    <3>1. s \in Seq(Item) /\ i \in 1 .. Len(s)
      BY <1>2, <2>2
    <3>2. /\ RemoveAt(s, i) \in Seq(Item)
          /\ Len(RemoveAt(s, i)) = Len(s) - 1
          /\ \A j \in 1 .. Len(s) - 1 : RemoveAt(s, i)[j] = IF j < i THEN s[j] ELSE s[j + 1]
      BY ONLY <3>1, RemoveAtElements
    <3> QED
      BY <2>2, <3>2
  <2>5. PICK u : u = RemoveAt(s, i)
    OBVIOUS
  <2>6. u \in Seq(Item) /\ Len(u) = L - 1 /\ \A j \in 1 .. L - 1 : u[j] = IF j < i THEN s[j] ELSE s[j + 1]
    BY <2>4, <2>5
  <2>7. ASSUME NEW j \in 1 .. L - 1 PROVE u[j] = t[j]
    <3>1. PICK k : k = IF j < i THEN j ELSE j + 1
      OBVIOUS
    <3>2. k \in 1 .. L /\ item'[d[j]] = item[c[k]]
      BY <1>11, <3>1
    <3>3. u[j] = s[k]
      BY <2>6, <3>1
    <3> QED
      BY <2>2, <2>3, <3>2, <3>3
  <2>8. u = t
    <3>1. L - 1 \in Nat
      BY <1>1, <1>2
    <3>2. \A j \in 1 .. L - 1 : t[j] \in Item
      <4> SUFFICES ASSUME NEW j \in 1 .. L - 1 PROVE t[j] \in Item
        OBVIOUS
      <4>1. u[j] \in Item
        BY <2>6, ElementOfSeq
      <4> QED
        BY <2>7, <4>1
    <3>3. t \in Seq(Item) /\ Len(t) = L - 1
      BY <2>3, <3>1, <3>2
    <3> QED
      BY <2>6, <2>7, <3>3, SeqEqual
  <2> QED
    BY <2>1, <2>5, <2>8
<1> QED
  BY <1>4, <1>9, <1>13, <1>14, <1>15 DEF ListInv

\* _ssll_remove takes the first entry of the key, although it may stop looking for it.
LEMMA RemoveStep ==
    ASSUME ListInv, NEW e \in Item, ListRemove(e.key)
    PROVE  ListInv' /\ List!Take(e.key) /\ kind' = kind
<1>1. PICK c \in Seq(Node) : ListIs(c)
  BY DEF ListInv
<1> DEFINE L == Len(c)
           k == e.key
           hits == {j \in 1 .. L : Key(c[j]) = k \/ Stops(c[j], k)}
           f == IF hits = {} THEN 0 ELSE CHOOSE i \in hits : \A j \in hits : i <= j
           same == {j \in 1 .. L : Key(c[j]) = k}
<1>2. L \in Nat /\ DOMAIN c = 1 .. L /\ Chain = c /\ ListTyped /\ Contents = ContentsOf(c, item)
  BY <1>1, JoinedFacts, ItemsAre DEF ListIs, ListInv
<1>3. Removable(k) = IF f # 0 /\ Key(c[f]) = k THEN f ELSE 0
  BY <1>2 DEF Removable, FirstIndex
<1>4. (hits = {} => f = 0) /\ (hits # {} => f \in hits /\ \A j \in hits : f <= j)
  <2>1. hits \in SUBSET (1 .. Len(c))
    OBVIOUS
  <2> HIDE DEF hits
  <2> QED
    BY <1>2, <2>1, FirstFound
<1> HIDE DEF f
<1>5. f # 0 /\ Key(c[f]) = k /\ Removable(k) = f /\ Release(f)
  BY <1>3 DEF ListRemove
<1>6. f \in 1 .. L /\ \A j \in hits : f <= j
  BY <1>4, <1>5
<1>7. ListInv' /\ Contents' = RemoveAt(Contents, f) /\ kind' = kind
  BY <1>1, <1>2, <1>5, <1>6, ReleaseStep
<1>8. f \in same /\ \A j \in same : f <= j
  BY <1>5, <1>6
<1>9. same # {} /\ f = CHOOSE i \in same : \A j \in same : i <= j
  <2>1. \A i \in same : (\A j \in same : i <= j) => i = f
    <3> SUFFICES ASSUME NEW i \in same, \A j \in same : i <= j PROVE i = f
      OBVIOUS
    <3>1. i <= f /\ f <= i /\ i \in 1 .. L
      BY <1>8
    <3> HIDE DEF same
    <3> QED
      BY <1>2, <1>6, <3>1
  <2> HIDE DEF same
  <2> QED
    BY <1>8, <2>1
<1>10. {j \in DOMAIN Contents : Contents[j].key = k} = same
  <2>1. Contents = [j \in 1 .. L |-> item[c[j]]]
    BY <1>2 DEF ContentsOf
  <2> QED
    BY <2>1 DEF Key
<1>11. List!RemoveAt(Contents, f) = RemoveAt(Contents, f)
  BY DEF List!RemoveAt, RemoveAt
<1>12. List!Take(k)
  <2> HIDE DEF same
  <2> QED
    BY <1>7, <1>9, <1>10, <1>11 DEF List!Take
<1> QED
  BY <1>7, <1>12

\* Without data _ssll_remove takes the first entry.
LEMMA PopStep ==
    ASSUME ListInv, ListPop
    PROVE  ListInv' /\ List!Pop /\ kind' = kind
<1>1. PICK c \in Seq(Node) : ListIs(c)
  BY DEF ListInv
<1>2. Len(c) \in Nat /\ DOMAIN c = 1 .. Len(c) /\ ListTyped /\ Contents = ContentsOf(c, item) /\ head = Nth(c, 1)
  <2>1. Joined(c, head, next) /\ ListTyped
    BY <1>1 DEF ListIs, ListInv
  <2>2. Len(c) \in Nat /\ DOMAIN c = 1 .. Len(c)
    BY <2>1, JoinedFacts
  <2>3. Contents = ContentsOf(c, item)
    BY <2>1, ItemsAre
  <2> QED
    BY <2>1, <2>2, <2>3 DEF Joined
<1>3. 1 \in 1 .. Len(c)
  BY <1>2 DEF ListPop, Nth
<1>4. ListInv' /\ Contents' = RemoveAt(Contents, 1) /\ kind' = kind
  BY <1>1, <1>2, <1>3, ReleaseStep DEF ListPop
<1>5. Contents \in Seq(Item) /\ Len(Contents) = Len(c)
  <2>1. Contents = [j \in 1 .. Len(c) |-> item[c[j]]]
    BY <1>2 DEF ContentsOf
  <2>2. \A j \in 1 .. Len(c) : item[c[j]] \in Item
    BY <1>1, <1>2, KeysAreNumbers
  <2> QED
    BY <1>2, <2>1, <2>2
<1>6. Contents # <<>> /\ 1 \in 1 .. Len(Contents)
  BY <1>3, <1>5
<1>7. RemoveAt(Contents, 1) = Tail(Contents)
  <2>1. PICK s, n : s = Contents /\ n = Len(s)
    OBVIOUS
  <2>2. s \in Seq(Item) /\ s # <<>> /\ n \in Nat /\ 1 \in 1 .. n
    BY <1>5, <1>6, <2>1, LenProperties
  <2>3. PICK u : u = RemoveAt(s, 1)
    OBVIOUS
  <2>4. /\ u \in Seq(Item) /\ Len(u) = n - 1
        /\ \A j \in 1 .. n - 1 : u[j] = IF j < 1 THEN s[j] ELSE s[j + 1]
    BY <2>1, <2>2, <2>3, RemoveAtElements
  <2>5. Tail(s) \in Seq(Item) /\ Len(Tail(s)) = n - 1 /\ \A j \in 1 .. n - 1 : Tail(s)[j] = s[j + 1]
    BY <2>1, <2>2, HeadTailProperties
  <2>6. \A j \in 1 .. n - 1 : u[j] = Tail(s)[j]
    BY <2>2, <2>4, <2>5
  <2>7. u = Tail(s)
    BY <2>4, <2>5, <2>6, SeqEqual
  <2> QED
    BY <2>1, <2>3, <2>7
<1> QED
  BY <1>4, <1>6, <1>7 DEF List!Pop

\* The empty list.
LEMMA EmptyLinked ==
    ASSUME NEW nx
    PROVE  Joined(<<>>, Null, nx) /\ Range(<<>>) = {} /\ Len(<<>>) = 0
<1>1. <<>> \in Seq(Node) /\ Len(<<>>) = 0 /\ DOMAIN <<>> = {} /\ 1 .. 0 = {}
  BY EmptySeq
<1> QED
  BY <1>1 DEF Joined, Nth, IsInjective, Range

\* ListClear: no node is left.
LEMMA ClearStep ==
    ASSUME ListInv, ListClear
    PROVE  ListInv' /\ List!Empty /\ kind' = kind
<1> DEFINE c == <<>>
<1>1. Joined(c, head', next') /\ Range(c) = {} /\ Len(c) = 0 /\ c \in Seq(Node)
  BY EmptyLinked DEF ListClear, Joined
<1>2. ListTyped'
  BY DEF ListClear, ListInv, ListTyped
<1>3. \A n \in Node : item'[n] = Null
  BY DEF ListClear
<1> HIDE DEF c
<1>4. Holds(c)'
  <2>1. count' = Len(c) /\ \A i \in 1 .. Len(c) : FALSE
    BY <1>1 DEF ListClear
  <2> QED
    BY <1>1, <1>3, <2>1 DEF Holds
<1>5. ListIs(c)'
  BY <1>1, <1>4 DEF ListIs, Stands, ListClear, Stale
<1>6. Contents' = <<>>
  <2>1. Contents' = ContentsOf(c, item')
    BY <1>1, ItemsAre
  <2>2. ContentsOf(c, item') = [j \in 1 .. 0 |-> item'[c[j]]]
    BY <1>1 DEF ContentsOf
  <2> QED
    BY <2>1, <2>2
<1> QED
  BY <1>1, <1>2, <1>5, <1>6 DEF ListInv, List!Empty, ListClear

\* The steps of the iterator leave the list alone.
LEMMA CursorStep ==
    ASSUME ListInv, ListIterReset \/ ListIterNext \/ ListIterLast
    PROVE  ListInv' /\ Contents' = Contents /\ kind' = kind
<1>1. PICK c \in Seq(Node) : ListIs(c)
  BY DEF ListInv
<1> DEFINE L == Len(c)
<1>2. UNCHANGED nodes
  BY DEF ListIterReset, ListIterNext, ListIterLast
<1>3. /\ L \in Nat /\ DOMAIN c = 1 .. L
      /\ \A j \in 1 .. L : c[j] \in Node /\ c[j] # Null /\ c[j] \in Range(c) /\ Nth(c, j) = c[j]
  BY <1>1, JoinedFacts DEF ListIs
<1>4. Joined(c, head, next) /\ Joined(c, head', next') /\ Holds(c)' /\ ListTyped'
  BY <1>1, <1>2 DEF ListIs, nodes, Holds, Key, ListInv, ListTyped
<1>5. Contents' = Contents /\ kind' = kind
  BY <1>2, <1>4, ItemsAre DEF nodes
<1>6. head = Nth(c, 1) /\ \A i \in 1 .. L : next[c[i]] = Nth(c, i + 1)
  BY <1>4 DEF Joined
<1>7. \A i : Nth(c, i) \in Range(c) \cup {Null}
  BY <1>3 DEF Nth
<1>8. Stands(c)'
  <2>1. CASE ListIterReset
    BY <1>6, <1>7, <2>1 DEF ListIterReset, Stands
  <2>2. CASE ListIterNext
    <3>1. at \in Range(c) /\ (last # Null => c # <<>> /\ last = c[Len(c)])
      BY <1>1, <2>2 DEF ListIterNext, ListIs, Stands
    <3>2. PICK i \in 1 .. L : at = c[i]
      BY <1>3, <3>1 DEF Range
    <3>3. at' \in Range(c) \cup {Null}
      BY <1>6, <1>7, <2>2, <3>2 DEF ListIterNext
    <3> QED
      BY <2>2, <3>1, <3>3 DEF ListIterNext, Stands
  <2>3. CASE ListIterLast
    <3> DEFINE from == IF at # Null THEN at ELSE head
               N == Cardinality(Node)
    <3>1. at \in Range(c) \cup {Null}
      BY <1>1, <2>3 DEF ListIterLast, ListIs, Stands
    <3>2. from # Null /\ last' = Walk(from, N)[Len(Walk(from, N))]
      BY <2>3 DEF ListIterLast
    <3>3. PICK l \in 1 .. L : from = Nth(c, l)
      <4>1. CASE at # Null
        BY <1>3, <3>1, <4>1 DEF Range
      <4>2. CASE at = Null
        BY <1>3, <1>6, <3>2, <4>2 DEF Nth
      <4> QED
        BY <4>1, <4>2
    <3>4. PICK d : d = Walk(from, N)
      OBVIOUS
    <3>5. d = Walked(next, Nth(c, l), Null, N)
      BY <3>3, <3>4, ChainWalks
    <3> HIDE DEF from
    <3>6. l \in 1 .. Len(c) + 1
      BY <1>3
    <3>7. Len(d) = L - l + 1 /\ \A i \in 1 .. L - l + 1 : d[i] = c[l + i - 1]
      <4>1. RestOf(d, c, l)
        BY <1>4, <3>5, <3>6, WalkFrom
      <4> QED
        BY <4>1 DEF RestOf
    <3>8. Len(d) \in 1 .. L - l + 1 /\ l + Len(d) - 1 = L
      BY <1>3, <3>7
    <3>9. last' = c[L] /\ c # <<>>
      <4>1. d[Len(d)] = c[l + Len(d) - 1]
        BY <3>7, <3>8
      <4>2. L # 0
        BY <1>3, <3>3
      <4> QED
        BY <3>2, <3>4, <3>8, <4>1, <4>2, EmptySeq
    <3> QED
      BY <2>3, <3>1, <3>9 DEF ListIterLast, Stands
  <2> QED
    BY <2>1, <2>2, <2>3
<1> QED
  BY <1>4, <1>5, <1>8 DEF ListInv, ListIs

\* Every operation keeps the list sound, and is one of the abstract list or none.
LEMMA ListStep ==
    ASSUME ListInv, [ListNext]_listVars
    PROVE  ListInv' /\ [List!Next]_<<Contents, kind>>
<1>1. CASE \E e \in Item : ListInsert(e)
  BY <1>1, InsertStep DEF List!Next
<1>2. CASE \E e \in Item : ListRemove(e.key)
  BY <1>2, RemoveStep DEF List!Next
<1>3. CASE ListPop
  BY <1>3, PopStep DEF List!Next
<1>4. CASE ListClear
  BY <1>4, ClearStep DEF List!Next
<1>5. CASE ListIterReset \/ ListIterNext \/ ListIterLast
  BY <1>5, CursorStep
<1>6. CASE UNCHANGED listVars
  <2>1. Chain' = Chain
    BY <1>6, ChainWalks DEF listVars, nodes
  <2>2. Contents' = Contents
    BY <1>6, <2>1 DEF Contents, listVars, nodes
  <2>3. ListInv'
    BY <1>6 DEF listVars, nodes, cursor, ListInv, ListTyped, ListIs, Joined, Holds, Stands, Key
  <2> QED
    BY <1>6, <2>2, <2>3 DEF listVars, nodes
<1> QED
  BY <1>1, <1>2, <1>3, <1>4, <1>5, <1>6 DEF ListNext

\* The empty list.
LEMMA ListStarts ==
    ASSUME ListInit
    PROVE  ListInv /\ List!Init
<1> DEFINE c == <<>>
<1>1. Joined(c, head, next) /\ Range(c) = {} /\ Len(c) = 0 /\ c \in Seq(Node)
  BY EmptyLinked DEF ListInit, Joined
<1>2. ListTyped
  BY DEF ListInit, ListTyped, Kind
<1> HIDE DEF c
<1>3. Holds(c)
  <2>1. count = Len(c) /\ \A i \in 1 .. Len(c) : FALSE
    BY <1>1 DEF ListInit
  <2> QED
    BY <1>1, <2>1 DEF Holds, ListInit
<1>4. ListIs(c)
  BY <1>1, <1>3 DEF ListIs, Stands, ListInit
<1>5. Contents = <<>>
  <2>1. Contents = ContentsOf(c, item)
    BY <1>1, ItemsAre
  <2>2. ContentsOf(c, item) = [j \in 1 .. 0 |-> item[c[j]]]
    BY <1>1 DEF ContentsOf
  <2> QED
    BY <2>1, <2>2
<1> QED
  BY <1>1, <1>2, <1>4, <1>5 DEF ListInv, List!Init, List!Kind, ListInit, Kind

\* The nodes make a list: whatever is inserted, removed and walked over, the pointers link what
\* is allocated, once each, and in the order of the keys if the list is sorted.
THEOREM ListInvariance == ListSpec => []ListInv
<1>1. ListInv /\ [ListNext]_listVars => ListInv'
  BY ListStep
<1> QED
  BY <1>1, ListStarts, PTL DEF ListSpec

\* The linked list is the abstract list, node by node.
THEOREM LinkedListImplements == ListSpec => ImplementsList
<1>1. ListInit => List!Init
  BY ListStarts
<1>2. ListInv /\ [ListNext]_listVars => [List!Next]_<<Contents, kind>>
  BY ListStep
<1> QED
  BY <1>1, <1>2, ListInvariance, PTL DEF ListSpec, ImplementsList, List!Spec

\* An iterator in sync stands on a node of the list, however memory is freed and given out again,
\* and the last node that it remembers is the last.
THEOREM CursorAlwaysOnList == ListSpec => []CursorOnList
<1>1. ListInv => CursorOnList
  <2> SUFFICES ASSUME ListInv PROVE CursorOnList
    OBVIOUS
  <2>1. PICK c \in Seq(Node) : ListIs(c)
    BY DEF ListInv
  <2>2. Chain = c
    BY <2>1, ItemsAre DEF ListIs
  <2>3. ToSet(c) = Range(c)
    BY DEF ToSet, Range
  <2> QED
    BY <2>1, <2>2, <2>3 DEF ListIs, Stands, CursorOnList
<1> QED
  BY <1>1, ListInvariance, PTL

-----------------------------------------------------------------------------
(* The array: searching.                                                    *)

\* One turn of the search by halves.
HalvedTurn(t, below, hit) ==
    LET first  == t[1]
        len    == t[2]
        half   == len \div 2
        middle == first + half
    IN  IF len = 0 THEN <<first, 0>>
        ELSE IF middle + 1 \in below THEN <<middle + 1, len - half - 1>>
        ELSE IF middle + 1 \in hit THEN <<middle, 0>>
        ELSE <<first, half>>

\* After i turns: everything before the place is below, everything beyond the part
\* that is left is neither below nor a hit; or the search has ended at a hit.
HalvedSound(t, i, n, below, hit) ==
    /\ t \in Nat \X Nat
    /\ t[2] = 0 \/ t[2] + i <= n
    /\ t[1] + t[2] <= n
    /\ \/ t[2] = 0 /\ t[1] + 1 \in hit
       \/ /\ \A j \in 1 .. t[1] : j \in below
          /\ \A j \in t[1] + t[2] + 1 .. n : j \notin below \cup hit

\* What a search by halves is about: indices that are below come first, then the hits.
Halvable(n, below, hit) == /\ n \in Nat
                           /\ below \in SUBSET (1 .. n)
                           /\ hit \in SUBSET (1 .. n)
                           /\ below \cap hit = {}
                           /\ \A i \in 1 .. n, j \in below : i < j => i \in below
                           /\ \A i \in 1 .. n, j \in hit : i < j => i \in below \cup hit

\* One turn of the search keeps what is sought within the part that is left.
LEMMA HalvedTurnSound ==
    ASSUME NEW n, NEW below, NEW hit, Halvable(n, below, hit), NEW i \in Nat, NEW t, HalvedSound(t, i, n, below, hit)
    PROVE  HalvedSound(HalvedTurn(t, below, hit), i + 1, n, below, hit)
<1>0. /\ n \in Nat /\ below \in SUBSET (1 .. n) /\ hit \in SUBSET (1 .. n)
      /\ \A j \in 1 .. n, m \in below : j < m => j \in below
      /\ \A j \in 1 .. n, m \in hit : j < m => j \in below \cup hit
  BY DEF Halvable
<1> USE <1>0
<1> DEFINE first  == t[1]
           len    == t[2]
           half   == len \div 2
           middle == first + half
           u == HalvedTurn(t, below, hit)
<1>1. t \in Nat \X Nat
  BY DEF HalvedSound
<1>2. first \in Nat /\ len \in Nat /\ t = <<first, len>>
  BY <1>1
<1>3. /\ len = 0 \/ len + i <= n
      /\ first + len <= n
  BY DEF HalvedSound
<1>4. \/ len = 0 /\ first + 1 \in hit
      \/ /\ \A j \in 1 .. first : j \in below
         /\ \A j \in first + len + 1 .. n : j \notin below \cup hit
  BY DEF HalvedSound
<1>5. u = IF len = 0 THEN <<first, 0>>
          ELSE IF middle + 1 \in below THEN <<middle + 1, len - half - 1>>
          ELSE IF middle + 1 \in hit THEN <<middle, 0>>
          ELSE <<first, half>>
  BY DEF HalvedTurn
<1>6. half \in Nat /\ half <= len /\ (len # 0 => half < len)
  BY <1>2
<1> HIDE DEF first, len, half, u
<1>7. CASE len = 0
  <2>1. u[1] = first /\ u[2] = 0 /\ u \in Nat \X Nat
    BY <1>2, <1>5, <1>7
  <2> QED
    BY <1>2, <1>3, <1>4, <1>7, <2>1 DEF HalvedSound, u
<1>8. CASE len # 0
  <2>1. \A j \in 1 .. first : j \in below
    BY <1>4, <1>8
  <2>2. \A j \in first + len + 1 .. n : j \notin below \cup hit
    BY <1>4, <1>8
  <2>3. middle \in Nat /\ middle + 1 \in 1 .. n /\ middle < first + len
    BY <1>2, <1>3, <1>6, <1>8
  <2> HIDE DEF middle
  <2>4. CASE middle + 1 \in below
    <3>1. u[1] = middle + 1 /\ u[2] = len - half - 1 /\ u \in Nat \X Nat
      BY <1>2, <1>5, <1>6, <1>8, <2>3, <2>4
    <3>2. \A j \in 1 .. middle + 1 : j \in below
      BY <1>2, <2>3, <2>4
    <3>3. u[1] + u[2] = first + len /\ u[2] + i + 1 <= n
      BY <1>2, <1>3, <1>6, <1>8, <2>3, <3>1 DEF middle
    <3>4. \A j \in u[1] + u[2] + 1 .. n : j \notin below \cup hit
      BY <2>2, <3>3
    <3> QED
      BY <1>2, <1>3, <3>1, <3>2, <3>3, <3>4 DEF HalvedSound, u
  <2>5. CASE middle + 1 \notin below /\ middle + 1 \in hit
    <3>1. u[1] = middle /\ u[2] = 0 /\ u \in Nat \X Nat
      BY <1>2, <1>5, <1>6, <1>8, <2>3, <2>5
    <3> QED
      BY <2>3, <2>5, <3>1 DEF HalvedSound, u
  <2>6. CASE middle + 1 \notin below /\ middle + 1 \notin hit
    <3>1. u[1] = first /\ u[2] = half /\ u \in Nat \X Nat
      BY <1>2, <1>5, <1>6, <1>8, <2>3, <2>6
    <3>2. u[1] + u[2] = middle /\ u[2] + i + 1 <= n
      BY <1>2, <1>3, <1>6, <1>8, <2>3, <3>1 DEF middle
    <3>3. ASSUME NEW j \in middle + 1 .. n PROVE j \notin below \cup hit
      <4>1. j = middle + 1 \/ middle + 1 < j
        BY <2>3
      <4> QED
        BY <2>3, <2>6, <4>1
    <3>4. u[1] + u[2] <= n
      BY <2>3, <3>2
    <3>5. /\ \A j \in 1 .. u[1] : j \in below
          /\ \A j \in u[1] + u[2] + 1 .. n : j \notin below \cup hit
      BY <2>1, <3>1, <3>2, <3>3
    <3>6. u[2] = 0 \/ u[2] + (i + 1) <= n
      BY <3>1, <3>2
    <3> QED
      BY <3>1, <3>4, <3>5, <3>6 DEF HalvedSound, u
  <2> QED
    BY <2>4, <2>5, <2>6
<1> QED
  BY <1>7, <1>8

\* A search by halves ends at a hit, or behind what is below, and then nothing is a hit.
LEMMA HalvedFinds ==
    ASSUME NEW n, NEW below, NEW hit, Halvable(n, below, hit)
    PROVE  /\ Halved(n, below, hit) \in 0 .. n
           /\ \/ Halved(n, below, hit) + 1 \in hit
              \/ below = 1 .. Halved(n, below, hit) /\ hit = {}
<1>0. n \in Nat /\ below \in SUBSET (1 .. n) /\ hit \in SUBSET (1 .. n) /\ below \cap hit = {}
  BY DEF Halvable
<1> USE <1>0
<1> DEFINE V == Nat \X Nat
           Then(t) == IF t[2] = 0 THEN <<t[1], 0>>
               ELSE IF (t[1] + (t[2] \div 2)) + 1 \in below
                 THEN <<(t[1] + (t[2] \div 2)) + 1, t[2] - (t[2] \div 2) - 1>>
               ELSE IF (t[1] + (t[2] \div 2)) + 1 \in hit THEN <<t[1] + (t[2] \div 2), 0>>
               ELSE <<t[1], t[2] \div 2>>
           turn[i \in 0 .. n] ==
               IF i = 0 THEN <<0, n>>
               ELSE LET first  == turn[i - 1][1]
                        len    == turn[i - 1][2]
                        half   == len \div 2
                        middle == first + half
                    IN  IF len = 0 THEN <<first, 0>>
                        ELSE IF middle + 1 \in below THEN <<middle + 1, len - half - 1>>
                        ELSE IF middle + 1 \in hit THEN <<middle, 0>>
                        ELSE <<first, half>>
           step == [x \in (1 .. n) \X V |-> HalvedTurn(x[2], below, hit)]
<1>1. PICK g \in [0 .. n -> V] : Stepwise(g, step, <<0, n>>, n)
  <2>1. ASSUME NEW t \in V PROVE HalvedTurn(t, below, hit) \in V
    <3> DEFINE first == t[1]  len == t[2]  half == len \div 2
    <3>1. first \in Nat /\ len \in Nat
      OBVIOUS
    <3>2. half \in Nat /\ (len # 0 => len - half - 1 \in Nat)
      BY <3>1
    <3>3. HalvedTurn(t, below, hit) =
             IF len = 0 THEN <<first, 0>>
             ELSE IF first + half + 1 \in below THEN <<first + half + 1, len - half - 1>>
             ELSE IF first + half + 1 \in hit THEN <<first + half, 0>>
             ELSE <<first, half>>
      BY DEF HalvedTurn
    <3> HIDE DEF first, len, half
    <3> QED
      BY <3>1, <3>2, <3>3
  <2>2. step \in [(1 .. n) \X V -> V]
    <3> HIDE DEF V
    <3> QED
      BY <2>1
  <2>3. <<0, n>> \in V
    OBVIOUS
  <2> HIDE DEF step, V
  <2> QED
    BY <2>2, <2>3, StepwiseExists
<1>2. ASSUME NEW i \in 1 .. n PROVE g[i] = HalvedTurn(g[i - 1], below, hit)
  <2> HIDE DEF V
  <2>1. g[i - 1] \in V
    BY <1>1
  <2>2. g[i] = step[<<i, g[i - 1]>>] /\ <<i, g[i - 1]>> \in (1 .. n) \X V
    BY <1>1, <2>1 DEF Stepwise
  <2> QED
    BY <2>2
<1>3. g[0] = <<0, n>>
  BY <1>1 DEF Stepwise
<1> DEFINE Eqn(f) == [i \in 0 .. n |->
               IF i = 0 THEN <<0, n>>
               ELSE LET first  == f[i - 1][1]
                        len    == f[i - 1][2]
                        half   == len \div 2
                        middle == first + half
                    IN  IF len = 0 THEN <<first, 0>>
                        ELSE IF middle + 1 \in below THEN <<middle + 1, len - half - 1>>
                        ELSE IF middle + 1 \in hit THEN <<middle, 0>>
                        ELSE <<first, half>>]
<1>4. ASSUME NEW f PROVE Eqn(f) = [i \in 0 .. n |-> IF i = 0 THEN <<0, n>> ELSE HalvedTurn(f[i - 1], below, hit)]
  BY DEF HalvedTurn
<1>5. g = Eqn(g)
  <2>1. ASSUME NEW i \in 0 .. n PROVE g[i] = IF i = 0 THEN <<0, n>> ELSE HalvedTurn(g[i - 1], below, hit)
    <3>1. i = 0 \/ i \in 1 .. n
      OBVIOUS
    <3> QED
      BY <1>2, <1>3, <3>1
  <2>2. g = [i \in 0 .. n |-> IF i = 0 THEN <<0, n>> ELSE HalvedTurn(g[i - 1], below, hit)]
    BY <1>1, <2>1, SMTT(30)
  <2> HIDE DEF Eqn
  <2> QED
    BY <1>4, <2>2
<1>6. turn = Eqn(turn)
  BY <1>5
<1> HIDE DEF turn, Eqn
<1>7. turn[0] = <<0, n>> /\ \A i \in 1 .. n : turn[i] = HalvedTurn(turn[i - 1], below, hit)
  <2>1. turn = [i \in 0 .. n |-> IF i = 0 THEN <<0, n>> ELSE HalvedTurn(turn[i - 1], below, hit)]
    BY <1>4, <1>6
  <2>2. ASSUME NEW i \in 0 .. n PROVE turn[i] = IF i = 0 THEN <<0, n>> ELSE HalvedTurn(turn[i - 1], below, hit)
    BY <2>1
  <2>3. 0 \in 0 .. n /\ \A i \in 1 .. n : i \in 0 .. n /\ i # 0
    OBVIOUS
  <2> QED
    BY <2>2, <2>3
<1> DEFINE T == {i \in Nat : i <= n => HalvedSound(turn[i], i, n, below, hit)}
<1>8. 0 \in T
  <2> DEFINE t == <<0, n>>
  <2>1. t \in Nat \X Nat /\ t[1] = 0 /\ t[2] = n
    OBVIOUS
  <2> HIDE DEF t
  <2>2. t[1] + t[2] + 1 .. n = {} /\ 1 .. t[1] = {} /\ t[2] + 0 <= n /\ t[1] + t[2] <= n
    BY <2>1
  <2>3. HalvedSound(t, 0, n, below, hit)
    BY <2>1, <2>2 DEF HalvedSound
  <2> QED
    BY <1>7, <2>3 DEF t
<1>9. ASSUME NEW i \in Nat, i \in T PROVE i + 1 \in T
  <2> SUFFICES ASSUME i + 1 <= n PROVE HalvedSound(turn[i + 1], i + 1, n, below, hit)
    OBVIOUS
  <2>1. i + 1 \in 1 .. n /\ (i + 1) - 1 = i
    OBVIOUS
  <2>2. HalvedSound(turn[i], i, n, below, hit)
    BY <1>9
  <2>3. turn[i + 1] = HalvedTurn(turn[i], below, hit)
    BY <1>7, <2>1
  <2> QED
    BY <2>2, <2>3, HalvedTurnSound
<1> HIDE DEF T
<1>10. n \in T
  BY <1>8, <1>9, SetInduction
<1>11. HalvedSound(turn[n], n, n, below, hit)
  BY <1>10 DEF T
<1>12. Halved(n, below, hit) = turn[n][1]
  BY DEF Halved, turn
<1> DEFINE f == turn[n][1]
           len == turn[n][2]
<1>13. f \in Nat /\ len = 0 /\ f <= n
  BY <1>11 DEF HalvedSound
<1>14. \/ f + 1 \in hit
       \/ /\ \A j \in 1 .. f : j \in below
          /\ \A j \in f + 1 .. n : j \notin below \cup hit
  <2>1. f + len + 1 = f + 1
    BY <1>13
  <2> QED
    BY <1>11, <2>1 DEF HalvedSound
<1> HIDE DEF f, len
<1>15. ASSUME \A j \in 1 .. f : j \in below, \A j \in f + 1 .. n : j \notin below \cup hit
       PROVE  below = 1 .. f /\ hit = {}
  <2>1. \A j \in 1 .. n : j \in 1 .. f \/ j \in f + 1 .. n
    BY <1>13
  <2>2. below = 1 .. f
    BY <1>13, <1>15, <2>1
  <2>3. hit \subseteq 1 .. f
    BY <1>15, <2>1
  <2> QED
    BY <2>2, <2>3
<1> QED
  BY <1>12, <1>13, <1>14, <1>15 DEF f

\* What the search for a key is made of.
Lower(s, k) == {i \in DOMAIN s : s[i].key < k}
Same(s, k) == {i \in DOMAIN s : s[i].key = k}

KeysUnique(s) == \A i, j \in DOMAIN s : s[i].key = s[j].key => i = j

\* Every place of an array holds an entry with a key.
LEMMA KeysAreNatural ==
    ASSUME NEW s \in Seq(Entry), NEW i \in DOMAIN s
    PROVE  s[i] \in Entry /\ s[i].key \in Nat
<1>1. s[i] \in Entry
  BY LenProperties
<1> QED
  BY <1>1, ArrayAssumption

\* Sorting keeps the entries, each of them once.
LEMMA SortingIs ==
    ASSUME NEW s \in Seq(Entry), IsInjective(s), NEW t \in Sortings(s)
    PROVE  /\ t \in Seq(Entry)
           /\ IsInjective(t)
           /\ ToSet(t) = ToSet(s)
           /\ Len(t) = Len(s)
           /\ InOrder(t)
<1> DEFINE S == ToSet(s)
           n == Cardinality(S)
<1>1. S = Range(s) /\ S \subseteq Entry
  BY LenProperties DEF Range, ToSet
<1>2. IsFiniteSet(S) /\ n = Len(s) /\ n \in Nat
  BY <1>1, InjectiveCount, LenProperties
<1>3. t \in [1 .. n -> S] /\ (\A i, j \in 1 .. n : i # j => t[i] # t[j]) /\ InOrder(t)
  BY DEF Sortings, SetToSeqs
<1> HIDE DEF S, n
<1>4. t \in Seq(Entry) /\ Len(t) = n /\ DOMAIN t = 1 .. n /\ IsInjective(t)
  <2>1. t \in [1 .. n -> Entry]
    BY <1>1, <1>3
  <2>2. t \in Seq(Entry)
    BY <1>2, <2>1, SeqDef
  <2>3. DOMAIN t = 1 .. n
    BY <1>3
  <2>4. Len(t) = n
    BY <1>2, <2>2, <2>3, LenProperties
  <2>5. IsInjective(t)
    BY <1>3, <2>3 DEF IsInjective
  <2> QED
    BY <2>2, <2>3, <2>4, <2>5
<1>5. IsFiniteSet(Range(t)) /\ Cardinality(Range(t)) = n
  BY <1>4, InjectiveCount
<1>6. Range(t) \subseteq S
  BY <1>3 DEF Range
<1>7. Range(t) = S
  BY <1>2, <1>5, <1>6, FS_Subset DEF n
<1>8. ToSet(t) = Range(t)
  BY DEF ToSet, Range
<1> QED
  BY <1>2, <1>3, <1>4, <1>7, <1>8 DEF S

\* Where the search stops in a sorted array.
LEMMA ProbeFinds ==
    ASSUME NEW s \in Seq(Entry), InOrder(s), NEW k \in Nat
    PROVE  /\ Probe(s, k) \in 0 .. Len(s)
           /\ \/ Probe(s, k) + 1 \in Same(s, k)
              \/ Lower(s, k) = 1 .. Probe(s, k) /\ Same(s, k) = {}
<1>1. Len(s) \in Nat /\ DOMAIN s = 1 .. Len(s)
  BY LenProperties
<1>2. Lower(s, k) \in SUBSET (1 .. Len(s)) /\ Same(s, k) \in SUBSET (1 .. Len(s))
  BY <1>1 DEF Lower, Same
<1>3. ASSUME NEW i \in 1 .. Len(s), NEW j \in 1 .. Len(s), i < j
      PROVE  s[i].key \in Nat /\ s[j].key \in Nat /\ s[i].key <= s[j].key
  BY <1>1, <1>3, KeysAreNatural DEF InOrder
<1>4. \A i \in 1 .. Len(s), j \in Lower(s, k) : i < j => i \in Lower(s, k)
  BY <1>1, <1>3 DEF Lower
<1>5. \A i \in 1 .. Len(s), j \in Same(s, k) : i < j => i \in Lower(s, k) \cup Same(s, k)
  BY <1>1, <1>3 DEF Lower, Same
<1>6. Lower(s, k) \cap Same(s, k) = {}
  BY <1>1, KeysAreNatural DEF Lower, Same
<1>7. Probe(s, k) = Halved(Len(s), Lower(s, k), Same(s, k))
  BY DEF Probe, Lower, Same
<1>8. Halvable(Len(s), Lower(s, k), Same(s, k))
  BY <1>1, <1>2, <1>4, <1>5, <1>6 DEF Halvable
<1> QED
  BY <1>7, <1>8, HalvedFinds

\* An exact search finds an entry with the key if there is one.
LEMMA SearchExactFinds ==
    ASSUME NEW s \in Seq(Entry), ~unsorted => InOrder(s), NEW k \in Nat
    PROVE  \/ SearchExact(s, k) = 0 /\ Same(s, k) = {}
           \/ SearchExact(s, k) \in Same(s, k)
<1>1. Len(s) \in Nat /\ DOMAIN s = 1 .. Len(s)
  BY LenProperties
<1>2. CASE unsorted
  <2>1. SearchExact(s, k) = IF Same(s, k) = {} THEN 0 ELSE Min(Same(s, k))
    BY <1>2 DEF SearchExact, Linear, Same, Min
  <2>2. Same(s, k) \in SUBSET Nat
    BY <1>1 DEF Same
  <2> QED
    BY <2>1, <2>2, LeastOf
<1>3. CASE ~unsorted
  <2> DEFINE p == Probe(s, k)
             i == At(p, s)
  <2>1. /\ p \in 0 .. Len(s)
        /\ \/ p + 1 \in Same(s, k)
           \/ Lower(s, k) = 1 .. p /\ Same(s, k) = {}
    BY <1>3, ProbeFinds
  <2>2. SearchExact(s, k) = IF i # 0 /\ s[i].key = k THEN i ELSE 0
    BY <1>3 DEF SearchExact
  <2>3. i = IF p < Len(s) THEN p + 1 ELSE 0
    BY DEF At
  <2> HIDE DEF p, i
  <2>4. CASE p + 1 \in Same(s, k)
    <3>1. p + 1 \in 1 .. Len(s) /\ s[p + 1].key = k
      BY <1>1, <2>4 DEF Same
    <3>2. i = p + 1 /\ i # 0
      BY <1>1, <2>1, <2>3, <3>1
    <3> QED
      BY <2>2, <2>4, <3>1, <3>2
  <2>5. CASE Same(s, k) = {}
    <3>1. i # 0 => i \in 1 .. Len(s)
      BY <1>1, <2>1, <2>3
    <3>2. ~(i # 0 /\ s[i].key = k)
      BY <1>1, <2>5, <3>1 DEF Same
    <3> QED
      BY <2>2, <2>5, <3>2
  <2> QED
    BY <2>1, <2>4, <2>5
<1> QED
  BY <1>2, <1>3

\* A search for the next key finds the least one above, if there is one.
LEMMA SearchNextFinds ==
    ASSUME NEW s \in Seq(Entry), InOrder(s), ~unsorted, ~duplicates => KeysUnique(s), NEW k \in Nat
    PROVE  \/ SearchNext(s, k) = 0 /\ \A j \in DOMAIN s : s[j].key <= k
           \/ /\ SearchNext(s, k) \in DOMAIN s
              /\ s[SearchNext(s, k)].key > k
              /\ \A j \in DOMAIN s : s[j].key > k => s[SearchNext(s, k)].key <= s[j].key
<1> DEFINE n == Len(s)
           p == Probe(s, k)
           i == At(p, s)
           from  == IF i # 0 /\ s[i].key = k THEN At(i, s) ELSE i
           above == {j \in DOMAIN s : j >= from /\ s[j].key # k}
           r == SearchNext(s, k)
<1>1. n \in Nat /\ DOMAIN s = 1 .. n /\ \A j \in 1 .. n : s[j].key \in Nat
  BY LenProperties, KeysAreNatural
<1>2. \A j, m \in 1 .. n : j <= m => s[j].key <= s[m].key
  BY <1>1 DEF InOrder
<1>3. /\ p \in 0 .. n
      /\ \/ p + 1 \in Same(s, k)
         \/ Lower(s, k) = 1 .. p /\ Same(s, k) = {}
  BY ProbeFinds
<1>4. r = IF from = 0 \/ ~duplicates THEN from
          ELSE IF above = {} THEN 0
          ELSE CHOOSE j \in above : \A m \in above : j <= m
  BY DEF SearchNext
<1>5. i = IF p < n THEN p + 1 ELSE 0
  BY DEF At
<1>6. At(i, s) = IF i < n THEN i + 1 ELSE 0
  BY DEF At
<1>7. from = IF i # 0 /\ s[i].key = k THEN At(i, s) ELSE i
  OBVIOUS
<1> HIDE DEF n, p, i, from, r
\* The entries before from have no greater key than k, those from there on no lesser one.
<1>8. \/ from = 0 /\ \A j \in 1 .. n : s[j].key <= k
      \/ /\ from \in 1 .. n
         /\ \A j \in 1 .. n : j < from => s[j].key <= k
         /\ \A j \in 1 .. n : j >= from => s[j].key >= k
         /\ ~duplicates => s[from].key # k
  <2>1. CASE p + 1 \in Same(s, k)
    <3>1. p + 1 \in 1 .. n /\ s[p + 1].key = k
      BY <1>1, <2>1 DEF Same
    <3>2. i = p + 1 /\ i \in 1 .. n /\ i # 0
      BY <1>1, <1>3, <1>5, <3>1
    <3>3. from = IF i < n THEN i + 1 ELSE 0
      BY <1>6, <1>7, <3>1, <3>2
    <3>4. \A j \in 1 .. n : j <= i => s[j].key <= k
      BY <1>2, <3>1, <3>2
    <3>5. CASE i < n
      <4>1. from = i + 1 /\ from \in 1 .. n
        BY <1>1, <3>2, <3>3, <3>5
      <4>2. \A j \in 1 .. n : j < from => s[j].key <= k
        BY <3>2, <3>4, <4>1
      <4>3. \A j \in 1 .. n : j >= from => s[j].key >= k
        <5> SUFFICES ASSUME NEW j \in 1 .. n, j >= from PROVE s[j].key >= k
          OBVIOUS
        <5>1. i <= j
          BY <3>2, <4>1
        <5>2. s[i].key <= s[j].key
          BY <1>2, <3>2, <5>1
        <5> QED
          BY <1>1, <3>1, <3>2, <5>2
      <4>4. ~duplicates => s[from].key # k
        BY <1>1, <3>1, <3>2, <4>1 DEF KeysUnique
      <4> QED
        BY <4>1, <4>2, <4>3, <4>4
    <3>6. CASE ~(i < n)
      <4>1. from = 0 /\ i = n
        BY <1>1, <3>2, <3>3, <3>6
      <4> QED
        BY <1>1, <3>4, <4>1
    <3> QED
      BY <3>5, <3>6
  <2>2. CASE Lower(s, k) = 1 .. p /\ Same(s, k) = {}
    <3>1. \A j \in 1 .. n : s[j].key # k
      BY <1>1, <2>2 DEF Same
    <3>2. \A j \in 1 .. n : j <= p <=> s[j].key < k
      BY <1>1, <1>3, <2>2 DEF Lower
    <3>3. i # 0 => i \in 1 .. n
      BY <1>1, <1>3, <1>5
    <3>4. from = i
      BY <1>7, <3>1, <3>3
    <3>5. CASE p < n
      <4>1. from = p + 1 /\ from \in 1 .. n
        BY <1>1, <1>3, <1>5, <3>4, <3>5
      <4> QED
        BY <1>1, <1>3, <3>1, <3>2, <4>1
    <3>6. CASE ~(p < n)
      <4>1. from = 0 /\ p = n
        BY <1>1, <1>3, <1>5, <3>4, <3>6
      <4> QED
        BY <1>1, <3>2, <4>1
    <3> QED
      BY <3>5, <3>6
  <2> QED
    BY <1>3, <2>1, <2>2
<1>9. CASE from = 0
  BY <1>1, <1>4, <1>8, <1>9 DEF r
<1>10. CASE from # 0 /\ ~duplicates
  <2>1. /\ from \in 1 .. n
        /\ \A j \in 1 .. n : j < from => s[j].key <= k
        /\ s[from].key > k
    BY <1>1, <1>8, <1>10
  <2>2. \A j \in 1 .. n : s[j].key > k => s[from].key <= s[j].key
    <3> SUFFICES ASSUME NEW j \in 1 .. n, s[j].key > k PROVE s[from].key <= s[j].key
      OBVIOUS
    <3>1. ~(j < from)
      BY <1>1, <2>1
    <3> QED
      BY <1>1, <1>2, <2>1, <3>1
  <2>3. r = from
    BY <1>4, <1>10
  <2> QED
    BY <1>1, <2>1, <2>2, <2>3 DEF r
<1>11. CASE from # 0 /\ duplicates /\ above = {}
  <2>1. r = 0
    BY <1>4, <1>11
  <2>2. ASSUME NEW j \in 1 .. n PROVE s[j].key <= k
    <3>1. CASE j < from
      BY <1>8, <1>11, <3>1
    <3>2. CASE j >= from
      BY <1>1, <1>11, <3>2
    <3> QED
      BY <1>1, <1>8, <1>11, <3>1, <3>2
  <2> QED
    BY <1>1, <2>1, <2>2 DEF r
<1>12. CASE from # 0 /\ duplicates /\ above # {}
  <2>0. above \in SUBSET Nat
    BY <1>1
  <2>1. r = Min(above)
    <3> HIDE DEF above
    <3>1. r = CHOOSE j \in above : \A m \in above : j <= m
      BY <1>4, <1>12
    <3> QED
      BY <3>1 DEF Min
  <2>2. r \in above /\ \A j \in above : r <= j
    BY <1>12, <2>0, <2>1, LeastOf
  <2>3. r \in 1 .. n /\ r >= from /\ s[r].key # k
    BY <1>1, <2>2
  <2>4. s[r].key > k
    BY <1>1, <1>8, <1>12, <2>3
  <2>5. ASSUME NEW j \in 1 .. n, s[j].key > k PROVE s[r].key <= s[j].key
    <3>1. j >= from
      BY <1>1, <1>8, <1>12, <2>5
    <3>2. j \in above
      BY <1>1, <2>5, <3>1
    <3> QED
      BY <1>2, <2>2, <2>3, <3>2
  <2> QED
    BY <1>1, <2>3, <2>4, <2>5 DEF r
<1> QED
  BY <1>9, <1>10, <1>11, <1>12

-----------------------------------------------------------------------------
(* The array: partial keys.                                                 *)

\* A key that is not lower has no lower leading part.
LEMMA PrefixUp ==
    ASSUME NEW j \in Nat, NEW k \in Nat, j <= k
    PROVE  Prefix(j) \in Nat /\ Prefix(k) \in Nat /\ Prefix(j) <= Prefix(k)
BY DEF Prefix

\* The subset of a sorted array for a partial key is what matches it.
LEMMA SubsetIs ==
    ASSUME NEW s \in Seq(Entry), InOrder(s), NEW p \in Nat
    PROVE  ToSet(Subset(s, p)) = {e \in ToSet(s) : Prefix(e.key) = p}
<1> DEFINE n == Len(s)
           below == {j \in DOMAIN s : Prefix(s[j].key) < p}
           f == Halved(n, below, {})
           i == At(f, s)
           start == SubsetStart(s, p)
           ends == {j \in start + 1 .. n : Prefix(s[j].key) # p}
           end == IF ends = {} THEN n
                  ELSE (CHOOSE j \in ends : \A m \in ends : j <= m) - 1
<1>1. /\ n \in Nat /\ DOMAIN s = 1 .. n
      /\ \A j \in 1 .. n : s[j] \in Entry /\ s[j].key \in Nat /\ Prefix(s[j].key) \in Nat
  BY LenProperties, KeysAreNatural, PrefixUp
<1>2. \A j, m \in 1 .. n : j <= m => Prefix(s[j].key) <= Prefix(s[m].key)
  <2> SUFFICES ASSUME NEW j \in 1 .. n, NEW m \in 1 .. n, j <= m
               PROVE  Prefix(s[j].key) <= Prefix(s[m].key)
    OBVIOUS
  <2>1. s[j].key <= s[m].key
    <3>1. CASE j = m
      BY <1>1, <3>1
    <3>2. CASE j < m
      BY <1>1, <3>2 DEF InOrder
    <3> QED
      BY <1>1, <3>1, <3>2
  <2> QED
    BY <1>1, <2>1, PrefixUp
<1>3. /\ f \in 0 .. n
      /\ below = 1 .. f
  <2> DEFINE none == {}
  <2>1. below \in SUBSET (1 .. n) /\ none \in SUBSET (1 .. n) /\ below \cap none = {}
    BY <1>1
  <2>2. \A j \in 1 .. n, m \in below : j < m => j \in below
    <3> SUFFICES ASSUME NEW j \in 1 .. n, NEW m \in below, j < m PROVE j \in below
      OBVIOUS
    <3>1. m \in 1 .. n /\ Prefix(s[m].key) < p
      BY <1>1
    <3>2. Prefix(s[j].key) <= Prefix(s[m].key)
      BY <1>2, <3>1
    <3> QED
      BY <1>1, <3>1, <3>2
  <2>3. \A j \in 1 .. n, m \in none : j < m => j \in below \cup none
    OBVIOUS
  <2> HIDE DEF below, none
  <2>4. /\ Halved(n, below, none) \in 0 .. n
        /\ \/ Halved(n, below, none) + 1 \in none
           \/ below = 1 .. Halved(n, below, none) /\ none = {}
    <3>1. Halvable(n, below, none)
      BY <1>1, <2>1, <2>2, <2>3 DEF Halvable
    <3> QED
      BY <3>1, HalvedFinds
  <2> QED
    BY <2>4 DEF none
<1>4. start = IF i # 0 /\ Prefix(s[i].key) = p THEN i ELSE 0
  BY DEF SubsetStart
<1>5. i = IF f < n THEN f + 1 ELSE 0
  BY DEF At
<1>6. Subset(s, p) = IF start = 0 THEN <<>> ELSE SubSeq(s, start, end)
  BY DEF Subset
<1>7. \A j \in 1 .. n : j <= f <=> Prefix(s[j].key) < p
  BY <1>1, <1>3
<1>8. ends \in SUBSET Nat /\ ends \in SUBSET (start + 1 .. n)
  <2>1. start \in Nat
    BY <1>1, <1>3, <1>4, <1>5
  <2> QED
    BY <1>1, <2>1
<1>9. end = IF ends = {} THEN n ELSE Min(ends) - 1
  BY DEF Min
<1>10. ends = {j \in start + 1 .. n : Prefix(s[j].key) # p}
  OBVIOUS
<1>11. ToSet(s) = {s[j] : j \in 1 .. n}
  BY <1>1 DEF ToSet
<1> HIDE DEF n, below, f, i, start, ends, end
<1>12. CASE start = 0
  <2>1. ASSUME NEW j \in 1 .. n PROVE Prefix(s[j].key) # p
    <3>1. CASE j <= f
      BY <1>1, <1>7, <3>1
    <3>2. CASE j > f
      <4>1. i = f + 1 /\ i \in 1 .. n /\ i # 0
        BY <1>1, <1>3, <1>5, <3>2
      <4>2. Prefix(s[i].key) # p
        BY <1>4, <1>12, <4>1
      <4>3. ~(i <= f) /\ i <= j
        BY <1>1, <1>3, <3>2, <4>1
      <4>4. Prefix(s[i].key) > p
        BY <1>1, <1>7, <4>1, <4>2, <4>3
      <4>5. Prefix(s[i].key) <= Prefix(s[j].key)
        BY <1>2, <4>1, <4>3
      <4> QED
        BY <1>1, <4>1, <4>4, <4>5
    <3> QED
      BY <1>1, <1>3, <3>1, <3>2
  <2>2. Subset(s, p) = <<>> /\ ToSet(<<>>) = {}
    BY <1>6, <1>12 DEF ToSet
  <2> QED
    BY <1>11, <2>1, <2>2
<1>13. CASE start # 0
  <2>1. start = f + 1 /\ start \in 1 .. n /\ Prefix(s[start].key) = p
    BY <1>1, <1>3, <1>4, <1>5, <1>13
  <2>2. /\ end \in start .. n
        /\ \A j \in start .. end : Prefix(s[j].key) = p
        /\ end < n => Prefix(s[end + 1].key) # p
    <3>1. CASE ends = {}
      <4>1. end = n
        BY <1>9, <3>1
      <4>2. \A j \in start .. n : j = start \/ j \in start + 1 .. n
        BY <1>1, <2>1
      <4>3. \A j \in start + 1 .. n : Prefix(s[j].key) = p
        BY <1>10, <3>1
      <4>4. \A j \in start .. n : Prefix(s[j].key) = p
        BY <2>1, <4>2, <4>3
      <4> QED
        BY <1>1, <2>1, <4>1, <4>4
    <3>2. CASE ends # {}
      <4> DEFINE m == Min(ends)
      <4>1. m \in ends /\ \A j \in ends : m <= j
        BY <1>8, <3>2, LeastOf
      <4>2. end = m - 1
        BY <1>9, <3>2
      <4> HIDE DEF m
      <4>3. m \in start + 1 .. n /\ Prefix(s[m].key) # p
        BY <1>10, <4>1
      <4>4. end \in start .. n /\ end + 1 = m
        BY <1>1, <2>1, <4>2, <4>3
      <4>5. ASSUME NEW j \in start .. end PROVE Prefix(s[j].key) = p
        <5>1. j = start \/ (j \in start + 1 .. n /\ j < m)
          BY <1>1, <2>1, <4>3, <4>4
        <5>2. CASE j \in start + 1 .. n /\ j < m
          <6>1. j \notin ends
            BY <1>1, <2>1, <4>1, <4>3, <5>2
          <6> QED
            BY <1>10, <5>2, <6>1
        <5> QED
          BY <2>1, <5>1, <5>2
      <4> QED
        BY <4>3, <4>4, <4>5
    <3> QED
      BY <3>1, <3>2
  <2> DEFINE t == SubSeq(s, start, end)
  <2>3. /\ t \in Seq(Entry)
        /\ Len(t) = end - start + 1
        /\ \A j \in 1 .. end - start + 1 : t[j] = s[start + j - 1]
    <3>1. \A j \in start .. end : s[j] \in Entry
      BY <1>1, <2>1, <2>2
    <3>2. start \in Int /\ end \in Int /\ start <= end
      BY <1>1, <2>1, <2>2
    <3>3. /\ SubSeq(s, start, end) \in Seq(Entry)
          /\ Len(SubSeq(s, start, end)) = IF start <= end THEN end - start + 1 ELSE 0
          /\ \A j \in 1 .. end - start + 1 : SubSeq(s, start, end)[j] = s[start + j - 1]
      BY <3>1, <3>2, SubSeqProperties
    <3> QED
      BY <3>2, <3>3
  <2>4. DOMAIN t = 1 .. end - start + 1
    BY <2>3, LenProperties
  <2>5. Subset(s, p) = t
    BY <1>6, <1>13
  <2> HIDE DEF t
  <2>6. ASSUME NEW j \in 1 .. end - start + 1
        PROVE  t[j] \in ToSet(s) /\ Prefix(t[j].key) = p
    <3>1. start + j - 1 \in start .. end /\ start + j - 1 \in 1 .. n
      <4>1. start \in Nat /\ end \in Nat /\ n \in Nat /\ 1 <= start /\ end <= n /\ start <= end
        BY <1>1, <2>1, <2>2
      <4> QED
        BY <4>1
    <3>2. t[j] = s[start + j - 1]
      BY <2>3
    <3> QED
      BY <1>11, <2>2, <3>1, <3>2
  <2>7. ASSUME NEW j \in 1 .. n, Prefix(s[j].key) = p
        PROVE  \E m \in 1 .. end - start + 1 : t[m] = s[j]
    <3>1. start <= j
      <4>1. j <= f => Prefix(s[j].key) < p
        BY <1>7
      <4>2. Prefix(s[j].key) \in Int /\ p \in Int
        BY <1>1
      <4>3. ~(j <= f)
        BY <2>7, <4>1, <4>2
      <4> QED
        BY <1>1, <1>3, <2>1, <4>3
    <3>2. j <= end
      <4> SUFFICES ASSUME j > end PROVE FALSE
        BY <1>1, <2>1, <2>2
      <4>1. end + 1 \in 1 .. n /\ end + 1 <= j /\ start <= end + 1 /\ end < n
        BY <1>1, <2>1, <2>2
      <4>2. Prefix(s[start].key) <= Prefix(s[end + 1].key) /\ Prefix(s[end + 1].key) <= Prefix(s[j].key)
        BY <1>2, <2>1, <4>1
      <4>3. Prefix(s[end + 1].key) # p
        BY <2>2, <4>1
      <4> QED
        BY <1>1, <2>1, <2>7, <4>1, <4>2, <4>3
    <3>3. j - start + 1 \in 1 .. end - start + 1 /\ start + (j - start + 1) - 1 = j
      BY <1>1, <2>1, <2>2, <3>1, <3>2, SMTT(30)
    <3>4. t[j - start + 1] = s[start + (j - start + 1) - 1]
      BY <2>3, <3>3
    <3> QED
      BY <3>3, <3>4
  <2>8. ToSet(t) = {t[j] : j \in 1 .. end - start + 1}
    BY <2>4 DEF ToSet
  <2>9. ToSet(t) \subseteq {e \in ToSet(s) : Prefix(e.key) = p}
    BY <2>6, <2>8
  <2>10. {e \in ToSet(s) : Prefix(e.key) = p} \subseteq ToSet(t)
    BY <1>11, <2>7, <2>8
  <2> QED
    BY <2>5, <2>9, <2>10
<1> QED
  BY <1>12, <1>13

-----------------------------------------------------------------------------
(* The array: what every operation keeps.                                   *)

ArrayTyped == /\ data \in Seq(Entry)
              /\ dirty \in BOOLEAN
              /\ duplicates \in BOOLEAN
              /\ unsorted \in BOOLEAN
              /\ lag \in Int
              /\ lag <= 1
              /\ pos \in Int
              /\ view \in Seq(Entry)

\* No entry is stored twice, and no key is unless that is allowed.
EntriesOnce == IsInjective(data) /\ (~duplicates => KeysUnique(data))

\* What is not marked as dirty is in order.
CleanInOrder == ~unsorted /\ ~dirty => InOrder(data)

\* An iterator that counted right is in sync with a clean array only, and with what
\* it has seen of it.
IteratorFits == ~overtaken => /\ lag >= 0
                              /\ lag = 0 /\ ~unsorted => ~dirty /\ IsPrefix(data, view)

ArrayInv == ArrayTyped /\ EntriesOnce /\ CleanInOrder /\ IteratorFits

\* A prefix, entry by entry.
LEMMA PrefixIs ==
    ASSUME NEW S, NEW s \in Seq(S), NEW t \in Seq(S)
    PROVE  IsPrefix(s, t) <=> Len(s) <= Len(t) /\ \A i \in 1 .. Len(s) : s[i] = t[i]
<1> DEFINE n == Len(s)
           u == SubSeq(t, 1, n)
<1>1. /\ n \in Nat /\ Len(t) \in Nat
      /\ \A i \in 1 .. Len(t) : t[i] \in S
      /\ SubSeq(s, 1, n) = s /\ s \in [1 .. n -> S]
  BY LenProperties, SubSeqFull
<1>2. SUFFICES ASSUME n <= Len(t) PROVE s = u <=> \A i \in 1 .. n : s[i] = t[i]
  BY <1>1 DEF IsPrefix
<1>3. u \in Seq(S) /\ Len(u) = n /\ \A i \in 1 .. n : u[i] = t[i]
  <2>1. \A i \in 1 .. n : t[i] \in S
    BY <1>1, <1>2
  <2>2. /\ SubSeq(t, 1, n) \in Seq(S)
        /\ Len(SubSeq(t, 1, n)) = IF 1 <= n THEN n - 1 + 1 ELSE 0
        /\ \A i \in 1 .. n - 1 + 1 : SubSeq(t, 1, n)[i] = t[1 + i - 1]
    BY <1>1, <2>1, SubSeqProperties
  <2>3. Len(u) = n
    BY <1>1, <2>2
  <2>4. ASSUME NEW i \in 1 .. n PROVE u[i] = t[i]
    <3>1. i \in 1 .. n - 1 + 1 /\ 1 + i - 1 = i
      BY <1>1
    <3> QED
      BY <2>2, <3>1
  <2> QED
    BY <2>2, <2>3, <2>4
<1>4. u \in [1 .. n -> S]
  BY <1>3, LenProperties
<1> HIDE DEF u, n
<1> QED
  BY <1>1, <1>3, <1>4

\* What is in order stays so when an entry is taken out, and so do single keys.
LEMMA RemovedKeepsKeys ==
    ASSUME NEW s \in Seq(Entry), NEW i \in 1 .. Len(s)
    PROVE  /\ InOrder(s) => InOrder(RemoveAt(s, i))
           /\ KeysUnique(s) => KeysUnique(RemoveAt(s, i))
<1> DEFINE t == RemoveAt(s, i)
           n == Len(s)
<1>1. n \in Nat /\ DOMAIN s = 1 .. n /\ \A j \in 1 .. n : s[j].key \in Nat
  BY LenProperties, KeysAreNatural
<1>2. /\ RemoveAt(s, i) \in Seq(Entry)
      /\ Len(RemoveAt(s, i)) = Len(s) - 1
      /\ \A j \in 1 .. Len(s) - 1 : RemoveAt(s, i)[j] = IF j < i THEN s[j] ELSE s[j + 1]
  BY RemoveAtElements
<1>3. DOMAIN t = 1 .. n - 1 /\ \A j \in 1 .. n - 1 : t[j] = IF j < i THEN s[j] ELSE s[j + 1]
  BY <1>2, LenProperties
<1> HIDE DEF t
<1> DEFINE h(j) == IF j < i THEN j ELSE j + 1
<1>4. \A j \in 1 .. n - 1 : h(j) \in 1 .. n /\ t[j] = s[h(j)]
  BY <1>1, <1>3
<1>5. \A j, m \in 1 .. n - 1 : (j < m => h(j) < h(m)) /\ (h(j) = h(m) => j = m)
  BY <1>1
<1> HIDE DEF h, n
<1>6. InOrder(s) => InOrder(t)
  BY <1>1, <1>3, <1>4, <1>5 DEF InOrder
<1>7. KeysUnique(s) => KeysUnique(t)
  BY <1>1, <1>3, <1>4, <1>5 DEF KeysUnique
<1> QED
  BY <1>6, <1>7 DEF t

\* Without its last entry, a list is a prefix of what it was a prefix of.
LEMMA ShorterPrefix ==
    ASSUME NEW s \in Seq(Entry), s # <<>>, NEW v \in Seq(Entry), IsPrefix(s, v)
    PROVE  IsPrefix(RemoveAt(s, Len(s)), v)
<1> DEFINE n == Len(s)
           t == RemoveAt(s, n)
<1>1. n \in Nat /\ Len(v) \in Nat /\ n \in 1 .. n
  BY LenProperties, EmptySeq
<1>2. /\ RemoveAt(s, n) \in Seq(Entry)
      /\ Len(RemoveAt(s, n)) = Len(s) - 1
      /\ \A j \in 1 .. Len(s) - 1 : RemoveAt(s, n)[j] = IF j < n THEN s[j] ELSE s[j + 1]
  BY <1>1, RemoveAtElements
<1> HIDE DEF t
<1>3. t \in Seq(Entry) /\ Len(t) = n - 1 /\ \A j \in 1 .. n - 1 : t[j] = s[j]
  BY <1>1, <1>2 DEF t
<1>4. n <= Len(v) /\ \A j \in 1 .. n : s[j] = v[j]
  BY PrefixIs
<1>5. Len(t) <= Len(v) /\ \A j \in 1 .. Len(t) : t[j] = v[j]
  BY <1>1, <1>3, <1>4
<1>6. IsPrefix(t, v)
  BY <1>3, <1>5, PrefixIs
<1> QED
  BY <1>6 DEF t

\* What may be read when the array has been put in order.
LEMMA SortedIs ==
    ASSUME ArrayInv, NEW s \in Sorted
    PROVE  /\ s \in Seq(Entry)
           /\ IsInjective(s)
           /\ ToSet(s) = ToSet(data)
           /\ Len(s) = Len(data)
           /\ ~unsorted => InOrder(s)
           /\ ~duplicates => KeysUnique(s)
           /\ ~Sorts => s = data
<1>1. data \in Seq(Entry) /\ IsInjective(data) /\ (~duplicates => KeysUnique(data))
  BY DEF ArrayInv, ArrayTyped, EntriesOnce
<1>2. CASE Sorts
  <2>1. s \in Sortings(data)
    BY <1>2 DEF Sorted
  <2>2. /\ s \in Seq(Entry) /\ IsInjective(s) /\ ToSet(s) = ToSet(data)
        /\ Len(s) = Len(data) /\ InOrder(s)
    BY <1>1, <2>1, SortingIs
  <2>3. ASSUME KeysUnique(data) PROVE KeysUnique(s)
    <3> SUFFICES ASSUME NEW i \in DOMAIN s, NEW j \in DOMAIN s, s[i].key = s[j].key PROVE i = j
      BY DEF KeysUnique
    <3>1. s[i] \in ToSet(data) /\ s[j] \in ToSet(data)
      BY <2>2 DEF ToSet
    <3>2. PICK a \in DOMAIN data : data[a] = s[i]
      BY <3>1 DEF ToSet
    <3>3. PICK b \in DOMAIN data : data[b] = s[j]
      BY <3>1 DEF ToSet
    <3>4. a = b
      BY <2>3, <3>2, <3>3 DEF KeysUnique
    <3> QED
      BY <2>2, <3>2, <3>3, <3>4 DEF IsInjective
  <2> QED
    BY <1>1, <1>2, <2>2, <2>3
<1>3. CASE ~Sorts
  <2>1. s = data
    BY <1>3 DEF Sorted
  <2>2. ~unsorted => InOrder(data)
    BY <1>3 DEF Sorts, ArrayInv, ArrayTyped, CleanInOrder
  <2> QED
    BY <1>1, <1>3, <2>1, <2>2
<1> QED
  BY <1>2, <1>3

\* The iterator when the container counts n changes.
LEMMA BumpIs ==
    ASSUME ArrayTyped, NEW n \in Nat, Bump(n)
    PROVE  /\ lag' \in Int /\ lag' <= 1
           /\ n = 0 => lag' = lag
           /\ n > 0 /\ lag >= 0 => lag' = 1
           /\ lag >= 0 => lag' >= 0
           /\ view' = IF lag' = 1 THEN <<>> ELSE view
           /\ view' \in Seq(Entry)
           /\ pos' = pos /\ overtaken' = overtaken
<1>1. lag \in Int /\ lag <= 1 /\ view \in Seq(Entry) /\ <<>> \in Seq(Entry)
  BY DEF ArrayTyped
<1>2. /\ lag' = IF lag + n > 0 THEN 1 ELSE lag + n
      /\ view' = IF lag' = 1 THEN <<>> ELSE view
      /\ pos' = pos /\ overtaken' = overtaken
  BY DEF Bump
<1>3. lag' \in Int /\ lag' <= 1
  BY <1>1, <1>2
<1>4. /\ n = 0 => lag' = lag
      /\ n > 0 /\ lag >= 0 => lag' = 1
      /\ lag >= 0 => lag' >= 0
  BY <1>1, <1>2
<1>5. view' \in Seq(Entry)
  BY <1>1, <1>2
<1> QED
  BY <1>2, <1>3, <1>4, <1>5

\* Putting the array in order.
LEMMA ArrangeStep ==
    ASSUME ArrayInv, NEW s \in Sorted, Arrange(s)
    PROVE  /\ ArrayInv'
           /\ ToSet(data') = ToSet(data)
           /\ duplicates' = duplicates /\ unsorted' = unsorted
<1>1. /\ s \in Seq(Entry) /\ IsInjective(s) /\ ToSet(s) = ToSet(data)
      /\ ~unsorted => InOrder(s)
      /\ ~duplicates => KeysUnique(s)
      /\ ~Sorts => s = data
  BY SortedIs
<1>2. /\ data' = s
      /\ dirty' = (dirty /\ ~Sorts)
      /\ duplicates' = duplicates /\ unsorted' = unsorted
      /\ Bump(IF Sorts THEN 1 ELSE 0)
  BY DEF Arrange
<1>3. ArrayTyped /\ EntriesOnce /\ CleanInOrder /\ IteratorFits
  BY DEF ArrayInv
<1> DEFINE n == IF Sorts THEN 1 ELSE 0
<1>4. /\ lag' \in Int /\ lag' <= 1
      /\ n = 0 => lag' = lag
      /\ n > 0 /\ lag >= 0 => lag' = 1
      /\ lag >= 0 => lag' >= 0
      /\ view' = IF lag' = 1 THEN <<>> ELSE view
      /\ view' \in Seq(Entry)
      /\ pos' = pos /\ overtaken' = overtaken
  <2>1. n \in Nat /\ Bump(n)
    BY <1>2
  <2> HIDE DEF n
  <2> QED
    BY <1>3, <2>1, BumpIs
<1>5. ArrayTyped'
  <2>1. dirty' \in BOOLEAN
    BY <1>2, <1>3 DEF ArrayTyped
  <2> QED
    BY <1>1, <1>2, <1>3, <1>4, <2>1 DEF ArrayTyped
<1>6. EntriesOnce' /\ CleanInOrder'
  BY <1>1, <1>2 DEF EntriesOnce, CleanInOrder, IsInjective, KeysUnique, InOrder
<1>7. IteratorFits'
  <2> SUFFICES ASSUME ~overtaken PROVE lag' >= 0 /\ (lag' = 0 /\ ~unsorted => ~dirty' /\ IsPrefix(data', view'))
    BY <1>2, <1>4 DEF IteratorFits
  <2>1. lag >= 0 /\ (lag = 0 /\ ~unsorted => ~dirty /\ IsPrefix(data, view))
    BY <1>3 DEF IteratorFits
  <2>2. CASE Sorts
    BY <1>4, <2>1, <2>2
  <2>3. CASE ~Sorts
    <3>1. lag' = lag /\ data' = data /\ dirty' = dirty
      BY <1>1, <1>2, <1>3, <1>4, <2>3 DEF ArrayTyped
    <3>2. lag = 0 => view' = view
      BY <1>4, <3>1
    <3> QED
      BY <2>1, <3>1, <3>2
  <2> QED
    BY <2>2, <2>3
<1> QED
  BY <1>1, <1>2, <1>5, <1>6, <1>7 DEF ArrayInv

\* Nothing but the options and the answer.
LEMMA UntouchedStep ==
    ASSUME ArrayInv, UNCHANGED <<store, iterator>>
    PROVE  /\ ArrayInv'
           /\ ToSet(data') = ToSet(data)
           /\ duplicates' = duplicates /\ unsorted' = unsorted
BY DEF ArrayInv, ArrayTyped, EntriesOnce, CleanInOrder, IteratorFits, store, iterator,
       IsInjective, KeysUnique, InOrder

\* SetOptions: only while the array is empty.
LEMMA OptionsStep ==
    ASSUME ArrayInv, SetOptions
    PROVE  /\ ArrayInv'
           /\ data = <<>> /\ data' = <<>>
           /\ duplicates' \in BOOLEAN /\ unsorted' \in BOOLEAN /\ found' = NoEntry
<1>1. /\ data = <<>> /\ ~dirty /\ data' = data /\ dirty' = dirty
      /\ duplicates' \in BOOLEAN /\ unsorted' \in BOOLEAN /\ found' = NoEntry
      /\ lag' = lag /\ pos' = pos /\ view' = view /\ overtaken' = overtaken
  BY DEF SetOptions, NoResult, iterator
<1>2. ArrayTyped /\ IteratorFits
  BY DEF ArrayInv
<1>3. DOMAIN data = {}
  BY <1>1
<1>4. ArrayTyped'
  BY <1>1, <1>2 DEF ArrayTyped
<1>5. EntriesOnce' /\ CleanInOrder'
  BY <1>1, <1>3 DEF EntriesOnce, CleanInOrder, IsInjective, KeysUnique, InOrder
<1>6. IteratorFits'
  <2>1. IsPrefix(data, view)
    <3>1. data \in Seq(Entry) /\ view \in Seq(Entry)
      BY <1>2 DEF ArrayTyped
    <3>2. Len(data) = 0 /\ Len(view) \in Nat
      BY <1>1, <3>1, LenProperties
    <3>3. Len(data) <= Len(view) /\ \A i \in 1 .. Len(data) : data[i] = view[i]
      BY <3>2
    <3> QED
      BY <3>1, <3>3, PrefixIs
  <2>2. ~overtaken => lag >= 0
    BY <1>2 DEF IteratorFits
  <2> QED
    BY <1>1, <2>1, <2>2 DEF IteratorFits
<1> QED
  BY <1>1, <1>4, <1>5, <1>6 DEF ArrayInv

\* What the test for duplicates works on.
LEMMA TestedIs ==
    ASSUME ArrayInv, NEW s \in Tested
    PROVE  /\ s \in Seq(Entry) /\ IsInjective(s) /\ ToSet(s) = ToSet(data) /\ Len(s) = Len(data)
           /\ ~duplicates => KeysUnique(s) /\ (~unsorted => InOrder(s))
           /\ s = data \/ (s \in Sorted /\ ~duplicates /\ data # <<>> /\ Sorts)
           /\ ~duplicates /\ data # <<>> => s \in Sorted
<1>1. CASE duplicates \/ data = <<>>
  <2>1. s = data
    BY <1>1 DEF Tested
  <2>2. data = <<>> => InOrder(data)
    BY DEF InOrder
  <2> QED
    BY <1>1, <2>1, <2>2 DEF ArrayInv, ArrayTyped, EntriesOnce
<1>2. CASE ~(duplicates \/ data = <<>>)
  <2>1. s \in Sorted
    BY <1>2 DEF Tested
  <2> QED
    BY <1>2, <2>1, SortedIs
<1> QED
  BY <1>1, <1>2

\* An insertion is one into the store.
LEMMA InsertStoreStep ==
    ASSUME ArrayInv, NEW e \in Entry, Insert(e)
    PROVE  /\ ArrayInv'
           /\ ~duplicates => \A f \in ToSet(data) : f.key # e.key
           /\ ToSet(data') = ToSet(data) \cup {e}
           /\ duplicates' = duplicates /\ unsorted' = unsorted /\ found' = NoEntry
<1>1. PICK s \in Tested :
        /\ e \notin ToSet(data)
        /\ ~Refuses(s, e)
        /\ data' = Append(s, e)
        /\ dirty' = TRUE
        /\ Bump(InsertBumps)
        /\ found' = NoEntry
        /\ duplicates' = duplicates /\ unsorted' = unsorted
  BY DEF Insert, NoResult
<1>2. ArrayTyped /\ EntriesOnce /\ CleanInOrder /\ IteratorFits
  BY DEF ArrayInv
<1>3. /\ s \in Seq(Entry) /\ IsInjective(s) /\ ToSet(s) = ToSet(data) /\ Len(s) = Len(data)
      /\ ~duplicates => KeysUnique(s) /\ (~unsorted => InOrder(s))
  BY TestedIs
<1>4. Len(s) \in Nat /\ DOMAIN s = 1 .. Len(s) /\ e.key \in Nat
  BY <1>3, LenProperties, ArrayAssumption
<1>5. ASSUME ~duplicates PROVE \A i \in DOMAIN s : s[i].key # e.key
  <2>1. SearchExact(s, e.key) = 0
    BY <1>1, <1>5 DEF Refuses
  <2>2. \/ SearchExact(s, e.key) = 0 /\ Same(s, e.key) = {}
        \/ SearchExact(s, e.key) \in Same(s, e.key)
    BY <1>3, <1>4, <1>5, SearchExactFinds
  <2>3. Same(s, e.key) = {}
    BY <1>4, <2>1, <2>2 DEF Same
  <2> QED
    BY <2>3 DEF Same
<1>6. Range(s) = ToSet(s) /\ Range(data') = ToSet(data')
  BY DEF Range, ToSet
<1>7. Range(data') = Range(s) \cup {e} /\ IsInjective(data')
  BY <1>1, <1>3, <1>6, AppendRange
<1>8. /\ data' \in Seq(Entry) /\ DOMAIN data' = 1 .. Len(s) + 1
      /\ \A i \in 1 .. Len(s) : data'[i] = s[i]
      /\ data'[Len(s) + 1] = e
  <2>1. /\ Append(s, e) \in Seq(Entry) /\ Len(Append(s, e)) = Len(s) + 1
        /\ \A i \in 1 .. Len(s) : Append(s, e)[i] = s[i]
        /\ Append(s, e)[Len(s) + 1] = e
    BY <1>3, AppendProperties
  <2> QED
    BY <1>1, <2>1, LenProperties
<1>9. ~duplicates => KeysUnique(data')
  <2> SUFFICES ASSUME ~duplicates, NEW i \in 1 .. Len(s) + 1, NEW j \in 1 .. Len(s) + 1,
                      data'[i].key = data'[j].key
               PROVE  i = j
    BY <1>8 DEF KeysUnique
  <2>1. (i \in 1 .. Len(s) \/ i = Len(s) + 1) /\ (j \in 1 .. Len(s) \/ j = Len(s) + 1)
    BY <1>4
  <2>2. \A m \in 1 .. Len(s) : data'[m].key # e.key
    BY <1>4, <1>5, <1>8
  <2>3. \A l, m \in 1 .. Len(s) : data'[l].key = data'[m].key => l = m
    BY <1>3, <1>4, <1>8 DEF KeysUnique
  <2> QED
    BY <1>8, <2>1, <2>2, <2>3
<1>10. InsertBumps \in Nat /\ (~unsorted /\ ~dirty => InsertBumps > 0)
  BY DEF InsertBumps, Sorts
<1>11. /\ lag' \in Int /\ lag' <= 1
       /\ InsertBumps > 0 /\ lag >= 0 => lag' = 1
       /\ InsertBumps = 0 => lag' = lag
       /\ lag >= 0 => lag' >= 0
       /\ view' \in Seq(Entry)
       /\ pos' = pos /\ overtaken' = overtaken
  BY <1>1, <1>2, <1>10, BumpIs
<1>12. ArrayTyped'
  BY <1>1, <1>2, <1>8, <1>11 DEF ArrayTyped
<1>13. EntriesOnce' /\ CleanInOrder'
  BY <1>1, <1>7, <1>9 DEF EntriesOnce, CleanInOrder, IsInjective, KeysUnique
<1>14. IteratorFits'
  <2> SUFFICES ASSUME ~overtaken PROVE lag' >= 0 /\ ~(lag' = 0 /\ ~unsorted)
    BY <1>1, <1>11 DEF IteratorFits
  <2>1. lag >= 0 /\ (lag = 0 /\ ~unsorted => ~dirty)
    BY <1>2 DEF IteratorFits
  <2>2. lag \in Int
    BY <1>2 DEF ArrayTyped
  <2>3. CASE InsertBumps > 0
    BY <1>11, <2>1, <2>3
  <2>4. CASE InsertBumps = 0
    BY <1>10, <1>11, <2>1, <2>4
  <2> QED
    BY <1>10, <2>3, <2>4
<1>15. ~duplicates => \A f \in ToSet(data) : f.key # e.key
  BY <1>3, <1>5 DEF ToSet
<1> QED
  BY <1>1, <1>3, <1>6, <1>7, <1>12, <1>13, <1>14, <1>15 DEF ArrayInv

\* An insertion that is refused changes nothing that the store knows of.
LEMMA InsertRefusedStep ==
    ASSUME ArrayInv, NEW e \in Entry, InsertRefused(e) \/ InsertNoMemory(e)
    PROVE  /\ ArrayInv'
           /\ ToSet(data') = ToSet(data)
           /\ duplicates' = duplicates /\ unsorted' = unsorted /\ found' = NoEntry
<1>1. PICK s \in Tested :
        /\ found' = NoEntry
        /\ Arrange(s) \/ UNCHANGED <<store, iterator>>
        /\ Refuses(s, e) \/ UNCHANGED <<store, iterator>> \/ (~duplicates /\ data # <<>>)
  BY DEF InsertRefused, InsertNoMemory, NoResult
<1>2. CASE UNCHANGED <<store, iterator>>
  BY <1>1, <1>2, UntouchedStep
<1>3. CASE Arrange(s) /\ s \in Sorted
  BY <1>1, <1>3, ArrangeStep
<1>4. CASE Arrange(s) /\ s \notin Sorted /\ Refuses(s, e)
  <2>1. s = data /\ ~duplicates /\ data = <<>>
    BY <1>4, TestedIs DEF Refuses
  <2>2. s \in Seq(Entry) /\ InOrder(s)
    BY <2>1 DEF InOrder, ArrayInv, ArrayTyped
  <2>3. SearchExact(s, e.key) = 0
    <3>1. e.key \in Nat
      BY ArrayAssumption
    <3>2. \/ SearchExact(s, e.key) = 0
          \/ SearchExact(s, e.key) \in Same(s, e.key)
      BY <2>2, <3>1, SearchExactFinds
    <3>3. Same(s, e.key) = {}
      BY <2>1 DEF Same
    <3> QED
      BY <3>2, <3>3
  <2> QED
    BY <1>4, <2>3 DEF Refuses
<1>5. CASE Arrange(s) /\ s \notin Sorted /\ ~duplicates /\ data # <<>>
  BY <1>5, TestedIs
<1> QED
  BY <1>1, <1>2, <1>3, <1>4, <1>5

\* The answer r to a question, about the entries in the array.
Asked(query, k, r) == found' = [query |-> query, key |-> k, entry |-> r]

\* FindExact answers as the store does.
LEMMA FindExactStep ==
    ASSUME ArrayInv, NEW k \in Nat, FindExact(k)
    PROVE  /\ ArrayInv'
           /\ ToSet(data') = ToSet(data)
           /\ duplicates' = duplicates /\ unsorted' = unsorted
           /\ \E r : /\ Asked("find", k, r)
                     /\ \/ r = NoEntry /\ \A e \in ToSet(data) : e.key # k
                        \/ r \in ToSet(data) /\ r.key = k
<1>1. CASE data = <<>>
  <2>1. Asked("find", k, NoEntry) /\ UNCHANGED <<store, iterator>>
    BY <1>1 DEF FindExact, Search, Asked
  <2>2. \A e \in ToSet(data) : e.key # k
    BY <1>1 DEF ToSet
  <2> QED
    BY <2>1, <2>2, UntouchedStep
<1>2. CASE data # <<>>
  <2>1. PICK s \in Sorted : Asked("find", k, EntryAt(s, SearchExact(s, k))) /\ Arrange(s)
    BY <1>2 DEF FindExact, Search, Asked
  <2>2. s \in Seq(Entry) /\ ToSet(s) = ToSet(data) /\ (~unsorted => InOrder(s))
    BY SortedIs
  <2>3. \/ SearchExact(s, k) = 0 /\ Same(s, k) = {}
        \/ SearchExact(s, k) \in Same(s, k)
    BY <2>2, SearchExactFinds
  <2>4. CASE SearchExact(s, k) = 0 /\ Same(s, k) = {}
    <3>1. EntryAt(s, SearchExact(s, k)) = NoEntry
      BY <2>4 DEF EntryAt
    <3>2. \A e \in ToSet(s) : e.key # k
      BY <2>4 DEF Same, ToSet
    <3> QED
      BY <2>1, <2>2, <3>1, <3>2, ArrangeStep
  <2>5. CASE SearchExact(s, k) \in Same(s, k)
    <3> DEFINE i == SearchExact(s, k)
    <3>1. i \in DOMAIN s /\ s[i].key = k
      BY <2>5 DEF Same
    <3>2. i # 0
      BY <2>2, <3>1, LenProperties
    <3>3. EntryAt(s, i) = s[i] /\ s[i] \in ToSet(s)
      BY <3>1, <3>2 DEF EntryAt, ToSet
    <3> HIDE DEF i
    <3>4. Asked("find", k, s[i])
      BY <2>1, <3>3 DEF i
    <3> QED
      BY <2>1, <2>2, <3>1, <3>3, <3>4, ArrangeStep
  <2> QED
    BY <2>3, <2>4, <2>5
<1> QED
  BY <1>1, <1>2

\* FindAfter answers as the store does.
LEMMA FindAfterStep ==
    ASSUME ArrayInv, NEW k \in Nat, FindAfter(k)
    PROVE  /\ ArrayInv'
           /\ ToSet(data') = ToSet(data)
           /\ duplicates' = duplicates /\ unsorted' = unsorted
           /\ \E r : /\ Asked("find next", k, r)
                     /\ \/ r = NoEntry /\ (unsorted \/ \A e \in ToSet(data) : ~(e.key > k))
                        \/ /\ ~unsorted /\ r \in ToSet(data) /\ r.key > k
                           /\ \A e \in ToSet(data) : e.key > k => r.key <= e.key
<1>1. CASE data = <<>>
  <2>1. Asked("find next", k, NoEntry) /\ UNCHANGED <<store, iterator>>
    BY <1>1 DEF FindAfter, Search, Asked
  <2>2. \A e \in ToSet(data) : ~(e.key > k)
    BY <1>1 DEF ToSet
  <2> QED
    BY <2>1, <2>2, UntouchedStep
<1>2. CASE data # <<>>
  <2>1. PICK s \in Sorted : Asked("find next", k, EntryAt(s, SearchNext(s, k))) /\ Arrange(s)
    BY <1>2 DEF FindAfter, Search, Asked
  <2>2. /\ s \in Seq(Entry) /\ ToSet(s) = ToSet(data) /\ (~unsorted => InOrder(s))
        /\ ~duplicates => KeysUnique(s)
    BY SortedIs
  <2>3. CASE unsorted
    <3>1. EntryAt(s, SearchNext(s, k)) = NoEntry
      BY <2>3 DEF SearchNext, EntryAt
    <3> QED
      BY <2>1, <2>3, <3>1, ArrangeStep
  <2>4. CASE ~unsorted
    <3> DEFINE i == SearchNext(s, k)
    <3>1. \/ i = 0 /\ \A j \in DOMAIN s : s[j].key <= k
          \/ /\ i \in DOMAIN s /\ s[i].key > k
             /\ \A j \in DOMAIN s : s[j].key > k => s[i].key <= s[j].key
      BY <2>2, <2>4, SearchNextFinds
    <3> HIDE DEF i
    <3>2. Asked("find next", k, EntryAt(s, i))
      BY <2>1 DEF i
    <3>3. \A j \in DOMAIN s : s[j].key \in Nat
      BY <2>2, KeysAreNatural
    <3>4. CASE i = 0 /\ \A j \in DOMAIN s : s[j].key <= k
      <4>1. Asked("find next", k, NoEntry)
        BY <3>2, <3>4 DEF EntryAt
      <4>2. \A e \in ToSet(s) : ~(e.key > k)
        BY <3>3, <3>4 DEF ToSet
      <4> QED
        BY <2>1, <2>2, <4>1, <4>2, ArrangeStep
    <3>5. CASE /\ i \in DOMAIN s /\ s[i].key > k
               /\ \A j \in DOMAIN s : s[j].key > k => s[i].key <= s[j].key
      <4>1. i # 0
        BY <2>2, <3>5, LenProperties
      <4>2. Asked("find next", k, s[i])
        BY <3>2, <4>1 DEF EntryAt
      <4>3. s[i] \in ToSet(s) /\ \A e \in ToSet(s) : e.key > k => s[i].key <= e.key
        BY <3>5 DEF ToSet
      <4> QED
        BY <2>1, <2>2, <2>4, <3>5, <4>2, <4>3, ArrangeStep
    <3> QED
      BY <3>1, <3>4, <3>5
  <2> QED
    BY <2>3, <2>4
<1> QED
  BY <1>1, <1>2

\* FindFirst answers as the store does.
LEMMA FindFirstStep ==
    ASSUME ArrayInv, FindFirst
    PROVE  /\ ArrayInv'
           /\ ToSet(data') = ToSet(data)
           /\ duplicates' = duplicates /\ unsorted' = unsorted
           /\ \E r : /\ Asked("first", 0, r)
                     /\ \/ r = NoEntry /\ ToSet(data) = {}
                        \/ /\ r \in ToSet(data)
                           /\ ~unsorted => \A e \in ToSet(data) : r.key <= e.key
<1>1. CASE data = <<>>
  <2>1. Asked("first", 0, NoEntry) /\ UNCHANGED <<store, iterator>>
    BY <1>1 DEF FindFirst, Search, Asked
  <2>2. ToSet(data) = {}
    BY <1>1 DEF ToSet
  <2> QED
    BY <2>1, <2>2, UntouchedStep
<1>2. CASE data # <<>>
  <2>1. PICK s \in Sorted : Asked("first", 0, EntryAt(s, 1)) /\ Arrange(s)
    BY <1>2 DEF FindFirst, Search, Asked
  <2>2. /\ s \in Seq(Entry) /\ ToSet(s) = ToSet(data) /\ (~unsorted => InOrder(s))
        /\ Len(s) = Len(data)
    BY SortedIs
  <2>3. Len(s) \in Nat /\ DOMAIN s = 1 .. Len(s) /\ 1 \in DOMAIN s
    <3>1. data \in Seq(Entry)
      BY DEF ArrayInv, ArrayTyped
    <3>2. Len(data) \in Nat /\ Len(data) # 0
      BY <1>2, <3>1, LenProperties, EmptySeq
    <3> QED
      BY <2>2, <3>2, LenProperties
  <2>4. Asked("first", 0, s[1])
    BY <2>1 DEF EntryAt
  <2>5. s[1] \in ToSet(s)
    BY <2>3 DEF ToSet
  <2>6. ASSUME ~unsorted, NEW j \in DOMAIN s PROVE s[1].key <= s[j].key
    <3>1. CASE j = 1
      BY <2>2, <2>3, <3>1, KeysAreNatural
    <3>2. CASE 1 < j
      BY <2>2, <2>3, <2>6, <3>2 DEF InOrder
    <3> QED
      BY <2>3, <3>1, <3>2
  <2>7. ~unsorted => \A e \in ToSet(s) : s[1].key <= e.key
    BY <2>6 DEF ToSet
  <2> QED
    BY <2>1, <2>2, <2>4, <2>5, <2>7, ArrangeStep
<1> QED
  BY <1>1, <1>2

\* ForEach may sort, and nothing else.
LEMMA ForEachStep ==
    ASSUME ArrayInv, ForEach
    PROVE  /\ ArrayInv'
           /\ ToSet(data') = ToSet(data)
           /\ duplicates' = duplicates /\ unsorted' = unsorted /\ found' = NoEntry
<1>1. PICK s \in Sorted : Arrange(s)
  BY DEF ForEach
<1>2. found' = NoEntry
  BY DEF ForEach, NoResult
<1> QED
  BY <1>1, <1>2, ArrangeStep

\* Clearing leaves an empty store.
LEMMA ClearArrayStep ==
    ASSUME ArrayInv, Clear
    PROVE  /\ ArrayInv'
           /\ ToSet(data') = {}
           /\ duplicates' = duplicates /\ unsorted' = unsorted /\ found' = NoEntry
<1>1. /\ data' = <<>> /\ dirty' = FALSE /\ Bump(1) /\ found' = NoEntry
      /\ duplicates' = duplicates /\ unsorted' = unsorted
  BY DEF Clear, NoResult
<1>2. ArrayTyped /\ IteratorFits
  BY DEF ArrayInv
<1>3. /\ lag' \in Int /\ lag' <= 1 /\ (lag >= 0 => lag' = 1)
      /\ view' \in Seq(Entry) /\ pos' = pos /\ overtaken' = overtaken
  <2>1. 1 \in Nat
    OBVIOUS
  <2> QED
    BY <1>1, <1>2, <2>1, BumpIs
<1>4. ArrayTyped'
  <2>1. data' \in Seq(Entry)
    BY <1>1
  <2> QED
    BY <1>1, <1>2, <1>3, <2>1 DEF ArrayTyped
<1>5. EntriesOnce' /\ CleanInOrder'
  BY <1>1 DEF EntriesOnce, CleanInOrder, IsInjective, KeysUnique, InOrder
<1>6. IteratorFits'
  BY <1>2, <1>3 DEF IteratorFits
<1>7. ToSet(data') = {}
  BY <1>1 DEF ToSet
<1> QED
  BY <1>1, <1>4, <1>5, <1>6, <1>7 DEF ArrayInv

\* What is left when one entry goes.
LEMMA OneLess ==
    ASSUME NEW s \in Seq(Entry), IsInjective(s), NEW i \in 1 .. Len(s)
    PROVE  /\ RemoveAt(s, i) \in Seq(Entry) /\ IsInjective(RemoveAt(s, i))
           /\ ToSet(RemoveAt(s, i)) = ToSet(s) \ {s[i]}
           /\ s[i] \in ToSet(s)
           /\ InOrder(s) => InOrder(RemoveAt(s, i))
           /\ KeysUnique(s) => KeysUnique(RemoveAt(s, i))
<1>1. /\ RemoveAt(s, i) \in Seq(Entry)
      /\ Len(RemoveAt(s, i)) = Len(s) - 1
      /\ \A j \in 1 .. Len(s) - 1 : RemoveAt(s, i)[j] = IF j < i THEN s[j] ELSE s[j + 1]
  BY RemoveAtElements
<1>2. Range(RemoveAt(s, i)) = Range(s) \ {s[i]} /\ IsInjective(RemoveAt(s, i))
  BY RemoveAtRange
<1>3. \A t : ToSet(t) = Range(t)
  BY DEF ToSet, Range
<1>4. s[i] \in ToSet(s)
  BY LenProperties DEF ToSet
<1>5. /\ InOrder(s) => InOrder(RemoveAt(s, i))
      /\ KeysUnique(s) => KeysUnique(RemoveAt(s, i))
  BY RemovedKeepsKeys
<1> QED
  BY <1>1, <1>2, <1>3, <1>4, <1>5

\* A removal takes one entry from the store, or none.
LEMMA RemoveKeyStep ==
    ASSUME ArrayInv, NEW k \in Nat, RemoveKey(k)
    PROVE  /\ ArrayInv'
           /\ duplicates' = duplicates /\ unsorted' = unsorted /\ found' = NoEntry
           /\ \/ ToSet(data') = ToSet(data)
              \/ \E e \in ToSet(data) : ToSet(data') = ToSet(data) \ {e}
<1>1. found' = NoEntry
  BY DEF RemoveKey, NoResult
<1>2. PICK s \in Sorted :
        \/ Arrange(s)
        \/ /\ SearchExact(s, k) # 0
           /\ data' = RemoveAt(s, SearchExact(s, k))
           /\ dirty' = (dirty /\ ~Sorts)
           /\ Bump((IF Sorts THEN 1 ELSE 0) + RemoveBumps(s, SearchExact(s, k)))
           /\ duplicates' = duplicates /\ unsorted' = unsorted
  BY DEF RemoveKey
<1>3. CASE Arrange(s)
  BY <1>1, <1>3, ArrangeStep
<1>4. CASE ~Arrange(s)
  <2> DEFINE i == SearchExact(s, k)
             n == (IF Sorts THEN 1 ELSE 0) + RemoveBumps(s, i)
  <2>1. /\ i # 0
        /\ data' = RemoveAt(s, i)
        /\ dirty' = (dirty /\ ~Sorts)
        /\ Bump(n)
        /\ duplicates' = duplicates /\ unsorted' = unsorted
    BY <1>2, <1>4
  <2>2. /\ s \in Seq(Entry) /\ IsInjective(s) /\ ToSet(s) = ToSet(data)
        /\ ~unsorted => InOrder(s)
        /\ ~duplicates => KeysUnique(s)
        /\ ~Sorts => s = data
    BY SortedIs
  <2>3. i \in 1 .. Len(s)
    <3>1. \/ SearchExact(s, k) = 0 /\ Same(s, k) = {}
          \/ SearchExact(s, k) \in Same(s, k)
      BY <2>2, SearchExactFinds
    <3>2. i \in DOMAIN s
      BY <2>1, <3>1 DEF Same
    <3> QED
      BY <2>2, <3>2, LenProperties
  <2>4. ArrayTyped /\ IteratorFits
    BY DEF ArrayInv
  <2>5. n \in Nat /\ (n = 0 => ~Sorts /\ i = Len(s))
    BY DEF RemoveBumps
  <2> HIDE DEF i, n
  <2>6. /\ RemoveAt(s, i) \in Seq(Entry) /\ IsInjective(RemoveAt(s, i))
        /\ ToSet(RemoveAt(s, i)) = ToSet(s) \ {s[i]}
        /\ s[i] \in ToSet(s)
        /\ InOrder(s) => InOrder(RemoveAt(s, i))
        /\ KeysUnique(s) => KeysUnique(RemoveAt(s, i))
    BY <2>2, <2>3, OneLess
  <2>7. /\ lag' \in Int /\ lag' <= 1
        /\ n = 0 => lag' = lag
        /\ n > 0 /\ lag >= 0 => lag' = 1
        /\ lag >= 0 => lag' >= 0
        /\ view' = IF lag' = 1 THEN <<>> ELSE view
        /\ view' \in Seq(Entry)
        /\ pos' = pos /\ overtaken' = overtaken
    BY <2>1, <2>4, <2>5, BumpIs
  <2>8. ArrayTyped'
    <3>1. dirty' \in BOOLEAN
      BY <2>1, <2>4 DEF ArrayTyped
    <3>2. data' \in Seq(Entry)
      BY <2>1, <2>6
    <3> QED
      BY <2>1, <2>4, <2>7, <3>1, <3>2 DEF ArrayTyped
  <2>9. IsInjective(data') /\ (~duplicates => KeysUnique(data')) /\ (~unsorted => InOrder(data'))
    BY <2>1, <2>2, <2>6
  <2>10. EntriesOnce' /\ CleanInOrder'
    BY <2>1, <2>9 DEF EntriesOnce, CleanInOrder, IsInjective, KeysUnique, InOrder
  <2>11. IteratorFits'
    <3> SUFFICES ASSUME ~overtaken PROVE lag' >= 0 /\ (lag' = 0 /\ ~unsorted => ~dirty' /\ IsPrefix(data', view'))
      BY <2>1, <2>7 DEF IteratorFits
    <3>1. lag >= 0 /\ (lag = 0 /\ ~unsorted => ~dirty /\ IsPrefix(data, view))
      BY <2>4 DEF IteratorFits
    <3>2. CASE n > 0
      BY <2>7, <3>1, <3>2
    <3>3. CASE n = 0 /\ lag = 0 /\ ~unsorted
      <4>0. s = data /\ i = Len(s)
        BY <2>2, <2>5, <3>3
      <4>1. s = data /\ i = Len(s) /\ lag' = 0 /\ view' = view /\ ~dirty'
        <5>1. lag' = 0
          BY <2>7, <3>3
        <5>2. view' = view
          BY <2>7, <5>1
        <5>3. ~dirty'
          BY <2>1, <3>1, <3>3
        <5> QED
          BY <4>0, <5>1, <5>2, <5>3
      <4>2. data \in Seq(Entry) /\ view \in Seq(Entry) /\ data # <<>>
        BY <2>3, <2>4, <4>1 DEF ArrayTyped
      <4>3. IsPrefix(RemoveAt(data, Len(data)), view)
        BY <3>1, <3>3, <4>2, ShorterPrefix
      <4> QED
        BY <2>1, <4>1, <4>3
    <3>4. CASE n = 0 /\ ~(lag = 0 /\ ~unsorted)
      BY <2>7, <3>1, <3>4
    <3> QED
      BY <2>5, <3>2, <3>3, <3>4
  <2>12. \E e \in ToSet(data) : ToSet(data') = ToSet(data) \ {e}
    BY <2>1, <2>2, <2>6
  <2> QED
    BY <1>1, <2>1, <2>8, <2>10, <2>11, <2>12 DEF ArrayInv
<1> QED
  BY <1>3, <1>4

\* A list begins with itself.
LEMMA PrefixOfItself ==
    ASSUME NEW s \in Seq(Entry) PROVE IsPrefix(s, s)
<1>1. Len(s) <= Len(s) /\ \A i \in 1 .. Len(s) : s[i] = s[i]
  BY LenProperties
<1> QED
  BY <1>1, PrefixIs

\* An iterator that is reset sorts the array first.
LEMMA IterResetStep ==
    ASSUME ArrayInv, IterReset
    PROVE  /\ ArrayInv'
           /\ ToSet(data') = ToSet(data)
           /\ duplicates' = duplicates /\ unsorted' = unsorted /\ found' = NoEntry
<1>1. PICK s \in Sorted :
        /\ data' = s
        /\ dirty' = (dirty /\ ~Sorts)
        /\ pos' = 0 /\ lag' = 0 /\ view' = s /\ overtaken' = FALSE
        /\ found' = NoEntry
        /\ duplicates' = duplicates /\ unsorted' = unsorted
  BY DEF IterReset, NoResult
<1>2. /\ s \in Seq(Entry) /\ IsInjective(s) /\ ToSet(s) = ToSet(data)
      /\ ~unsorted => InOrder(s)
      /\ ~duplicates => KeysUnique(s)
  BY SortedIs
<1>3. ArrayTyped
  BY DEF ArrayInv
<1>4. ArrayTyped'
  <2>1. dirty' \in BOOLEAN
    BY <1>1, <1>3 DEF ArrayTyped
  <2> QED
    BY <1>1, <1>2, <1>3, <2>1 DEF ArrayTyped
<1>5. EntriesOnce' /\ CleanInOrder'
  BY <1>1, <1>2 DEF EntriesOnce, CleanInOrder, IsInjective, KeysUnique, InOrder
<1>6. IteratorFits'
  <2>1. IsPrefix(data', view')
    BY <1>1, <1>2, PrefixOfItself
  <2>2. ~unsorted => ~dirty'
    BY <1>1 DEF Sorts
  <2> QED
    BY <1>1, <2>1, <2>2 DEF IteratorFits
<1> QED
  BY <1>1, <1>2, <1>4, <1>5, <1>6 DEF ArrayInv

\* An iterator that goes on changes nothing.
LEMMA IterNextStep ==
    ASSUME ArrayInv, IterNext
    PROVE  /\ ArrayInv'
           /\ ToSet(data') = ToSet(data)
           /\ duplicates' = duplicates /\ unsorted' = unsorted /\ found' = NoEntry
<1>1. /\ pos' = pos + 1 /\ found' = NoEntry
      /\ data' = data /\ dirty' = dirty /\ duplicates' = duplicates /\ unsorted' = unsorted
      /\ lag' = lag /\ view' = view /\ overtaken' = overtaken
  BY DEF IterNext, NoResult, store
<1>2. pos' \in Int
  BY <1>1 DEF ArrayInv, ArrayTyped
<1> QED
  BY <1>1, <1>2 DEF ArrayInv, ArrayTyped, EntriesOnce, CleanInOrder, IteratorFits,
                    IsInjective, KeysUnique, InOrder

\* An iterator that removes takes one entry from the store.
LEMMA IterRemoveStep ==
    ASSUME ArrayInv, IterRemove
    PROVE  /\ ArrayInv'
           /\ duplicates' = duplicates /\ unsorted' = unsorted /\ found' = NoEntry
           /\ \E e \in ToSet(data) : ToSet(data') = ToSet(data) \ {e}
<1> DEFINE i == pos + 1
<1>1. /\ Current # NoEntry
      /\ data' = RemoveAt(data, i)
      /\ lag' = RemoveBumps(data, i) - 1
      /\ view' = RemoveAt(data, i)
      /\ overtaken' = (overtaken \/ i = Len(data))
      /\ pos' = pos - 1
      /\ found' = NoEntry
      /\ dirty' = dirty /\ duplicates' = duplicates /\ unsorted' = unsorted
  BY DEF IterRemove, NoResult
<1>2. ArrayTyped /\ EntriesOnce /\ CleanInOrder /\ IteratorFits
  BY DEF ArrayInv
<1>3. lag = 0 /\ i \in 1 .. Len(data)
  <2>1. lag = 0 /\ i \in DOMAIN data
    BY <1>1 DEF Current, InSync
  <2> QED
    BY <1>2, <2>1, LenProperties DEF ArrayTyped
<1> HIDE DEF i
<1>4. data \in Seq(Entry) /\ IsInjective(data)
  BY <1>2 DEF ArrayTyped, EntriesOnce
<1>5. /\ RemoveAt(data, i) \in Seq(Entry) /\ IsInjective(RemoveAt(data, i))
      /\ ToSet(RemoveAt(data, i)) = ToSet(data) \ {data[i]}
      /\ data[i] \in ToSet(data)
      /\ InOrder(data) => InOrder(RemoveAt(data, i))
      /\ KeysUnique(data) => KeysUnique(RemoveAt(data, i))
  BY <1>3, <1>4, OneLess
<1>6. lag' = IF i = Len(data) THEN -1 ELSE 0
  BY <1>1 DEF RemoveBumps
<1>7. ArrayTyped'
  <2>1. lag' \in Int /\ lag' <= 1 /\ pos' \in Int
    BY <1>1, <1>2, <1>6 DEF ArrayTyped
  <2> QED
    BY <1>1, <1>2, <1>5, <2>1 DEF ArrayTyped
<1>8. EntriesOnce' /\ CleanInOrder'
  <2>1. /\ ~duplicates => KeysUnique(data')
        /\ ~unsorted /\ ~dirty => InOrder(data')
        /\ IsInjective(data')
    BY <1>1, <1>2, <1>5 DEF EntriesOnce, CleanInOrder
  <2> QED
    BY <1>1, <2>1 DEF EntriesOnce, CleanInOrder, IsInjective, KeysUnique, InOrder
<1>9. IteratorFits'
  <2> SUFFICES ASSUME ~overtaken, i # Len(data)
               PROVE  lag' >= 0 /\ (lag' = 0 /\ ~unsorted => ~dirty' /\ IsPrefix(data', view'))
    BY <1>1 DEF IteratorFits
  <2>1. lag' = 0
    BY <1>6
  <2>2. ~unsorted => ~dirty
    BY <1>2, <1>3 DEF IteratorFits
  <2>3. IsPrefix(data', view')
    BY <1>1, <1>5, PrefixOfItself
  <2> QED
    BY <1>1, <2>1, <2>2, <2>3
<1>10. \E e \in ToSet(data) : ToSet(data') = ToSet(data) \ {e}
  BY <1>1, <1>5
<1> QED
  BY <1>1, <1>7, <1>8, <1>9, <1>10 DEF ArrayInv

\* What the initial state keeps, and every step of the program.
LEMMA ArrayStarts == ArrayInit => ArrayInv /\ Store!Init
<1> SUFFICES ASSUME ArrayInit PROVE ArrayInv /\ Store!Init
  OBVIOUS
<1>1. /\ data = <<>> /\ dirty = FALSE /\ duplicates = FALSE /\ unsorted = FALSE
      /\ pos = 0 /\ lag = 1 /\ view = <<>> /\ overtaken = FALSE /\ found = NoEntry
  BY DEF ArrayInit
<1>2. data \in Seq(Entry) /\ view \in Seq(Entry) /\ ToSet(data) = {}
  BY <1>1 DEF ToSet
<1>3. ArrayTyped
  <2>1. dirty \in BOOLEAN /\ duplicates \in BOOLEAN /\ unsorted \in BOOLEAN
    BY <1>1
  <2>2. lag \in Int /\ lag <= 1 /\ pos \in Int
    BY <1>1
  <2> QED
    BY <1>2, <2>1, <2>2 DEF ArrayTyped
<1>4. EntriesOnce /\ CleanInOrder /\ IteratorFits
  BY <1>1 DEF EntriesOnce, CleanInOrder, IteratorFits, IsInjective, KeysUnique, InOrder
<1>5. Store!Init
  BY <1>1, <1>2 DEF Store!Init
<1> QED
  BY <1>3, <1>4, <1>5 DEF ArrayInv

\* The set of entries after a step without an effect on it.
LEMMA StoreSilent ==
    ASSUME ToSet(data') = ToSet(data), duplicates' = duplicates, unsorted' = unsorted, found' = NoEntry
    PROVE  Store!Next
<1>1. Store!NoEffect
  BY DEF Store!NoEffect, Store!Silent
<1> QED
  BY <1>1 DEF Store!Next

\* Taking one entry is a step of the store.
LEMMA StoreTakes ==
    ASSUME NEW e \in Entry, e \in ToSet(data), ToSet(data') = ToSet(data) \ {e},
           duplicates' = duplicates, unsorted' = unsorted, found' = NoEntry
    PROVE  Store!Next
<1>1. Store!Take(e)
  BY DEF Store!Take, Store!Silent
<1> QED
  BY <1>1 DEF Store!Next

\* An answer from a set of entries.
LEMMA StoreAnswers ==
    ASSUME NEW query, NEW k, NEW S, NEW r, Asked(query, k, r), r \in IF S = {} THEN {NoEntry} ELSE S,
           ToSet(data') = ToSet(data), duplicates' = duplicates, unsorted' = unsorted
    PROVE  Store!Answer(query, k, S)
<1> DEFINE R == IF S = {} THEN {NoEntry} ELSE S
<1>1. found' = [query |-> query, key |-> k, entry |-> r] /\ r \in R
  BY DEF Asked
<1> HIDE DEF R
<1>2. found' \in [query : {query}, key : {k}, entry : R]
  BY <1>1
<1> QED
  BY <1>2 DEF Store!Answer, R

\* What is in the array is an entry.
LEMMA EntriesTyped == ASSUME ArrayInv, NEW e \in ToSet(data) PROVE e \in Entry /\ e.key \in Nat
<1>1. data \in Seq(Entry)
  BY DEF ArrayInv, ArrayTyped
<1>2. e \in Entry
  BY <1>1, LenProperties DEF ToSet
<1> QED
  BY <1>2, ArrayAssumption

\* Every operation leaves an array that is sound, and is an operation of a keyed store.
LEMMA ArrayStep == ArrayInv /\ [ArrayNext]_arrayVars => ArrayInv' /\ [Store!Next]_(Store!vars)
<1> SUFFICES ASSUME ArrayInv, [ArrayNext]_arrayVars PROVE ArrayInv' /\ [Store!Next]_(Store!vars)
  OBVIOUS
<1>1. CASE SetOptions
  <2>1. /\ ArrayInv'
        /\ data = <<>> /\ data' = <<>>
        /\ duplicates' \in BOOLEAN /\ unsorted' \in BOOLEAN /\ found' = NoEntry
    BY <1>1, OptionsStep
  <2>2. ToSet(data) = {} /\ ToSet(data') = {}
    BY <2>1 DEF ToSet
  <2>3. (~duplicates)' \in BOOLEAN /\ (~unsorted)' \in BOOLEAN
    OBVIOUS
  <2>4. Store!Configure
    BY <2>1, <2>2, <2>3 DEF Store!Configure, Store!Silent
  <2> QED
    BY <2>1, <2>4 DEF Store!Next
<1>2. ASSUME NEW e \in Entry, Insert(e) PROVE ArrayInv' /\ Store!Next
  <2>1. /\ ArrayInv'
        /\ ~duplicates => \A f \in ToSet(data) : f.key # e.key
        /\ ToSet(data') = ToSet(data) \cup {e}
        /\ duplicates' = duplicates /\ unsorted' = unsorted /\ found' = NoEntry
    BY <1>2, InsertStoreStep
  <2>2. Store!Put(e)
    BY <2>1 DEF Store!Put, Store!WithKey, Store!Silent
  <2> QED
    BY <2>1, <2>2 DEF Store!Next
<1>3. ASSUME NEW e \in Entry, InsertRefused(e) \/ InsertNoMemory(e) PROVE ArrayInv' /\ Store!Next
  BY <1>3, InsertRefusedStep, StoreSilent
<1>4. ASSUME NEW k \in Keys, FindExact(k) PROVE ArrayInv' /\ Store!Next
  <2>1. PICK e \in Entry : k = e.key
    BY DEF Keys
  <2>2. k \in Nat
    BY <2>1, ArrayAssumption
  <2>3. /\ ArrayInv'
        /\ ToSet(data') = ToSet(data)
        /\ duplicates' = duplicates /\ unsorted' = unsorted
        /\ \E r : /\ Asked("find", k, r)
                  /\ \/ r = NoEntry /\ \A f \in ToSet(data) : f.key # k
                     \/ r \in ToSet(data) /\ r.key = k
    BY <1>4, <2>2, FindExactStep
  <2>4. PICK r : /\ Asked("find", k, r)
                 /\ \/ r = NoEntry /\ \A f \in ToSet(data) : f.key # k
                    \/ r \in ToSet(data) /\ r.key = k
    BY <2>3
  <2> DEFINE S == {f \in ToSet(data) : f.key = k}
  <2>5. r \in IF S = {} THEN {NoEntry} ELSE S
    BY <2>4
  <2> HIDE DEF S
  <2>6. Store!Answer("find", k, S)
    BY <2>3, <2>4, <2>5, StoreAnswers
  <2>7. Store!Find(e.key)
    BY <2>1, <2>6 DEF Store!Find, Store!WithKey, S
  <2> QED
    BY <2>3, <2>7 DEF Store!Next
<1>5. ASSUME NEW k \in Keys, FindAfter(k) PROVE ArrayInv' /\ Store!Next
  <2>1. PICK e \in Entry : k = e.key
    BY DEF Keys
  <2>2. k \in Nat
    BY <2>1, ArrayAssumption
  <2>3. /\ ArrayInv'
        /\ ToSet(data') = ToSet(data)
        /\ duplicates' = duplicates /\ unsorted' = unsorted
        /\ \E r : /\ Asked("find next", k, r)
                  /\ \/ r = NoEntry /\ (unsorted \/ \A f \in ToSet(data) : ~(f.key > k))
                     \/ /\ ~unsorted /\ r \in ToSet(data) /\ r.key > k
                        /\ \A f \in ToSet(data) : f.key > k => r.key <= f.key
    BY <1>5, <2>2, FindAfterStep
  <2>4. PICK r : /\ Asked("find next", k, r)
                 /\ \/ r = NoEntry /\ (unsorted \/ \A f \in ToSet(data) : ~(f.key > k))
                    \/ /\ ~unsorted /\ r \in ToSet(data) /\ r.key > k
                       /\ \A f \in ToSet(data) : f.key > k => r.key <= f.key
    BY <2>3
  <2> DEFINE A == {f \in ToSet(data) : f.key > k}
             L == {f \in A : \A g \in A : f.key <= g.key}
             S == IF ~unsorted THEN L ELSE {}
  <2>5. r \in IF S = {} THEN {NoEntry} ELSE S
    <3>1. CASE r = NoEntry /\ unsorted
      BY <3>1
    <3>2. CASE r = NoEntry /\ \A f \in ToSet(data) : ~(f.key > k)
      <4>1. A = {}
        BY <3>2
      <4> QED
        BY <3>2, <4>1
    <3>3. CASE /\ ~unsorted /\ r \in ToSet(data) /\ r.key > k
               /\ \A f \in ToSet(data) : f.key > k => r.key <= f.key
      <4>1. r \in L
        BY <3>3
      <4> HIDE DEF L
      <4> QED
        BY <3>3, <4>1
    <3> QED
      BY <2>4, <3>1, <3>2, <3>3
  <2> HIDE DEF S
  <2>6. Store!Answer("find next", k, S)
    BY <2>3, <2>4, <2>5, StoreAnswers
  <2>7. Store!FindNext(e.key)
    BY <2>1, <2>6 DEF Store!FindNext, Store!Above, Store!Least, S
  <2> QED
    BY <2>3, <2>7 DEF Store!Next
<1>6. ASSUME NEW k \in Keys, RemoveKey(k) PROVE ArrayInv' /\ Store!Next
  <2>1. k \in Nat
    BY ArrayAssumption DEF Keys
  <2>2. /\ ArrayInv'
        /\ duplicates' = duplicates /\ unsorted' = unsorted /\ found' = NoEntry
        /\ \/ ToSet(data') = ToSet(data)
           \/ \E e \in ToSet(data) : ToSet(data') = ToSet(data) \ {e}
    BY <1>6, <2>1, RemoveKeyStep
  <2> QED
    BY <2>2, StoreSilent, StoreTakes, EntriesTyped
<1>7. CASE FindFirst
  <2>1. /\ ArrayInv'
        /\ ToSet(data') = ToSet(data)
        /\ duplicates' = duplicates /\ unsorted' = unsorted
        /\ \E r : /\ Asked("first", 0, r)
                  /\ \/ r = NoEntry /\ ToSet(data) = {}
                     \/ /\ r \in ToSet(data)
                        /\ ~unsorted => \A e \in ToSet(data) : r.key <= e.key
    BY <1>7, FindFirstStep
  <2>2. PICK r : /\ Asked("first", 0, r)
                 /\ \/ r = NoEntry /\ ToSet(data) = {}
                    \/ /\ r \in ToSet(data)
                       /\ ~unsorted => \A e \in ToSet(data) : r.key <= e.key
    BY <2>1
  <2> DEFINE H == ToSet(data)
             L == {e \in H : \A f \in H : e.key <= f.key}
             S == IF ~unsorted THEN L ELSE H
  <2>3. r \in IF S = {} THEN {NoEntry} ELSE S
    <3> HIDE DEF H
    <3>1. CASE r = NoEntry /\ H = {}
      <4>1. S = {}
        BY <3>1
      <4> HIDE DEF S
      <4> QED
        BY <3>1, <4>1
    <3>2. CASE r \in H /\ (~unsorted => \A e \in H : r.key <= e.key)
      <4>1. r \in S
        BY <3>2
      <4> HIDE DEF S
      <4> QED
        BY <4>1
    <3> QED
      BY <2>2, <3>1, <3>2 DEF H
  <2> HIDE DEF S
  <2>4. Store!Answer("first", 0, S)
    BY <2>1, <2>2, <2>3, StoreAnswers
  <2>5. Store!First
    BY <2>4 DEF Store!First, Store!Least, S
  <2> QED
    BY <2>1, <2>5 DEF Store!Next
<1>8. CASE ForEach
  BY <1>8, ForEachStep, StoreSilent
<1>9. CASE Clear
  <2>1. /\ ArrayInv'
        /\ ToSet(data') = {}
        /\ duplicates' = duplicates /\ unsorted' = unsorted /\ found' = NoEntry
    BY <1>9, ClearArrayStep
  <2>2. Store!Empty
    BY <2>1 DEF Store!Empty, Store!Silent
  <2> QED
    BY <2>1, <2>2 DEF Store!Next
<1>10. CASE IterReset
  BY <1>10, IterResetStep, StoreSilent
<1>11. CASE IterNext
  BY <1>11, IterNextStep, StoreSilent
<1>12. CASE IterRemove
  <2>1. /\ ArrayInv'
        /\ duplicates' = duplicates /\ unsorted' = unsorted /\ found' = NoEntry
        /\ \E e \in ToSet(data) : ToSet(data') = ToSet(data) \ {e}
    BY <1>12, IterRemoveStep
  <2> QED
    BY <2>1, StoreTakes, EntriesTyped
<1>13. CASE UNCHANGED arrayVars
  <2>1. UNCHANGED <<store, iterator>> /\ found' = found
    BY <1>13 DEF arrayVars
  <2>2. ArrayInv' /\ ToSet(data') = ToSet(data) /\ duplicates' = duplicates /\ unsorted' = unsorted
    BY <2>1, UntouchedStep
  <2>3. UNCHANGED Store!vars
    BY <2>1, <2>2 DEF Store!vars
  <2> QED
    BY <2>2, <2>3
<1> QED
  BY <1>1, <1>2, <1>3, <1>4, <1>5, <1>6, <1>7, <1>8, <1>9, <1>10, <1>11, <1>12, <1>13 DEF ArrayNext

\* What the array hands out is sound in every state that is.
LEMMA ArraySound == ArrayInv => SubsetExact /\ IteratorSound
<1> SUFFICES ASSUME ArrayInv PROVE SubsetExact /\ IteratorSound
  OBVIOUS
<1>1. IteratorSound
  BY DEF IteratorSound, InSync, ArrayInv, IteratorFits
<1>2. ASSUME ~unsorted, ~dirty, NEW k \in Keys
      PROVE  ToSet(Subset(data, Prefix(k))) = {e \in ToSet(data) : Prefix(e.key) = Prefix(k)}
  <2>1. data \in Seq(Entry) /\ InOrder(data)
    BY <1>2 DEF ArrayInv, ArrayTyped, CleanInOrder
  <2>2. Prefix(k) \in Nat
    BY ArrayAssumption, PrefixUp DEF Keys
  <2> QED
    BY <2>1, <2>2, SubsetIs
<1>3. SubsetExact
  BY <1>2 DEF SubsetExact
<1> QED
  BY <1>1, <1>3

\* The array is always sound: nothing is stored twice, what is not marked as dirty is in
\* order, keys are single where they have to be, and an iterator that counted right is
\* in sync with what it has seen.
THEOREM ArrayInvariance == ArraySpec => []ArrayInv
<1>1. ArrayInit => ArrayInv
  BY ArrayStarts
<1>2. ArrayInv /\ [ArrayNext]_arrayVars => ArrayInv'
  BY ArrayStep
<1> QED
  BY <1>1, <1>2, PTL DEF ArraySpec

\* The array implements a keyed store: sorting late, searching by halves and moving entries
\* about cannot be told from a set of entries.
THEOREM BinaryArrayImplements == ArraySpec => ImplementsStore
<1>1. ArrayInit => Store!Init
  BY ArrayStarts
<1>2. ArrayInv /\ [ArrayNext]_arrayVars => [Store!Next]_(Store!vars)
  BY ArrayStep
<1> QED
  BY <1>1, <1>2, ArrayInvariance, PTL DEF ArraySpec, ImplementsStore, Store!Spec

-----------------------------------------------------------------------------
(* The quicksort: what it does to an array of any length.                   *)

\* The ranges follow each other within l .. h, and none is of one entry only.
Ascending(s, l, h) ==
    /\ s \in Seq(Int \X Int)
    /\ \A i \in 1 .. Len(s) : l <= s[i][1] /\ s[i][1] < s[i][2] /\ s[i][2] <= h
    /\ \A i, j \in 1 .. Len(s) : i < j => s[i][2] < s[j][1]

\* One of the ranges holds both places.
Cover(s, x, y) == \E i \in 1 .. Len(s) : s[i][1] <= x /\ y <= s[i][2]

\* No ranges, and nothing in them.
LEMMA AscendingNone ==
    ASSUME NEW l \in Int, NEW h \in Int
    PROVE  Ascending(<<>>, l, h) /\ \A x, y : ~Cover(<<>>, x, y)
<1>1. <<>> \in Seq(Int \X Int) /\ Len(<<>>) = 0
  OBVIOUS
<1> QED
  BY <1>1 DEF Ascending, Cover

\* One range, and what is in it.
LEMMA AscendingOne ==
    ASSUME NEW l \in Int, NEW h \in Int, l < h
    PROVE  /\ Ascending(<<<<l, h>>>>, l, h)
           /\ \A x, y : Cover(<<<<l, h>>>>, x, y) <=> l <= x /\ y <= h
<1> DEFINE r == <<l, h>>
           s == <<r>>
<1>1. r \in Int \X Int /\ r[1] = l /\ r[2] = h
  OBVIOUS
<1> HIDE DEF r
<1>2. s \in Seq(Int \X Int) /\ Len(s) = 1 /\ s[1] = r
  BY <1>1
<1> HIDE DEF s
<1>3. Ascending(s, l, h)
  BY <1>1, <1>2 DEF Ascending
<1>4. \A x, y : Cover(s, x, y) <=> l <= x /\ y <= h
  BY <1>1, <1>2 DEF Cover
<1> QED
  BY <1>3, <1>4 DEF s, r

\* Ranges that lie behind others.
LEMMA AscendingJoin ==
    ASSUME NEW s, NEW t, NEW l \in Int, NEW m \in Int, NEW k \in Int, NEW h \in Int,
           Ascending(s, l, m), Ascending(t, k, h), m < k, l <= k, m <= h
    PROVE  /\ Ascending(s \o t, l, h)
           /\ \A x, y : Cover(s \o t, x, y) <=> Cover(s, x, y) \/ Cover(t, x, y)
<1> DEFINE u == s \o t
           M == Len(s)
           N == Len(t)
<1>1. /\ s \in Seq(Int \X Int) /\ t \in Seq(Int \X Int) /\ M \in Nat /\ N \in Nat
      /\ \A i \in 1 .. M : s[i][1] \in Int /\ s[i][2] \in Int
      /\ \A i \in 1 .. N : t[i][1] \in Int /\ t[i][2] \in Int
  <2>1. s \in Seq(Int \X Int) /\ t \in Seq(Int \X Int)
    BY DEF Ascending
  <2>2. /\ M \in Nat /\ N \in Nat
        /\ \A i \in 1 .. M : s[i] \in Int \X Int
        /\ \A i \in 1 .. N : t[i] \in Int \X Int
    BY <2>1, LenProperties
  <2> QED
    BY <2>1, <2>2
<1>2. u \in Seq(Int \X Int) /\ Len(u) = M + N
      /\ \A i \in 1 .. M + N : u[i] = IF i <= M THEN s[i] ELSE t[i - M]
  BY <1>1, ConcatProperties
<1> HIDE DEF u, M, N
<1>3. /\ \A i \in 1 .. M : u[i] = s[i] /\ i \in 1 .. M + N
      /\ \A i \in 1 .. N : u[i + M] = t[i] /\ i + M \in 1 .. M + N
      /\ \A i \in 1 .. M + N : i \in 1 .. M \/ (i - M \in 1 .. N /\ u[i] = t[i - M])
  <2>1. \A i \in 1 .. N : i + M \in 1 .. M + N /\ ~(i + M <= M) /\ (i + M) - M = i
    BY <1>1
  <2>2. \A i \in 1 .. M : i <= M /\ i \in 1 .. M + N
    BY <1>1
  <2>3. \A i \in 1 .. M + N : i \in 1 .. M \/ (i - M \in 1 .. N /\ ~(i <= M))
    BY <1>1
  <2> QED
    BY <1>2, <2>1, <2>2, <2>3
<1>4. /\ \A i \in 1 .. M : l <= s[i][1] /\ s[i][1] < s[i][2] /\ s[i][2] <= m
      /\ \A i, j \in 1 .. M : i < j => s[i][2] < s[j][1]
      /\ \A i \in 1 .. N : k <= t[i][1] /\ t[i][1] < t[i][2] /\ t[i][2] <= h
      /\ \A i, j \in 1 .. N : i < j => t[i][2] < t[j][1]
  BY DEF Ascending, M, N
<1>5. ASSUME NEW i \in 1 .. M + N PROVE l <= u[i][1] /\ u[i][1] < u[i][2] /\ u[i][2] <= h
  <2>1. CASE i \in 1 .. M
    BY <1>1, <1>3, <1>4, <2>1, SMTT(30)
  <2>2. CASE i - M \in 1 .. N /\ u[i] = t[i - M]
    <3>1. k <= u[i][1] /\ u[i][1] < u[i][2] /\ u[i][2] <= h /\ u[i][1] \in Int
      BY <1>1, <1>4, <2>2
    <3> QED
      BY <3>1
  <2> QED
    BY <1>3, <2>1, <2>2
<1>6. ASSUME NEW i \in 1 .. M + N, NEW j \in 1 .. M + N, i < j PROVE u[i][2] < u[j][1]
  <2>1. CASE i \in 1 .. M /\ j \in 1 .. M
    BY <1>3, <1>4, <1>6, <2>1
  <2>2. CASE i \in 1 .. M /\ j - M \in 1 .. N /\ u[j] = t[j - M]
    <3>1. u[i] = s[i]
      BY <1>3, <2>2
    <3>2. u[i][2] \in Int /\ u[j][1] \in Int /\ u[i][2] <= m /\ k <= u[j][1]
      BY <1>1, <1>4, <2>2, <3>1
    <3> QED
      BY <3>2
  <2>3. CASE i - M \in 1 .. N /\ u[i] = t[i - M] /\ j - M \in 1 .. N /\ u[j] = t[j - M]
    <3>1. i - M < j - M
      BY <1>1, <1>6
    <3> QED
      BY <1>4, <2>3, <3>1
  <2>4. ~(i - M \in 1 .. N /\ j \in 1 .. M)
    BY <1>1, <1>6
  <2> QED
    BY <1>3, <2>1, <2>2, <2>3, <2>4
<1>7. Ascending(u, l, h)
  BY <1>2, <1>5, <1>6 DEF Ascending
<1>8. ASSUME NEW x, NEW y PROVE Cover(u, x, y) <=> Cover(s, x, y) \/ Cover(t, x, y)
  <2>1. Cover(u, x, y) <=> \E i \in 1 .. M + N : u[i][1] <= x /\ y <= u[i][2]
    BY <1>2 DEF Cover
  <2>2. Cover(s, x, y) <=> \E i \in 1 .. M : s[i][1] <= x /\ y <= s[i][2]
    BY DEF Cover, M
  <2>3. Cover(t, x, y) <=> \E i \in 1 .. N : t[i][1] <= x /\ y <= t[i][2]
    BY DEF Cover, N
  <2>4. ASSUME NEW i \in 1 .. M + N, u[i][1] <= x /\ y <= u[i][2]
        PROVE  Cover(s, x, y) \/ Cover(t, x, y)
    BY <1>3, <2>2, <2>3, <2>4
  <2>5. ASSUME NEW i \in 1 .. M, s[i][1] <= x /\ y <= s[i][2] PROVE Cover(u, x, y)
    BY <1>3, <2>1, <2>5
  <2>6. ASSUME NEW i \in 1 .. N, t[i][1] <= x /\ y <= t[i][2] PROVE Cover(u, x, y)
    BY <1>3, <2>1, <2>6
  <2> QED
    BY <2>1, <2>2, <2>3, <2>4, <2>5, <2>6
<1> QED
  BY <1>7, <1>8 DEF u

\* The first range, and those behind it.
LEMMA AscendingFirst ==
    ASSUME NEW s, NEW l \in Int, NEW h \in Int, Ascending(s, l, h), s # <<>>
    PROVE  /\ Head(s)[1] \in Int /\ Head(s)[2] \in Int
           /\ l <= Head(s)[1] /\ Head(s)[1] < Head(s)[2] /\ Head(s)[2] <= h
           /\ Ascending(Tail(s), Head(s)[2] + 1, h)
           /\ \A x, y : Cover(s, x, y) <=> (Head(s)[1] <= x /\ y <= Head(s)[2]) \/ Cover(Tail(s), x, y)
<1> DEFINE r == Head(s)
           t == Tail(s)
           n == Len(s)
<1>1. s \in Seq(Int \X Int)
  BY DEF Ascending
<1>2. n \in Nat /\ n # 0 /\ \A i \in 1 .. n : s[i] \in Int \X Int
  BY <1>1, LenProperties, EmptySeq
<1>3. /\ r = s[1] /\ t \in Seq(Int \X Int) /\ Len(t) = n - 1
      /\ \A i \in 1 .. n - 1 : t[i] = s[i + 1]
  BY <1>1, <1>2, HeadTailProperties
<1>4. /\ \A i \in 1 .. n : l <= s[i][1] /\ s[i][1] < s[i][2] /\ s[i][2] <= h
      /\ \A i, j \in 1 .. n : i < j => s[i][2] < s[j][1]
  BY DEF Ascending
<1>5. /\ \A i \in 1 .. n : s[i][1] \in Int /\ s[i][2] \in Int
      /\ 1 \in 1 .. n
      /\ \A i \in 1 .. n - 1 : i + 1 \in 1 .. n /\ 1 < i + 1
      /\ \A i \in 1 .. n : i = 1 \/ (i - 1 \in 1 .. n - 1 /\ (i - 1) + 1 = i)
  BY <1>2
<1> HIDE DEF r, t, n
<1>6. r[1] \in Int /\ r[2] \in Int /\ l <= r[1] /\ r[1] < r[2] /\ r[2] <= h
  BY <1>3, <1>4, <1>5
<1>7. ASSUME NEW i \in 1 .. n - 1
      PROVE  r[2] + 1 <= t[i][1] /\ t[i][1] < t[i][2] /\ t[i][2] <= h
  <2>1. t[i] = s[i + 1] /\ i + 1 \in 1 .. n /\ 1 < i + 1
    BY <1>3, <1>5
  <2>2. r[2] < s[i + 1][1]
    BY <1>3, <1>4, <1>5, <2>1
  <2>3. r[2] + 1 <= s[i + 1][1]
    BY <1>5, <1>6, <2>1, <2>2
  <2> QED
    BY <1>4, <2>1, <2>3
<1>8. ASSUME NEW i \in 1 .. n - 1, NEW j \in 1 .. n - 1, i < j PROVE t[i][2] < t[j][1]
  <2>1. t[i] = s[i + 1] /\ t[j] = s[j + 1]
    BY <1>3
  <2>2. i + 1 \in 1 .. n /\ j + 1 \in 1 .. n
    BY <1>5
  <2>3. i + 1 < j + 1
    BY <1>2, <1>8
  <2> QED
    BY <1>4, <2>1, <2>2, <2>3
<1>9. Ascending(t, r[2] + 1, h)
  BY <1>3, <1>7, <1>8 DEF Ascending
<1>10. ASSUME NEW x, NEW y PROVE Cover(s, x, y) <=> (r[1] <= x /\ y <= r[2]) \/ Cover(t, x, y)
  <2>1. Cover(s, x, y) <=> \E i \in 1 .. n : s[i][1] <= x /\ y <= s[i][2]
    BY DEF Cover, n
  <2>2. Cover(t, x, y) <=> \E i \in 1 .. n - 1 : t[i][1] <= x /\ y <= t[i][2]
    BY <1>3 DEF Cover
  <2>3. ASSUME NEW i \in 1 .. n, s[i][1] <= x /\ y <= s[i][2]
        PROVE  (r[1] <= x /\ y <= r[2]) \/ Cover(t, x, y)
    <3>1. CASE i = 1
      BY <1>3, <2>3, <3>1
    <3>2. CASE i - 1 \in 1 .. n - 1 /\ (i - 1) + 1 = i
      <4>1. t[i - 1] = s[i]
        BY <1>3, <3>2
      <4> QED
        BY <2>2, <2>3, <3>2, <4>1
    <3> QED
      BY <1>5, <3>1, <3>2
  <2>4. ASSUME r[1] <= x /\ y <= r[2] PROVE Cover(s, x, y)
    BY <1>3, <1>5, <2>1, <2>4
  <2>5. ASSUME NEW i \in 1 .. n - 1, t[i][1] <= x /\ y <= t[i][2] PROVE Cover(s, x, y)
    BY <1>3, <1>5, <2>1, <2>5
  <2> QED
    BY <2>1, <2>2, <2>3, <2>4, <2>5
<1> QED
  BY <1>6, <1>9, <1>10 DEF r, t

-----------------------------------------------------------------------------
(* The invariant of the quicksort.                                          *)

\* Both places are in a range that is still to be sorted.
Pending(x, y) ==
    \/ Cover(ranges, x, y)
    \/ stage = "loop" /\ low <= x /\ y <= high
    \/ stage = "recurse" /\ ((low <= x /\ y <= jDown) \/ (iUp <= x /\ y <= high))

SortTyped ==
    /\ stage \in {"idle", "loop", "recurse", "return", "sorted"}
    /\ input \in Seq(SortKeys) /\ array \in Seq(SortKeys) /\ Len(array) = Len(input)
    /\ low \in Int /\ high \in Int /\ iUp \in Int /\ jDown \in Int /\ mid \in Int

\* The running call sorts a range in front of those to come.
RangesFollow ==
    /\ stage = "return" => Ascending(ranges, 1, Len(array))
    /\ stage \in {"loop", "recurse"} =>
         /\ 1 <= low /\ low < high /\ high <= Len(array)
         /\ Ascending(ranges, high + 1, Len(array))
    /\ stage \in {"idle", "sorted"} => ranges = <<>>

\* What lies to the left of iUp is not above mid, what lies to the right of jDown not below,
\* and each inner loop meets an entry that stops it before the end of the range.
Partitioned ==
    /\ stage \in {"loop", "recurse"} =>
         /\ low <= iUp /\ iUp <= high + 1 /\ low - 1 <= jDown /\ jDown <= high
         /\ \A x \in low .. iUp - 1 : array[x] <= mid
         /\ \A x \in jDown + 1 .. high : array[x] >= mid
    /\ stage = "loop" =>
         /\ iUp <= jDown
         /\ \E x \in iUp .. high : array[x] >= mid
         /\ \E x \in low .. jDown : array[x] <= mid
    /\ stage = "recurse" => jDown < iUp

\* Two places are in order, unless they are in a range still to be sorted.
RestInOrder ==
    stage # "idle" => \A x, y \in 1 .. Len(array) : x < y => array[x] <= array[y] \/ Pending(x, y)

\* Nothing is lost.
SameCounts == \A k \in SortKeys : Count(array, k) = Count(input, k)

SortInv == SortTyped /\ RangesFollow /\ Partitioned /\ RestInOrder /\ SameCounts

\* The first place of a range that is in a set.
LEMMA FirstOf ==
    ASSUME NEW G, NEW l \in Nat, NEW h \in Nat, \E x \in l .. h : x \in G
    PROVE  \E a \in l .. h : a \in G /\ \A b \in l .. a - 1 : b \notin G
<1> DEFINE I == {x \in l .. h : x \in G}
<1>1. I \in SUBSET Nat /\ I # {}
  OBVIOUS
<1>2. Min(I) \in I /\ \A j \in I : Min(I) <= j
  BY <1>1, LeastOf
<1>3. PICK a \in I : \A j \in I : a <= j
  BY <1>2
<1>4. ASSUME NEW b \in l .. a - 1 PROVE b \notin G
  <2>1. b \in l .. h /\ ~(a <= b)
    OBVIOUS
  <2> QED
    BY <1>3, <2>1
<1> QED
  BY <1>3, <1>4

\* The last one.
LEMMA LastOf ==
    ASSUME NEW G, NEW l \in Nat, NEW h \in Nat, \E x \in l .. h : x \in G
    PROVE  \E a \in l .. h : a \in G /\ \A b \in a + 1 .. h : b \notin G
<1> DEFINE J == {x \in 0 .. h - l : h - x \in G}
<1>1. PICK x \in l .. h : x \in G
  OBVIOUS
<1>2. J \in SUBSET Nat /\ J # {}
  <2>1. h - x \in 0 .. h - l /\ h - (h - x) = x
    OBVIOUS
  <2>2. h - x \in J
    BY <1>1, <2>1
  <2> QED
    BY <2>2
<1>3. Min(J) \in J /\ \A j \in J : Min(J) <= j
  BY <1>2, LeastOf
<1>4. PICK c \in J : \A j \in J : c <= j
  BY <1>3
<1> DEFINE a == h - c
<1>5. a \in l .. h /\ a \in G
  BY <1>4
<1>6. ASSUME NEW b \in a + 1 .. h PROVE b \notin G
  <2>1. h - b \in 0 .. h - l /\ ~(c <= h - b) /\ h - (h - b) = b
    BY <1>4, <1>5
  <2> QED
    BY <1>4, <2>1
<1> QED
  BY <1>5, <1>6

\* Two entries change places.
LEMMA SwappedIs ==
    ASSUME NEW S, NEW s \in Seq(S), NEW a \in 1 .. Len(s), NEW b \in 1 .. Len(s)
    PROVE  LET t == [s EXCEPT ![a] = s[b], ![b] = s[a]]
           IN  /\ t \in Seq(S) /\ Len(t) = Len(s)
               /\ t[a] = s[b] /\ t[b] = s[a]
               /\ \A x \in 1 .. Len(s) : x # a /\ x # b => t[x] = s[x]
<1> DEFINE t == [s EXCEPT ![a] = s[b], ![b] = s[a]]
           n == Len(s)
<1>1. n \in Nat /\ s \in [1 .. n -> S]
  BY LenProperties
<1> HIDE DEF n
<1>2. t \in [1 .. n -> S]
  BY <1>1 DEF n
<1>3. t \in Seq(S) /\ Len(t) = n
  <2>1. t \in Seq(S)
    BY <1>1, <1>2, SeqDef
  <2> QED
    BY <1>1, <1>2, <2>1, LenProperties
<1>4. t[a] = s[b] /\ t[b] = s[a] /\ \A x \in 1 .. n : x # a /\ x # b => t[x] = s[x]
  BY <1>1 DEF n
<1> QED
  BY <1>3, <1>4 DEF n

\* The places of an entry are as many afterwards.
LEMMA SwappedCounts ==
    ASSUME NEW S, NEW s \in Seq(S), NEW a \in 1 .. Len(s), NEW b \in 1 .. Len(s), NEW k
    PROVE  Count([s EXCEPT ![a] = s[b], ![b] = s[a]], k) = Count(s, k)
<1> DEFINE t == [s EXCEPT ![a] = s[b], ![b] = s[a]]
           n == Len(s)
           A == {x \in 1 .. n : s[x] = k}
           B == {x \in 1 .. n : t[x] = k}
           other == [x \in 1 .. n |-> IF x = a THEN b ELSE IF x = b THEN a ELSE x]
           f == [x \in A |-> other[x]]
<1>1. n \in Nat /\ DOMAIN s = 1 .. n
  BY LenProperties
<1>2. /\ DOMAIN t = 1 .. n
      /\ t[a] = s[b] /\ t[b] = s[a] /\ \A x \in 1 .. n : x # a /\ x # b => t[x] = s[x]
  BY <1>1, SwappedIs, LenProperties
<1> HIDE DEF t, n
<1>3. a \in 1 .. n /\ b \in 1 .. n
  BY DEF n
<1>4. \A x \in 1 .. n : other[x] \in 1 .. n /\ other[other[x]] = x /\ t[other[x]] = s[x] /\ s[other[x]] = t[x]
  <2>1. \A x \in 1 .. n : other[x] = IF x = a THEN b ELSE IF x = b THEN a ELSE x
    OBVIOUS
  <2> HIDE DEF other
  <2> QED
    BY <1>2, <1>3, <2>1
<1> HIDE DEF other
<1>5. f \in Bijection(A, B)
  <2>1. f \in [A -> B]
    BY <1>4
  <2>2. \A x, y \in A : f[x] = f[y] => x = y
    <3> TAKE x, y \in A
    <3>1. f[x] = other[x] /\ f[y] = other[y]
      OBVIOUS
    <3>2. other[other[x]] = x /\ other[other[y]] = y
      BY <1>4
    <3> QED
      BY <3>1, <3>2
  <2>3. \A y \in B : \E x \in A : f[x] = y
    <3> TAKE y \in B
    <3>1. other[y] \in A /\ other[other[y]] = y
      BY <1>4
    <3>2. f[other[y]] = y
      BY <3>1
    <3> QED
      BY <3>1, <3>2
  <2> QED
    BY <2>1, <2>2, <2>3 DEF Bijection, Injection, Surjection, IsInjective
<1>6. IsFiniteSet(A)
  <2>1. IsFiniteSet(1 .. n)
    BY <1>1, FS_Interval
  <2> QED
    BY <2>1, FS_Subset
<1>7. Cardinality(A) = Cardinality(B)
  <2> HIDE DEF f, A, B
  <2>1. ExistsBijection(A, B)
    BY <1>5 DEF ExistsBijection
  <2> QED
    BY <1>6, <2>1, FS_Bijection
<1>8. Count(s, k) = Cardinality(A) /\ Count(t, k) = Cardinality(B)
  BY <1>1, <1>2 DEF Count
<1> QED
  BY <1>7, <1>8 DEF t

\* What the ranges hold lies within their bounds.
LEMMA CoverWithin ==
    ASSUME NEW s, NEW l \in Int, NEW h \in Int, Ascending(s, l, h),
           NEW x \in Int, NEW y \in Int, Cover(s, x, y)
    PROVE  l <= x /\ y <= h
<1>1. PICK i \in 1 .. Len(s) : s[i][1] <= x /\ y <= s[i][2]
  BY DEF Cover
<1>2. s[i] \in Int \X Int
  BY LenProperties DEF Ascending
<1>3. l <= s[i][1] /\ s[i][2] <= h
  BY DEF Ascending
<1> QED
  BY <1>1, <1>2, <1>3

\* The bounds may be wider.
LEMMA AscendingWider ==
    ASSUME NEW s, NEW l \in Int, NEW h \in Int, Ascending(s, l, h),
           NEW k \in Int, NEW m \in Int, k <= l, h <= m
    PROVE  Ascending(s, k, m)
<1>1. \A i \in 1 .. Len(s) : s[i] \in Int \X Int
  BY LenProperties DEF Ascending
<1>2. \A i \in 1 .. Len(s) : s[i][1] \in Int /\ s[i][2] \in Int
  BY <1>1
<1>3. \A i \in 1 .. Len(s) : l <= s[i][1] /\ s[i][1] < s[i][2] /\ s[i][2] <= h
  BY DEF Ascending
<1>4. \A i \in 1 .. Len(s) : k <= s[i][1] /\ s[i][1] < s[i][2] /\ s[i][2] <= m
  BY <1>2, <1>3
<1> QED
  BY <1>4 DEF Ascending

\* Entries that move within a range in front of the others leave order what was in order.
LEMMA WithinStep ==
    ASSUME NEW s \in Seq(Int), NEW t \in Seq(Int), Len(t) = Len(s), NEW r,
           NEW l \in Int, NEW h \in Int, 1 <= l, l < h, h <= Len(s), Ascending(r, h + 1, Len(s)),
           \A x \in 1 .. Len(s) : x \notin l .. h => t[x] = s[x],
           \A x \in l .. h : \E y \in l .. h : t[x] = s[y],
           \A x, y \in 1 .. Len(s) : x < y => s[x] <= s[y] \/ Cover(r, x, y) \/ (l <= x /\ y <= h)
    PROVE  \A x, y \in 1 .. Len(s) : x < y => t[x] <= t[y] \/ Cover(r, x, y) \/ (l <= x /\ y <= h)
<1> DEFINE n == Len(s)
<1>1. n \in Nat
  BY LenProperties
<1>2. ASSUME NEW x \in 1 .. n, NEW y \in 1 .. n, Cover(r, x, y) PROVE h < x
  <2>1. h + 1 <= x
    BY <1>1, <1>2, CoverWithin
  <2> QED
    BY <2>1
<1> HIDE DEF n
<1> TAKE x, y \in 1 .. Len(s)
<1> HAVE x < y
<1>3. CASE x \in l .. h /\ y \notin l .. h
  <2>1. PICK z \in l .. h : t[x] = s[z]
    BY <1>3
  <2>2. z \in 1 .. n /\ z < y /\ ~(y <= h) /\ ~(h < z)
    <3>1. x \in 1 .. n /\ y \in 1 .. n
      BY DEF n
    <3>2. x \in Int /\ y \in Int /\ z \in Int /\ l <= x /\ l <= z /\ z <= h /\ x < y
      BY <1>1, <1>3, <3>1
    <3>3. h < y
      BY <1>1, <1>3, <3>1, <3>2
    <3> QED
      BY <1>1, <3>1, <3>2, <3>3, SMTT(30)
  <2>3. s[z] <= s[y]
    BY <1>2, <2>2 DEF n
  <2> QED
    BY <1>3, <2>1, <2>3
<1>4. CASE x \notin l .. h /\ y \in l .. h
  <2>1. PICK z \in l .. h : t[y] = s[z]
    BY <1>4
  <2>2. z \in 1 .. n /\ x < z /\ ~(l <= x) /\ ~(h < x)
    BY <1>1, <1>4, SMTT(30) DEF n
  <2>3. s[x] <= s[z]
    BY <1>2, <2>2 DEF n
  <2> QED
    BY <1>4, <2>1, <2>3
<1>5. CASE x \notin l .. h /\ y \notin l .. h
  BY <1>5
<1>6. CASE x \in l .. h /\ y \in l .. h
  BY <1>6
<1> QED
  BY <1>3, <1>4, <1>5, <1>6

\* The middle of a range is in it.
LEMMA MiddleWithin ==
    ASSUME NEW l \in Int, NEW h \in Int, 1 <= l, l < h
    PROVE  (l - 1 + h - 1) \div 2 + 1 \in l .. h
<1> DEFINE t == l - 1 + h - 1
           q == t \div 2
<1>1. t \in Nat /\ 2 * (l - 1) <= t /\ t < 2 * h
  OBVIOUS
<1> HIDE DEF t
<1>2. q \in Int /\ 2 * q <= t /\ t < 2 * q + 2
  BY <1>1
<1> HIDE DEF q
<1>3. l - 1 <= q /\ q < h
  BY <1>1, <1>2
<1> QED
  BY <1>3 DEF q, t

\* Keys are numbers.
LEMMA NumbersOnly ==
    ASSUME NEW s \in Seq(SortKeys)
    PROVE  /\ s \in Seq(Int)
           /\ Len(s) \in Nat /\ DOMAIN s = 1 .. Len(s)
           /\ \A x \in 1 .. Len(s) : s[x] \in SortKeys /\ s[x] \in Int
<1>1. SortKeys \subseteq Int
  BY SortAssumption
<1>2. Len(s) \in Nat /\ DOMAIN s = 1 .. Len(s) /\ \A x \in 1 .. Len(s) : s[x] \in SortKeys
  BY LenProperties
<1>3. s \in [1 .. Len(s) -> Int]
  BY <1>1, LenProperties
<1>4. s \in Seq(Int)
  BY <1>2, <1>3, SeqDef
<1> QED
  BY <1>1, <1>2, <1>4

\* The array, entry by entry.
LEMMA TypedFacts ==
    ASSUME SortTyped
    PROVE  /\ Len(array) \in Nat /\ DOMAIN array = 1 .. Len(array)
           /\ \A x \in 1 .. Len(array) : array[x] \in SortKeys /\ array[x] \in Int
           /\ array \in Seq(SortKeys) /\ array \in Seq(Int)
<1>1. array \in Seq(SortKeys)
  BY DEF SortTyped
<1> QED
  BY <1>1, NumbersOnly

\* Start.
LEMMA SortStarts == SortInv /\ Start => SortInv'
<1> SUFFICES ASSUME SortInv, Start PROVE SortInv'
  OBVIOUS
<1> USE DEF SortInv
<1>1. PICK n \in 2 .. MaxLength : \E s \in [1 .. n -> SortKeys] :
        input' = s /\ array' = s /\ ranges' = <<<<1, n>>>>
  BY DEF Start
<1>2. PICK s \in [1 .. n -> SortKeys] : input' = s /\ array' = s /\ ranges' = <<<<1, n>>>>
  BY <1>1
<1>3. n \in Nat /\ 1 < n
  BY SortAssumption
<1>4. s \in Seq(SortKeys)
  BY <1>3, SeqDef
<1>5. Len(s) = n
  BY <1>3, <1>4, LenProperties
<1>6. stage' = "return" /\ UNCHANGED <<low, high, iUp, jDown, mid>>
  BY DEF Start
<1>7. Ascending(ranges', 1, n) /\ \A x, y : Cover(ranges', x, y) <=> 1 <= x /\ y <= n
  <2>1. Ascending(<<<<1, n>>>>, 1, n) /\ \A x, y : Cover(<<<<1, n>>>>, x, y) <=> 1 <= x /\ y <= n
    <3>1. 1 \in Int /\ n \in Int /\ 1 < n
      BY <1>3
    <3> QED
      BY ONLY <3>1, AscendingOne, Zenon
  <2> QED
    BY <1>2, <2>1
<1>8. SortTyped'
  BY <1>2, <1>4, <1>6 DEF SortTyped
<1>9. RangesFollow' /\ Partitioned'
  BY <1>2, <1>5, <1>6, <1>7 DEF RangesFollow, Partitioned
<1>10. RestInOrder'
  <2>1. \A x, y \in 1 .. n : Pending(x, y)'
    BY <1>7 DEF Pending
  <2> QED
    BY <1>2, <1>5, <2>1 DEF RestInOrder
<1>11. SameCounts'
  BY <1>2 DEF SameCounts
<1> QED
  BY <1>8, <1>9, <1>10, <1>11

\* Call.
LEMMA SortCalls == SortInv /\ Call => SortInv'
<1> SUFFICES ASSUME SortInv, Call PROVE SortInv'
  OBVIOUS
<1> USE DEF SortInv
<1> DEFINE r == Head(ranges)
           N == Len(array)
<1>1. /\ stage = "return" /\ ranges # <<>>
      /\ low' = r[1] /\ high' = r[2] /\ iUp' = r[1] /\ jDown' = r[2]
      /\ mid' = array[(r[1] - 1 + r[2] - 1) \div 2 + 1]
      /\ ranges' = Tail(ranges) /\ stage' = "loop" /\ input' = input /\ array' = array
  BY DEF Call
<1>2. N \in Nat /\ \A x \in 1 .. N : array[x] \in Int
  BY TypedFacts
<1>3. Ascending(ranges, 1, N)
  BY <1>1 DEF RangesFollow
<1>4. /\ r[1] \in Int /\ r[2] \in Int /\ 1 <= r[1] /\ r[1] < r[2] /\ r[2] <= N
      /\ Ascending(Tail(ranges), r[2] + 1, N)
      /\ \A x, y : Cover(ranges, x, y) <=> (r[1] <= x /\ y <= r[2]) \/ Cover(Tail(ranges), x, y)
  BY <1>1, <1>2, <1>3, AscendingFirst
<1> DEFINE m == (r[1] - 1 + r[2] - 1) \div 2 + 1
<1> HIDE DEF r
<1>5. m \in r[1] .. r[2] /\ m \in 1 .. N
  <2>1. m \in r[1] .. r[2]
    BY <1>4, MiddleWithin
  <2> QED
    BY <1>2, <1>4, <2>1
<1>6. mid' = array[m] /\ mid' \in Int
  BY <1>1, <1>2, <1>5 DEF r
<1> HIDE DEF m
<1>7. SortTyped'
  BY <1>1, <1>4, <1>6 DEF SortTyped
<1>8. RangesFollow'
  BY <1>1, <1>4 DEF RangesFollow
<1>9. Partitioned'
  <2>1. array[m] >= mid' /\ array[m] <= mid'
    BY <1>6
  <2>2. /\ \E x \in r[1] .. r[2] : array[x] >= mid'
        /\ \E x \in r[1] .. r[2] : array[x] <= mid'
    BY <1>5, <2>1
  <2>3. r[1] .. r[1] - 1 = {} /\ r[2] + 1 .. r[2] = {}
    BY <1>4
  <2>4. r[1] <= r[1] /\ r[1] <= r[2] + 1 /\ r[1] - 1 <= r[2] /\ r[2] <= r[2] /\ r[1] <= r[2]
    BY <1>4
  <2> QED
    BY <1>1, <2>2, <2>3, <2>4 DEF Partitioned
<1>10. RestInOrder'
  <2>1. \A x, y : Pending(x, y) => Pending(x, y)'
    BY <1>1, <1>4 DEF Pending
  <2> QED
    BY <1>1, <2>1 DEF RestInOrder
<1>11. SameCounts'
  BY <1>1 DEF SameCounts
<1> QED
  BY <1>7, <1>8, <1>9, <1>10, <1>11

\* The first inner loop stops at an entry that is not below the pivot.
LEMMA UpStops ==
    ASSUME SortTyped, RangesFollow, Partitioned, stage = "loop"
    PROVE  /\ Up \in iUp .. high /\ array[Up] >= mid
           /\ \A x \in iUp .. Up - 1 : array[x] < mid
<1> DEFINE N == Len(array)
           G == {x \in 1 .. N : array[x] >= mid}
<1>1. N \in Nat /\ mid \in Int /\ \A x \in 1 .. N : array[x] \in Int
  BY TypedFacts DEF SortTyped
<1>2. iUp \in Int /\ high \in Int /\ 1 <= iUp /\ high <= N /\ iUp <= high
  BY DEF SortTyped, RangesFollow, Partitioned
<1>3. PICK p \in iUp .. high : array[p] >= mid
  BY DEF Partitioned
<1> HIDE DEF N
<1>4. iUp \in Nat /\ high \in Nat /\ p \in G /\ \A x \in iUp .. high : x \in 1 .. N
  BY <1>1, <1>2, <1>3
<1>5. PICK a \in iUp .. high : a \in G /\ \A b \in iUp .. a - 1 : b \notin G
  <2>1. \E x \in iUp .. high : x \in G
    BY <1>4
  <2> HIDE DEF G
  <2> QED
    BY <1>4, <2>1, FirstOf
<1>6. array[a] >= mid /\ \A b \in iUp .. a - 1 : array[b] < mid
  <2>1. ASSUME NEW b \in iUp .. a - 1 PROVE array[b] < mid
    <3>1. b \in 1 .. N /\ b \notin G
      BY <1>4, <1>5
    <3> QED
      BY <1>1, <3>1
  <2> QED
    BY <1>5, <2>1
<1>7. \E c \in iUp .. high : (c = high \/ array[c] >= mid) /\ \A b \in iUp .. c - 1 : array[b] < mid
  BY <1>6
<1>8. /\ Up \in iUp .. high /\ (Up = high \/ array[Up] >= mid)
      /\ \A b \in iUp .. Up - 1 : array[b] < mid
  BY <1>7 DEF Up
<1> DEFINE u == Up
<1> HIDE DEF u
<1>9. u \in iUp .. high /\ (u = high \/ array[u] >= mid) /\ \A b \in iUp .. u - 1 : array[b] < mid
  BY <1>8 DEF u
<1>10. array[u] >= mid
  <2> SUFFICES ASSUME u = high PROVE array[u] >= mid
    BY <1>9
  <2>1. p = u \/ p \in iUp .. u - 1
    BY <1>3, <1>2
  <2>2. ~(array[p] < mid)
    BY <1>1, <1>3, <1>4
  <2> QED
    BY <1>3, <1>9, <2>1, <2>2
<1> QED
  BY <1>9, <1>10 DEF u

\* The second one stops at an entry that is not above it.
LEMMA DownStops ==
    ASSUME SortTyped, RangesFollow, Partitioned, stage = "loop"
    PROVE  /\ Down \in low .. jDown /\ mid >= array[Down]
           /\ \A x \in Down + 1 .. jDown : mid < array[x]
<1> DEFINE N == Len(array)
           G == {x \in 1 .. N : array[x] <= mid}
<1>1. N \in Nat /\ mid \in Int /\ \A x \in 1 .. N : array[x] \in Int
  BY TypedFacts DEF SortTyped
<1>2. low \in Int /\ jDown \in Int /\ high \in Int /\ 1 <= low /\ jDown <= high /\ high <= N /\ low <= jDown
  BY DEF SortTyped, RangesFollow, Partitioned
<1>3. PICK p \in low .. jDown : array[p] <= mid
  BY DEF Partitioned
<1> HIDE DEF N
<1>4. low \in Nat /\ jDown \in Nat /\ p \in G /\ \A x \in low .. jDown : x \in 1 .. N
  BY <1>1, <1>2, <1>3
<1>5. PICK a \in low .. jDown : a \in G /\ \A b \in a + 1 .. jDown : b \notin G
  <2>1. \E x \in low .. jDown : x \in G
    BY <1>4
  <2> HIDE DEF G
  <2> QED
    BY <1>4, <2>1, LastOf
<1>6. mid >= array[a] /\ \A b \in a + 1 .. jDown : mid < array[b]
  <2>1. ASSUME NEW b \in a + 1 .. jDown PROVE mid < array[b]
    <3>1. b \in 1 .. N /\ b \notin G
      BY <1>4, <1>5
    <3> QED
      BY <1>1, <3>1
  <2>2. mid >= array[a]
    BY <1>1, <1>5
  <2> QED
    BY <2>1, <2>2
<1>7. \E c \in low .. jDown : (c = low \/ mid >= array[c]) /\ \A b \in c + 1 .. jDown : mid < array[b]
  BY <1>6
<1>8. /\ Down \in low .. jDown /\ (Down = low \/ mid >= array[Down])
      /\ \A b \in Down + 1 .. jDown : mid < array[b]
  BY <1>7 DEF Down
<1> DEFINE d == Down
<1> HIDE DEF d
<1>9. d \in low .. jDown /\ (d = low \/ mid >= array[d]) /\ \A b \in d + 1 .. jDown : mid < array[b]
  BY <1>8 DEF d
<1>10. mid >= array[d]
  <2> SUFFICES ASSUME d = low PROVE mid >= array[d]
    BY <1>9
  <2>1. p = d \/ p \in d + 1 .. jDown
    BY <1>3, <1>2
  <2>2. ~(mid < array[p]) /\ mid >= array[p]
    BY <1>1, <1>3, <1>4
  <2> QED
    BY <1>3, <1>9, <2>1, <2>2
<1> QED
  BY <1>9, <1>10 DEF d

\* What one turn of the partitioning does to the array.
LEMMA TurnMoves ==
    ASSUME SortTyped, RangesFollow, Partitioned, Partition
    PROVE  /\ array' \in Seq(SortKeys) /\ Len(array') = Len(array)
           /\ \A k : Count(array', k) = Count(array, k)
           /\ \A x \in 1 .. Len(array) : x \notin low .. high => array'[x] = array[x]
           /\ \A x \in low .. high : \E y \in low .. high : array'[x] = array[y]
<1> DEFINE N == Len(array)
           a == Up
           b == Down
<1>1. /\ stage = "loop"
      /\ array' = IF a < b THEN [array EXCEPT ![a] = array[b], ![b] = array[a]] ELSE array
  BY DEF Partition, Turn, Swapped
<1>2. a \in iUp .. high /\ b \in low .. jDown
  BY <1>1, UpStops, DownStops
<1> HIDE DEF a, b
<1>3. a \in low .. high /\ b \in low .. high /\ \A x \in low .. high : x \in 1 .. N
  <2>1. /\ low \in Int /\ high \in Int /\ iUp \in Int /\ jDown \in Int
        /\ 1 <= low /\ high <= N /\ low <= iUp /\ jDown <= high
    BY <1>1 DEF SortTyped, RangesFollow, Partitioned
  <2> QED
    BY <1>2, <2>1, TypedFacts
<1>4. array \in Seq(SortKeys)
  BY TypedFacts
<1>5. CASE a < b
  <2> DEFINE t == [array EXCEPT ![a] = array[b], ![b] = array[a]]
  <2>1. a \in 1 .. N /\ b \in 1 .. N
    BY <1>3
  <2>2. /\ t \in Seq(SortKeys) /\ Len(t) = N
        /\ t[a] = array[b] /\ t[b] = array[a]
        /\ \A x \in 1 .. N : x # a /\ x # b => t[x] = array[x]
    BY <1>4, <2>1, SwappedIs
  <2>3. \A k : Count(t, k) = Count(array, k)
    BY <1>4, <2>1, SwappedCounts
  <2>4. array' = t
    BY <1>1, <1>5
  <2> HIDE DEF t, N
  <2>5. \A x \in 1 .. N : x \notin low .. high => t[x] = array[x]
    BY <1>3, <2>2
  <2>6. \A x \in low .. high : \E y \in low .. high : t[x] = array[y]
    <3> TAKE x \in low .. high
    <3>1. CASE x # a /\ x # b
      BY <1>3, <2>2, <3>1
    <3>2. CASE x = a
      BY <1>3, <2>2, <3>2
    <3>3. CASE x = b
      BY <1>3, <2>2, <3>3
    <3> QED
      BY <3>1, <3>2, <3>3
  <2> QED
    BY <2>2, <2>3, <2>4, <2>5, <2>6 DEF N
<1>6. CASE ~(a < b)
  BY <1>1, <1>4, <1>6
<1> QED
  BY <1>5, <1>6

\* The two sides after one turn.
LEMMA TurnParts ==
    ASSUME SortTyped, RangesFollow, Partitioned, Partition
    PROVE  Partitioned' /\ iUp' \in Int /\ jDown' \in Int
<1> DEFINE N == Len(array)
           a == Up
           b == Down
           t == array'
<1>1. /\ stage = "loop" /\ low' = low /\ high' = high /\ mid' = mid
      /\ t = (IF a < b THEN [array EXCEPT ![a] = array[b], ![b] = array[a]] ELSE array)
      /\ iUp' = (IF a <= b THEN a + 1 ELSE a)
      /\ jDown' = (IF a <= b THEN b - 1 ELSE b)
      /\ stage' = (IF a # b /\ iUp' <= jDown' THEN "loop" ELSE "recurse")
  BY DEF Partition, Turn, Swapped
<1>2. /\ a \in iUp .. high /\ array[a] >= mid /\ \A x \in iUp .. a - 1 : array[x] < mid
      /\ b \in low .. jDown /\ mid >= array[b] /\ \A x \in b + 1 .. jDown : mid < array[x]
  BY <1>1, UpStops, DownStops
<1> HIDE DEF a, b
<1>3. /\ low \in Int /\ high \in Int /\ iUp \in Int /\ jDown \in Int /\ mid \in Int /\ N \in Nat
      /\ 1 <= low /\ low < high /\ high <= N
      /\ low <= iUp /\ iUp <= jDown /\ jDown <= high
      /\ \A x \in low .. iUp - 1 : array[x] <= mid
      /\ \A x \in jDown + 1 .. high : array[x] >= mid
      /\ \A x \in 1 .. N : array[x] \in Int
  BY <1>1, TypedFacts DEF SortTyped, RangesFollow, Partitioned
<1>4. a \in 1 .. N /\ b \in 1 .. N /\ a \in Int /\ b \in Int
  BY <1>2, <1>3
<1>5. CASE a < b
  <2>1. iUp' = a + 1 /\ jDown' = b - 1
    BY <1>1, <1>4, <1>5
  <2>2. t[a] = array[b] /\ t[b] = array[a] /\ \A x \in 1 .. N : x # a /\ x # b => t[x] = array[x]
    <3>1. array \in Seq(SortKeys) /\ t = [array EXCEPT ![a] = array[b], ![b] = array[a]]
      BY <1>1, <1>5, TypedFacts
    <3> QED
      BY <1>4, <3>1, SwappedIs
  <2> HIDE DEF t, N
  <2>3. ASSUME NEW x \in low .. a PROVE t[x] <= mid
    <3>1. CASE x = a
      BY <1>2, <2>2, <3>1
    <3>2. CASE x \in low .. iUp - 1 \/ x \in iUp .. a - 1
      <4>1. x \in 1 .. N /\ x # a /\ x # b
        BY <1>2, <1>3, <1>4, <1>5, <3>2
      <4>2. array[x] <= mid
        BY <1>2, <1>3, <3>2, <4>1
      <4> QED
        BY <2>2, <4>1, <4>2
    <3> QED
      BY <1>3, <1>4, <3>1, <3>2
  <2>4. ASSUME NEW x \in b .. high PROVE t[x] >= mid
    <3>1. CASE x = b
      BY <1>2, <2>2, <3>1
    <3>2. CASE x \in jDown + 1 .. high \/ x \in b + 1 .. jDown
      <4>1. x \in 1 .. N /\ x # a /\ x # b
        BY <1>2, <1>3, <1>4, <1>5, <3>2
      <4>2. array[x] >= mid
        BY <1>2, <1>3, <3>2, <4>1
      <4> QED
        BY <2>2, <4>1, <4>2
    <3> QED
      BY <1>3, <1>4, <3>1, <3>2
  <2>5. /\ low <= a + 1 /\ a + 1 <= high + 1 /\ low - 1 <= b - 1 /\ b - 1 <= high
        /\ (a + 1) - 1 = a /\ (b - 1) + 1 = b
    BY <1>2, <1>3, <1>4
  <2>6. a + 1 <= b - 1 => b \in a + 1 .. high /\ a \in low .. b - 1
    BY <1>2, <1>3, <1>4
  <2>7. t[b] >= mid /\ t[a] <= mid
    BY <1>2, <2>2
  <2>8. ~(a + 1 <= b - 1) => b - 1 < a + 1
    BY <1>4
  <2>9. a # b
    BY <1>4, <1>5
  <2>10. stage' = "loop" => a + 1 <= b - 1
    BY <1>1, <2>1
  <2>11. stage' = "recurse" => ~(a + 1 <= b - 1)
    BY <1>1, <2>1, <2>9
  <2>12. stage' = "loop" => (\E x \in a + 1 .. high : t[x] >= mid) /\ (\E x \in low .. b - 1 : t[x] <= mid)
    BY <2>6, <2>7, <2>10
  <2>13. iUp' \in Int /\ jDown' \in Int
    BY <1>4, <2>1
  <2> QED
    BY <1>1, <2>1, <2>3, <2>4, <2>5, <2>8, <2>10, <2>11, <2>12, <2>13 DEF Partitioned, t
<1>6. CASE ~(a < b)
  <2>1. t = array
    BY <1>1, <1>6
  <2>2. stage' = "recurse"
    <3>1. CASE a = b
      BY <1>1, <3>1
    <3>2. CASE b < a
      <4>1. iUp' = a /\ jDown' = b /\ ~(a <= b)
        BY <1>1, <1>4, <3>2
      <4> QED
        BY <1>1, <4>1
    <3> QED
      BY <1>4, <1>6, <3>1, <3>2
  <2> DEFINE u == iUp'
         d == jDown'
  <2> HIDE DEF u, d
  <2>3. /\ u \in Int /\ d \in Int /\ d < u
        /\ a <= u /\ u <= a + 1 /\ b - 1 <= d /\ d <= b
        /\ (u = a \/ a = b) /\ (d = b \/ a = b)
    BY <1>1, <1>4, <1>6 DEF u, d
  <2> HIDE DEF t, N, u, d
  <2>4. low <= u /\ u <= high + 1 /\ low - 1 <= d /\ d <= high
    BY <1>2, <1>3, <1>4, <2>3
  <2>5. ASSUME NEW x \in low .. u - 1 PROVE array[x] <= mid
    <3>4. x \in Int /\ low <= x /\ x <= u - 1
      BY <1>3, <2>3
    <3>1. CASE x = a
      <4>1. a = b
        BY ONLY <1>4, <2>3, <3>1, <3>4
      <4> QED
        BY <1>2, <1>3, <1>4, <3>1, <4>1
    <3>2. CASE x \in low .. iUp - 1
      BY <1>3, <3>2
    <3>3. CASE x \in iUp .. a - 1
      <4>1. x \in 1 .. N
        BY <1>3, <1>4, <3>3
      <4> QED
        BY <1>2, <1>3, <3>3, <4>1
    <3>5. x = a \/ x \in low .. iUp - 1 \/ x \in iUp .. a - 1
      <4>1. low \in Int /\ iUp \in Int /\ a \in Int
        BY <1>3, <1>4
      <4> QED
        BY ONLY <4>1, <2>3, <3>4
    <3> QED
      BY <3>1, <3>2, <3>3, <3>5
  <2>6. ASSUME NEW x \in d + 1 .. high PROVE array[x] >= mid
    <3>4. x \in Int /\ x <= high /\ d + 1 <= x
      BY <1>3, <2>3
    <3>1. CASE x = b
      <4>1. a = b
        BY ONLY <1>4, <2>3, <3>1, <3>4
      <4> QED
        BY <1>2, <1>3, <1>4, <3>1, <4>1
    <3>2. CASE x \in jDown + 1 .. high
      BY <1>3, <3>2
    <3>3. CASE x \in b + 1 .. jDown
      <4>1. x \in 1 .. N
        BY <1>3, <1>4, <3>3
      <4> QED
        BY <1>2, <1>3, <3>3, <4>1
    <3>5. x = b \/ x \in jDown + 1 .. high \/ x \in b + 1 .. jDown
      <4>1. high \in Int /\ jDown \in Int /\ b \in Int
        BY <1>3, <1>4
      <4> QED
        BY ONLY <4>1, <2>3, <3>4
    <3> QED
      BY <3>1, <3>2, <3>3, <3>5
  <2> QED
    BY <1>1, <2>1, <2>2, <2>3, <2>4, <2>5, <2>6 DEF Partitioned, t, u, d
<1> QED
  BY <1>4, <1>5, <1>6

\* Partition: one turn of the loop.
LEMMA SortTurns == SortInv /\ Partition => SortInv'
<1> SUFFICES ASSUME SortInv, Partition PROVE SortInv'
  OBVIOUS
<1> DEFINE N == Len(array)
           t == array'
<1>1. SortTyped /\ RangesFollow /\ Partitioned /\ RestInOrder /\ SameCounts
  BY DEF SortInv
<1>2. /\ stage = "loop" /\ low' = low /\ high' = high /\ mid' = mid /\ ranges' = ranges /\ input' = input
      /\ stage' \in {"loop", "recurse"}
  BY DEF Partition
<1>3. /\ t \in Seq(SortKeys) /\ Len(t) = N /\ \A k : Count(t, k) = Count(array, k)
      /\ \A x \in 1 .. N : x \notin low .. high => t[x] = array[x]
      /\ \A x \in low .. high : \E y \in low .. high : t[x] = array[y]
  BY <1>1, TurnMoves
<1>4. Partitioned' /\ iUp' \in Int /\ jDown' \in Int
  BY <1>1, TurnParts
<1>5. SortTyped'
  BY <1>1, <1>2, <1>3, <1>4 DEF SortTyped
<1>6. /\ 1 <= low /\ low < high /\ high <= N /\ Ascending(ranges, high + 1, N)
      /\ low \in Int /\ high \in Int /\ mid \in Int /\ N \in Nat
  BY <1>1, <1>2, TypedFacts DEF SortTyped, RangesFollow
<1>7. RangesFollow'
  BY <1>2, <1>3, <1>6 DEF RangesFollow
<1>8. SameCounts'
  BY <1>1, <1>2, <1>3 DEF SameCounts
<1>9. t \in Seq(Int) /\ array \in Seq(Int) /\ \A x \in 1 .. N : t[x] \in Int
  <2>1. array \in Seq(Int)
    BY <1>1, TypedFacts
  <2>2. t \in Seq(Int) /\ Len(t) \in Nat /\ \A x \in 1 .. Len(t) : t[x] \in Int
    BY <1>3, NumbersOnly
  <2> QED
    BY <1>3, <2>1, <2>2
<1>10. \A x, y \in 1 .. N : x < y => array[x] <= array[y] \/ Cover(ranges, x, y) \/ (low <= x /\ y <= high)
  BY <1>1, <1>2 DEF RestInOrder, Pending
<1> HIDE DEF t, N
<1>11. \A x, y \in 1 .. N : x < y => t[x] <= t[y] \/ Cover(ranges, x, y) \/ (low <= x /\ y <= high)
  BY <1>3, <1>6, <1>9, <1>10, WithinStep DEF N
<1>12. ASSUME NEW x \in 1 .. N, NEW y \in 1 .. N, x < y PROVE t[x] <= t[y] \/ Pending(x, y)'
  <2>1. CASE t[x] <= t[y] \/ Cover(ranges, x, y) \/ stage' = "loop"
    BY <1>2, <1>11, <1>12, <2>1 DEF Pending
  <2>2. CASE low <= x /\ y <= high /\ stage' = "recurse"
    <3>1. CASE y <= jDown' \/ iUp' <= x
      BY <1>2, <2>2, <3>1 DEF Pending
    <3>2. CASE ~(y <= jDown') /\ ~(iUp' <= x)
      <4>1. x \in low .. iUp' - 1 /\ y \in jDown' + 1 .. high
        <5> DEFINE u == iUp'
                   d == jDown'
        <5>1. x \in Int /\ y \in Int /\ low <= x /\ y <= high
          BY <1>6, <2>2
        <5>2. u \in Int /\ d \in Int /\ low \in Int /\ high \in Int
          BY <1>4, <1>6
        <5>3. ~(y <= d) /\ ~(u <= x)
          BY <3>2
        <5> HIDE DEF u, d
        <5>4. x \in low .. u - 1 /\ y \in d + 1 .. high
          BY <5>1, <5>2, <5>3
        <5> QED
          BY <5>4 DEF u, d
      <4>2. t[x] <= mid /\ t[y] >= mid
        BY <1>2, <1>4, <2>2, <4>1 DEF Partitioned, t
      <4> QED
        BY <1>6, <1>9, <4>2
    <3> QED
      BY <3>1, <3>2
  <2> QED
    BY <1>2, <1>11, <1>12, <2>1, <2>2
<1>13. RestInOrder'
  <2>1. Len(array') = N
    BY <1>3 DEF t
  <2> QED
    BY <1>12, <2>1 DEF RestInOrder, t
<1> QED
  BY <1>4, <1>5, <1>7, <1>8, <1>13 DEF SortInv

\* A half of a range that is called for, or not.
LEMMA HalfIs ==
    ASSUME NEW l \in Int, NEW h \in Int, NEW s, s = IF l < h THEN <<<<l, h>>>> ELSE <<>>
    PROVE  /\ Ascending(s, l, h)
           /\ \A x, y \in Int : x < y /\ l <= x /\ y <= h => Cover(s, x, y)
<1>1. CASE l < h
  <2>1. Ascending(<<<<l, h>>>>, l, h) /\ \A x, y : Cover(<<<<l, h>>>>, x, y) <=> l <= x /\ y <= h
    BY ONLY <1>1, l \in Int, h \in Int, AscendingOne, Zenon
  <2>2. s = <<<<l, h>>>>
    BY <1>1
  <2> QED
    BY <2>1, <2>2
<1>2. CASE ~(l < h)
  <2>1. Ascending(<<>>, l, h)
    BY AscendingNone
  <2>2. s = <<>>
    BY <1>2
  <2>3. \A x, y \in Int : ~(x < y /\ l <= x /\ y <= h)
    BY <1>2
  <2> QED
    BY <2>1, <2>2, <2>3
<1> QED
  BY <1>1, <1>2

\* Recurse: both halves are called for.
LEMMA SortRecurses == SortInv /\ Recurse => SortInv'
<1> SUFFICES ASSUME SortInv, Recurse PROVE SortInv'
  OBVIOUS
<1> DEFINE N == Len(array)
           L == IF jDown > low THEN <<<<low, jDown>>>> ELSE <<>>
           H == IF iUp < high THEN <<<<iUp, high>>>> ELSE <<>>
<1>1. /\ stage = "recurse" /\ stage' = "return" /\ ranges' = L \o H \o ranges
      /\ UNCHANGED <<input, array, low, high, iUp, jDown, mid>>
  BY DEF Recurse
<1>2. SortTyped /\ RangesFollow /\ Partitioned /\ RestInOrder /\ SameCounts
  BY DEF SortInv
<1>3. /\ low \in Int /\ high \in Int /\ iUp \in Int /\ jDown \in Int /\ N \in Nat
      /\ 1 <= low /\ low < high /\ high <= N /\ Ascending(ranges, high + 1, N)
      /\ jDown < iUp /\ low <= iUp /\ jDown <= high
  BY <1>1, <1>2, TypedFacts DEF SortTyped, RangesFollow, Partitioned
<1>4. /\ Ascending(L, low, jDown)
      /\ \A x, y \in Int : x < y /\ low <= x /\ y <= jDown => Cover(L, x, y)
  <2>1. L = IF low < jDown THEN <<<<low, jDown>>>> ELSE <<>>
    BY <1>3
  <2> HIDE DEF L
  <2> QED
    BY <1>3, <2>1, HalfIs
<1>5. /\ Ascending(H, iUp, high)
      /\ \A x, y \in Int : x < y /\ iUp <= x /\ y <= high => Cover(H, x, y)
  <2>1. H = IF iUp < high THEN <<<<iUp, high>>>> ELSE <<>>
    OBVIOUS
  <2> HIDE DEF H
  <2> QED
    BY <1>3, <2>1, HalfIs
<1> HIDE DEF L, H, N
<1>6. /\ Ascending(L \o H, low, high)
      /\ \A x, y : Cover(L \o H, x, y) <=> Cover(L, x, y) \/ Cover(H, x, y)
  BY <1>3, <1>4, <1>5, AscendingJoin
<1>7. /\ Ascending(L \o H \o ranges, low, N)
      /\ \A x, y : Cover(L \o H \o ranges, x, y) <=> Cover(L \o H, x, y) \/ Cover(ranges, x, y)
  <2> DEFINE A == L \o H
         k == high + 1
  <2>1. high < k /\ low <= k /\ k \in Int /\ N \in Int
    BY <1>3
  <2>2. Ascending(A, low, high) /\ Ascending(ranges, k, N) /\ high <= N /\ low \in Int /\ high \in Int
    BY <1>3, <1>6
  <2> HIDE DEF A, k
  <2>3. /\ Ascending(A \o ranges, low, N)
        /\ \A x, y : Cover(A \o ranges, x, y) <=> Cover(A, x, y) \/ Cover(ranges, x, y)
    BY ONLY <2>1, <2>2, AscendingJoin
  <2> QED
    BY <2>3 DEF A
<1>8. Ascending(ranges', 1, N)
  <2>1. Ascending(L \o H \o ranges, 1, N)
    BY <1>3, <1>7, AscendingWider
  <2> QED
    BY <1>1, <2>1
<1>9. ASSUME NEW x \in Int, NEW y \in Int, x < y, Pending(x, y) PROVE Pending(x, y)'
  <2>1. Cover(ranges, x, y) \/ (low <= x /\ y <= jDown) \/ (iUp <= x /\ y <= high)
    BY <1>1, <1>9 DEF Pending
  <2>2. Cover(L \o H \o ranges, x, y)
    BY <1>4, <1>5, <1>6, <1>7, <1>9, <2>1
  <2> QED
    BY <1>1, <2>2 DEF Pending
<1>10. SortTyped'
  BY <1>1, <1>2 DEF SortTyped
<1>11. RangesFollow' /\ Partitioned'
  BY <1>1, <1>8 DEF RangesFollow, Partitioned, N
<1>12. RestInOrder'
  BY <1>1, <1>2, <1>3, <1>9 DEF RestInOrder, N
<1>13. SameCounts'
  BY <1>1, <1>2 DEF SameCounts
<1> QED
  BY <1>10, <1>11, <1>12, <1>13 DEF SortInv

\* Finish: what is left of the ranges is nothing.
LEMMA SortFinishes == SortInv /\ Finish => SortInv'
<1> SUFFICES ASSUME SortInv, Finish PROVE SortInv'
  OBVIOUS
<1>1. /\ stage = "return" /\ stage' = "sorted" /\ ranges = <<>>
      /\ UNCHANGED <<input, array, ranges, low, high, iUp, jDown, mid>>
  BY DEF Finish
<1>2. SortTyped /\ RangesFollow /\ Partitioned /\ RestInOrder /\ SameCounts
  BY DEF SortInv
<1>3. \A x, y : Pending(x, y) => Pending(x, y)'
  BY <1>1 DEF Pending
<1>4. SortTyped'
  BY <1>1, <1>2 DEF SortTyped
<1>5. RangesFollow' /\ Partitioned'
  BY <1>1 DEF RangesFollow, Partitioned
<1>6. RestInOrder'
  BY <1>1, <1>2, <1>3 DEF RestInOrder
<1>7. SameCounts'
  BY <1>1, <1>2 DEF SameCounts
<1> QED
  BY <1>4, <1>5, <1>6, <1>7 DEF SortInv

\* Steps that leave the sorting alone.
LEMMA SortRests == SortInv /\ UNCHANGED sortVars => SortInv'
<1> SUFFICES ASSUME SortInv, UNCHANGED sortVars PROVE SortInv'
  OBVIOUS
<1>1. UNCHANGED <<input, array, ranges, stage, low, high, iUp, jDown, mid>>
  BY DEF sortVars
<1>2. \A x, y : Pending(x, y) => Pending(x, y)'
  BY <1>1 DEF Pending
<1> QED
  BY <1>1, <1>2 DEF SortInv, SortTyped, RangesFollow, Partitioned, RestInOrder, SameCounts

\* Before the first call.
LEMMA SortBegins == SortInit => SortInv
<1> SUFFICES ASSUME SortInit PROVE SortInv
  OBVIOUS
<1>1. /\ input = <<>> /\ array = <<>> /\ ranges = <<>> /\ stage = "idle"
      /\ low = 0 /\ high = 0 /\ iUp = 0 /\ jDown = 0 /\ mid = 0
  BY DEF SortInit
<1>2. SortTyped
  BY <1>1 DEF SortTyped
<1> QED
  BY <1>1, <1>2 DEF SortInv, RangesFollow, Partitioned, RestInOrder, SameCounts

\* The array between the swaps: ranges to come lie one behind the other, places that are in no
\* range together are in order, and each entry is there as often as in the beginning.
THEOREM SortInvariance == SortSpec => []SortInv
<1>1. SortInv /\ [SortNext]_sortVars => SortInv'
  BY SortStarts, SortCalls, SortTurns, SortRecurses, SortFinishes, SortRests DEF SortNext
<1> QED
  BY <1>1, SortBegins, PTL DEF SortSpec

\* Whenever the sorting of an array ends, of any length and with any keys, the array is in order
\* and holds what it was given.
THEOREM AlwaysSortedRight == SortSpec => []SortedRight
<1>1. SortInv => SortedRight
  <2> SUFFICES ASSUME SortInv, stage = "sorted" PROVE Sorting
    BY DEF SortedRight
  <2>1. SortTyped /\ RangesFollow /\ RestInOrder /\ SameCounts
    BY DEF SortInv
  <2>2. DOMAIN array = 1 .. Len(array)
    BY <2>1, TypedFacts
  <2>3. ranges = <<>>
    BY <2>1 DEF RangesFollow
  <2>4. \A x, y : ~Cover(<<>>, x, y)
    BY AscendingNone
  <2>5. \A x, y : ~Pending(x, y)
    BY <2>3, <2>4 DEF Pending
  <2>6. \A x, y \in DOMAIN array : x < y => array[x] <= array[y]
    BY <2>1, <2>2, <2>5 DEF RestInOrder
  <2> QED
    BY <2>1, <2>6 DEF Sorting, SameCounts
<1> QED
  BY <1>1, SortInvariance, PTL

-----------------------------------------------------------------------------
(* Side by side.                                                            *)

\* Containers side by side take steps of either alone, or none.
LEMMA ContainersParts == ContainersSpec => ArraySpec /\ ListSpec
<1>1. ContainersInit => ArrayInit /\ ListInit
  BY DEF ContainersInit
<1>2. [ContainersNext]_containersVars => [ArrayNext]_arrayVars /\ [ListNext]_listVars
  BY DEF ContainersNext, containersVars
<1> QED
  BY <1>1, <1>2, PTL DEF ContainersSpec, ArraySpec, ListSpec

\* What is handed out while a container changes is always sound: get_subset returns the
\* entries of a partial key and no other, an iterator of an array that counted right
\* is at the places of what it has seen, one of a list stands on a node of the list.
THEOREM HandedOutAlwaysSound == ContainersSpec => []HandedOutSound
<1>1. ArrayInv => SubsetExact /\ IteratorSound
  BY ArraySound
<1>2. ArrayInv /\ CursorOnList => HandedOutSound
  BY <1>1 DEF HandedOutSound
<1> QED
  BY <1>2, ContainersParts, ArrayInvariance, CursorAlwaysOnList, PTL

-----------------------------------------------------------------------------
(* The stash: a tree of nodes, whose buckets say the same                   *)

Nodes == DOMAIN children

\* The first i subidentifiers.
Pre(o, i) == SubSeq(o, 1, i)

\* The buckets of one node.
Buckets == [0 .. children_size - 1 -> Seq(SubId)]

\* Each child is in its own bucket, once.
Hashed(bs) == \A b \in 0 .. children_size - 1 :
                 IsInjective(bs[b]) /\ \A v \in Range(bs[b]) : v % children_size = b

StashTyped == /\ Nodes \subseteq Seq(SubId)
              /\ \A n \in Nodes : Len(n) <= MaxLen /\ children[n] \in Buckets /\ Hashed(children[n])
              /\ stashed \subseteq (Nodes \cap Oid) \ {<<>>}
              /\ IsFiniteSet(stashed)

\* The nodes form a tree, and the buckets say the same.
StashTree == /\ <<>> \in Nodes
             /\ \A n \in Nodes : n # <<>> => Front(n) \in Nodes
             /\ \A n \in Nodes, v \in SubId : HasChild(n, v) <=> Append(n, v) \in Nodes

\* Every node but the root has data, or leads to some.
LeadsToData == \A n \in Nodes : n # <<>> => \E o \in stashed : Len(n) <= Len(o) /\ n = Pre(o, Len(n))

StashInv == StashTyped /\ StashTree /\ LeadsToData

\* A subidentifier has one bucket.
LEMMA OneBucket ==
    ASSUME NEW v \in SubId
    PROVE  v \in Nat /\ v % children_size \in 0 .. children_size - 1
<1>1. v \in Nat /\ children_size \in Nat \ {0}
  BY StashAssumption
<1> QED
  BY <1>1

\* The first subidentifiers of one identifier.
LEMMA PreFacts ==
    ASSUME NEW o \in Seq(SubId), NEW i \in 0 .. Len(o)
    PROVE  /\ Pre(o, i) \in Seq(SubId) /\ Len(Pre(o, i)) = i
           /\ \A j \in 1 .. i : Pre(o, i)[j] = o[j]
<1>1. Len(o) \in Nat /\ \A j \in 1 .. Len(o) : o[j] \in SubId
  BY LenProperties
<1>2. \A j \in 1 .. i : o[j] \in SubId
  BY <1>1
<1>3. /\ SubSeq(o, 1, i) \in Seq(SubId)
      /\ Len(SubSeq(o, 1, i)) = IF 1 <= i THEN i - 1 + 1 ELSE 0
      /\ \A j \in 1 .. i - 1 + 1 : SubSeq(o, 1, i)[j] = o[1 + j - 1]
  BY <1>1, <1>2, SubSeqProperties
<1>4. \A j \in 1 .. i : j \in 1 .. i - 1 + 1 /\ 1 + j - 1 = j
  OBVIOUS
<1>5. (IF 1 <= i THEN i - 1 + 1 ELSE 0) = i
  BY <1>1
<1> QED
  BY <1>3, <1>4, <1>5 DEF Pre

\* Two identifiers of one length that agree everywhere are one.
LEMMA SameOid ==
    ASSUME NEW o \in Seq(SubId), NEW p \in Seq(SubId), Len(o) = Len(p),
           \A j \in 1 .. Len(o) : o[j] = p[j]
    PROVE  o = p
BY SeqEqual

LEMMA PreEnds ==
    ASSUME NEW o \in Seq(SubId)
    PROVE  Pre(o, 0) = <<>> /\ Pre(o, Len(o)) = o
<1>1. Len(o) \in Nat
  BY LenProperties
<1>2. 0 \in 0 .. Len(o) /\ Len(o) \in 0 .. Len(o)
  BY <1>1
<1>3. Pre(o, 0) \in Seq(SubId) /\ Len(Pre(o, 0)) = 0
  BY <1>2, PreFacts
<1>4. /\ Pre(o, Len(o)) \in Seq(SubId) /\ Len(Pre(o, Len(o))) = Len(o)
      /\ \A j \in 1 .. Len(o) : Pre(o, Len(o))[j] = o[j]
  BY <1>2, PreFacts
<1>5. Pre(o, 0) = <<>>
  BY <1>3, EmptySeq
<1> HIDE DEF Pre
<1>6. Pre(o, Len(o)) = o
  BY <1>4, SameOid
<1> QED
  BY <1>5, <1>6

\* One more subidentifier.
LEMMA PreNext ==
    ASSUME NEW o \in Seq(SubId), NEW i \in Nat, i + 1 <= Len(o)
    PROVE  /\ o[i + 1] \in SubId
           /\ Pre(o, i + 1) = Append(Pre(o, i), o[i + 1])
<1>1. i \in 0 .. Len(o) /\ i + 1 \in 0 .. Len(o) /\ i + 1 \in 1 .. Len(o) /\ Len(o) \in Nat
  BY LenProperties
<1>2. o[i + 1] \in SubId
  BY <1>1, LenProperties
<1>3. /\ Pre(o, i) \in Seq(SubId) /\ Len(Pre(o, i)) = i
      /\ \A j \in 1 .. i : Pre(o, i)[j] = o[j]
  BY <1>1, PreFacts
<1>4. /\ Pre(o, i + 1) \in Seq(SubId) /\ Len(Pre(o, i + 1)) = i + 1
      /\ \A j \in 1 .. i + 1 : Pre(o, i + 1)[j] = o[j]
  BY <1>1, PreFacts
<1> DEFINE p == Pre(o, i)
           a == Append(p, o[i + 1])
<1>5. p \in Seq(SubId) /\ Len(p) = i /\ \A j \in 1 .. i : p[j] = o[j]
  BY <1>3
<1> HIDE DEF p
<1>6. /\ a \in Seq(SubId) /\ Len(a) = i + 1
      /\ \A j \in 1 .. i : a[j] = p[j]
      /\ a[i + 1] = o[i + 1]
  BY <1>2, <1>5, AppendProperties
<1> HIDE DEF a
<1>7. ASSUME NEW j \in 1 .. i + 1 PROVE Pre(o, i + 1)[j] = a[j]
  <2>1. j = i + 1 \/ j \in 1 .. i
    OBVIOUS
  <2> QED
    BY <1>4, <1>5, <1>6, <2>1
<1>8. Pre(o, i + 1) = a
  BY <1>4, <1>6, <1>7, SameOid
<1> QED
  BY <1>2, <1>8 DEF a, p

\* A child knows its parent.
LEMMA ChildOf ==
    ASSUME NEW n \in Seq(SubId), NEW v \in SubId
    PROVE  /\ Append(n, v) \in Seq(SubId) /\ Append(n, v) # <<>>
           /\ Len(Append(n, v)) = Len(n) + 1
           /\ Front(Append(n, v)) = n /\ Last(Append(n, v)) = v
           /\ Pre(Append(n, v), Len(n)) = n
<1> DEFINE c == Append(n, v)
<1>1. /\ c \in Seq(SubId) /\ Len(c) = Len(n) + 1 /\ Len(n) \in Nat
      /\ \A j \in 1 .. Len(n) : c[j] = n[j]
      /\ c[Len(n) + 1] = v
  BY AppendProperties, LenProperties
<1> HIDE DEF c
<1>2. Len(n) \in 0 .. Len(c) /\ Len(c) - 1 = Len(n)
  BY <1>1
<1>3. /\ Pre(c, Len(n)) \in Seq(SubId) /\ Len(Pre(c, Len(n))) = Len(n)
      /\ \A j \in 1 .. Len(n) : Pre(c, Len(n))[j] = c[j]
  BY <1>1, <1>2, PreFacts
<1>4. Pre(c, Len(n)) = n
  BY <1>1, <1>3, SameOid
<1>5. Front(c) = n
  BY <1>2, <1>4 DEF Front, Pre
<1>6. Last(c) = v
  BY <1>1 DEF Last
<1>7. c # <<>>
  BY <1>1, EmptySeq, SMTT(30)
<1> QED
  BY <1>1, <1>4, <1>5, <1>6, <1>7 DEF c

\* An identifier but the empty one is a child of its front.
LEMMA FrontOf ==
    ASSUME NEW n \in Seq(SubId), n # <<>>
    PROVE  /\ Len(n) \in Nat \ {0} /\ Last(n) \in SubId
           /\ Front(n) \in Seq(SubId) /\ Front(n) = Pre(n, Len(n) - 1)
           /\ Len(Front(n)) = Len(n) - 1
           /\ n = Append(Front(n), Last(n))
<1>1. Len(n) \in Nat /\ Len(n) # 0
  BY LenProperties, EmptySeq
<1> DEFINE i == Len(n) - 1
<1>2. i \in Nat /\ i + 1 = Len(n) /\ i \in 0 .. Len(n)
  BY <1>1
<1> HIDE DEF i
<1>3. n[i + 1] \in SubId /\ Pre(n, i + 1) = Append(Pre(n, i), n[i + 1])
  BY <1>2, PreNext
<1>4. Pre(n, Len(n)) = n
  BY PreEnds
<1>5. Pre(n, i) \in Seq(SubId) /\ Len(Pre(n, i)) = i
  BY <1>2, PreFacts
<1>6. Front(n) = Pre(n, i)
  BY DEF Front, Pre, i
<1> QED
  BY <1>1, <1>2, <1>3, <1>4, <1>5, <1>6 DEF Last, i

\* The tree holds the way to each of its nodes.
LEMMA WayToNode ==
    ASSUME StashTyped, StashTree, NEW n \in Nodes, NEW i \in 0 .. Len(n)
    PROVE  Pre(n, i) \in Nodes
<1>1. n \in Seq(SubId) /\ Len(n) \in Nat
  BY LenProperties DEF StashTyped
<1> DEFINE T == {k \in Nat : k <= Len(n) => Pre(n, Len(n) - k) \in Nodes}
<1>2. 0 \in T
  BY <1>1, PreEnds
<1>3. ASSUME NEW k \in Nat, k \in T PROVE k + 1 \in T
  <2> SUFFICES ASSUME k + 1 <= Len(n) PROVE Pre(n, Len(n) - (k + 1)) \in Nodes
    OBVIOUS
  <2> DEFINE j == Len(n) - (k + 1)
  <2>1. j \in Nat /\ j + 1 = Len(n) - k /\ j + 1 <= Len(n) /\ k <= Len(n) /\ j \in 0 .. Len(n)
    BY <1>1
  <2> HIDE DEF j
  <2>2. Pre(n, j + 1) \in Nodes
    BY <1>3, <2>1
  <2>3. n[j + 1] \in SubId /\ Pre(n, j + 1) = Append(Pre(n, j), n[j + 1]) /\ Pre(n, j) \in Seq(SubId)
    BY <1>1, <2>1, PreNext, PreFacts
  <2>4. Pre(n, j + 1) # <<>> /\ Front(Pre(n, j + 1)) = Pre(n, j)
    BY <2>3, ChildOf
  <2>5. Pre(n, j) \in Nodes
    BY <2>2, <2>4 DEF StashTree
  <2> QED
    BY <2>5 DEF j
<1> HIDE DEF T
<1>4. Nat \subseteq T
  BY <1>2, <1>3, SetInduction
<1>5. Len(n) - i \in Nat /\ Len(n) - (Len(n) - i) = i /\ Len(n) - i <= Len(n)
  BY <1>1
<1>6. Len(n) - i \in T
  BY <1>4, <1>5
<1> QED
  BY <1>5, <1>6 DEF T

OnWay(o, m) == m \in 0 .. Len(o) /\ \A i \in 0 .. Len(o) : Pre(o, i) \in Nodes <=> i <= m

\* The nodes on the way to an identifier come before all that is missing.
LEMMA WayEnds ==
    ASSUME StashTyped, StashTree, NEW o \in Seq(SubId)
    PROVE  \E m \in 0 .. Len(o) : OnWay(o, m)
<1>1. Len(o) \in Nat
  BY LenProperties
<1> DEFINE I == {i \in 0 .. Len(o) : Pre(o, i) \notin Nodes}
<1>2. CASE I = {}
  <2>1. OnWay(o, Len(o))
    BY <1>1, <1>2 DEF OnWay
  <2> QED
    BY <1>1, <2>1
<1>3. CASE I # {}
  <2>1. I \in SUBSET Nat
    OBVIOUS
  <2> DEFINE l == Min(I)
  <2>2. l \in I /\ \A j \in I : l <= j
    BY <1>3, <2>1, LeastOf
  <2>3. l # 0
    BY <2>2, PreEnds DEF StashTree
  <2> HIDE DEF l
  <2>4. l \in 0 .. Len(o) /\ Pre(o, l) \notin Nodes /\ \A j \in 0 .. Len(o) : Pre(o, j) \notin Nodes => l <= j
    BY <2>2
  <2>5. ASSUME NEW i \in 0 .. Len(o), Pre(o, i) \in Nodes PROVE i <= l - 1
    <3> SUFFICES ASSUME l <= i PROVE FALSE
      BY <2>4
    <3>1. l \in 0 .. i
      BY <2>4
    <3>2. Pre(o, i) \in Seq(SubId) /\ Len(Pre(o, i)) = i /\ \A j \in 1 .. i : Pre(o, i)[j] = o[j]
      BY PreFacts
    <3>3. Pre(Pre(o, i), l) \in Nodes
      BY <2>5, <3>1, <3>2, WayToNode
    <3>4. /\ Pre(Pre(o, i), l) \in Seq(SubId) /\ Len(Pre(Pre(o, i), l)) = l
          /\ \A j \in 1 .. l : Pre(Pre(o, i), l)[j] = Pre(o, i)[j]
      BY <3>1, <3>2, PreFacts
    <3>5. /\ Pre(o, l) \in Seq(SubId) /\ Len(Pre(o, l)) = l
          /\ \A j \in 1 .. l : Pre(o, l)[j] = o[j]
      BY <2>4, PreFacts
    <3>6. \A j \in 1 .. l : j \in 1 .. i
      BY <3>1
    <3>7. Pre(Pre(o, i), l) = Pre(o, l)
      BY <3>2, <3>4, <3>5, <3>6, SameOid
    <3> QED
      BY <2>4, <3>3, <3>7
  <2>6. OnWay(o, l - 1) /\ l - 1 \in 0 .. Len(o)
    BY <1>1, <2>3, <2>4, <2>5 DEF OnWay
  <2> QED
    BY <2>6
<1> QED
  BY <1>2, <1>3

\* The loop of lookups finds the longest part that leads to a node.
LEMMA ClosestIs ==
    ASSUME StashTyped, StashTree, NEW o \in Seq(SubId), NEW m \in Nat, OnWay(o, m)
    PROVE  Closest(o) = Pre(o, m)
<1> DEFINE N == Len(o)
           known[i \in 0 .. N] == i = 0 \/ (known[i - 1] /\ HasChild(SubSeq(o, 1, i - 1), o[i]))
           Eqn(f) == [i \in 0 .. N |-> i = 0 \/ (f[i - 1] /\ HasChild(SubSeq(o, 1, i - 1), o[i]))]
           h == [i \in 0 .. N |-> i <= m]
<1>1. N \in Nat /\ m \in 0 .. N /\ \A i \in 0 .. N : Pre(o, i) \in Nodes <=> i <= m
  BY LenProperties DEF OnWay
<1> HIDE DEF N
<1>2. ASSUME NEW i \in Nat, i + 1 <= N PROVE i + 1 <= m <=> i <= m /\ HasChild(Pre(o, i), o[i + 1])
  <2>1. o[i + 1] \in SubId /\ Pre(o, i + 1) = Append(Pre(o, i), o[i + 1])
    BY <1>2, PreNext DEF N
  <2>2. i \in 0 .. N /\ i + 1 \in 0 .. N
    BY <1>1, <1>2
  <2>3. CASE i <= m
    <3>1. Pre(o, i) \in Nodes
      BY <1>1, <2>2, <2>3
    <3>2. HasChild(Pre(o, i), o[i + 1]) <=> Pre(o, i + 1) \in Nodes
      BY <2>1, <3>1 DEF StashTree
    <3> QED
      BY <1>1, <2>2, <2>3, <3>2
  <2>4. CASE ~(i <= m)
    BY <1>1, <2>4
  <2> QED
    BY <2>3, <2>4
<1>3. h = Eqn(h)
  <2>1. ASSUME NEW i \in 0 .. N
        PROVE  i <= m <=> i = 0 \/ (h[i - 1] /\ HasChild(SubSeq(o, 1, i - 1), o[i]))
    <3>1. CASE i = 0
      BY <1>1, <3>1
    <3>2. CASE i # 0
      <4>1. i - 1 \in Nat /\ (i - 1) + 1 = i /\ (i - 1) + 1 <= N /\ i - 1 \in 0 .. N
        BY <1>1, <3>2
      <4>2. i <= m <=> i - 1 <= m /\ HasChild(Pre(o, i - 1), o[i])
        BY <1>2, <4>1
      <4>3. h[i - 1] <=> i - 1 <= m
        BY <4>1
      <4> QED
        BY <3>2, <4>2, <4>3 DEF Pre
    <3> QED
      BY <3>1, <3>2
  <2>2. h = [i \in 0 .. N |-> (i = 0 \/ (h[i - 1] /\ HasChild(SubSeq(o, 1, i - 1), o[i])))]
    <3>1. \A i \in 0 .. N : (i <= m) = (i = 0 \/ (h[i - 1] /\ HasChild(SubSeq(o, 1, i - 1), o[i])))
      BY <2>1
    <3> QED
      BY <3>1, Zenon
  <2> QED
    BY <2>2
<1>4. known = Eqn(known)
  BY <1>3
<1> HIDE DEF known, h
<1>5. \A i \in 0 .. N : known[i] <=> (i = 0 \/ (known[i - 1] /\ HasChild(SubSeq(o, 1, i - 1), o[i])))
  BY <1>4
<1> DEFINE T == {i \in Nat : i <= N => (known[i] <=> i <= m)}
<1>6. 0 \in T
  <2>1. 0 \in 0 .. N
    BY <1>1
  <2>2. known[0]
    BY <1>5, <2>1
  <2> QED
    BY <1>1, <2>2
<1>7. ASSUME NEW i \in Nat, i \in T PROVE i + 1 \in T
  <2> SUFFICES ASSUME i + 1 <= N PROVE known[i + 1] <=> i + 1 <= m
    OBVIOUS
  <2>1. i + 1 \in 0 .. N /\ (i + 1) - 1 = i /\ i + 1 # 0 /\ i <= N
    BY <1>1
  <2>2. known[i + 1] <=> known[(i + 1) - 1] /\ HasChild(SubSeq(o, 1, (i + 1) - 1), o[i + 1])
    BY <1>5, <2>1
  <2>3. known[i] <=> i <= m
    BY <1>7, <2>1
  <2> QED
    BY <1>2, <2>1, <2>2, <2>3 DEF Pre
<1> HIDE DEF T
<1>8. \A i \in 0 .. N : known[i] <=> i <= m
  <2>1. Nat \subseteq T
    BY <1>6, <1>7, SetInduction
  <2> QED
    BY <2>1 DEF T
<1> DEFINE deep == CHOOSE i \in DOMAIN known : known[i] /\ (i = N \/ ~known[i + 1])
<1>9. DOMAIN known = 0 .. N
  BY <1>4
<1>10. \A i \in 0 .. N : (known[i] /\ (i = N \/ ~known[i + 1])) <=> i = m
  <2> TAKE i \in 0 .. N
  <2>1. CASE i = N
    BY <1>1, <1>8, <2>1
  <2>2. CASE i # N
    <3>1. i + 1 \in 0 .. N
      BY <1>1, <2>2
    <3> QED
      BY <1>1, <1>8, <2>2, <3>1
  <2> QED
    BY <2>1, <2>2
<1>11. deep = m
  BY <1>1, <1>9, <1>10
<1>12. Closest(o) = SubSeq(o, 1, deep)
  BY DEF Closest, known, N
<1> QED
  BY <1>11, <1>12 DEF Pre

LEMMA StashInitInv == StashInit => StashInv
<1> SUFFICES ASSUME children = [n \in {<<>>} |-> NewNode], stashed = {} PROVE StashInv
  BY DEF StashInit
<1>1. Nodes = {<<>>} /\ children[<<>>] = NewNode
  BY DEF Nodes
<1>2. NewNode \in Buckets /\ Hashed(NewNode)
  <2>1. \A b \in 0 .. children_size - 1 : NewNode[b] = <<>>
    BY DEF NewNode
  <2>2. IsInjective(<<>>) /\ Range(<<>>) = {}
    BY DEF IsInjective, Range
  <2> QED
    BY <2>1, <2>2 DEF NewNode, Buckets, Hashed
<1>3. Len(<<>>) = 0 /\ <<>> \in Seq(SubId) /\ 0 <= MaxLen
  BY StashAssumption
<1>4. StashTyped
  BY <1>1, <1>2, <1>3, FS_EmptySet DEF StashTyped
<1>5. ASSUME NEW v \in SubId PROVE ~HasChild(<<>>, v) /\ Append(<<>>, v) \notin Nodes
  <2>1. v % children_size \in 0 .. children_size - 1
    BY OneBucket
  <2>2. children[<<>>][v % children_size] = <<>>
    BY <1>1, <2>1 DEF NewNode
  <2>3. ToSet(<<>>) = {}
    BY DEF ToSet
  <2>4. Append(<<>>, v) # <<>>
    BY ChildOf
  <2> QED
    BY <1>1, <2>2, <2>3, <2>4 DEF HasChild
<1>6. StashTree /\ LeadsToData
  BY <1>1, <1>5 DEF StashTree, LeadsToData
<1> QED
  BY <1>4, <1>6 DEF StashInv

-----------------------------------------------------------------------------
(* What one addition leaves                                                *)

\* One entry more at the head of a list.
LEMMA AtHead ==
    ASSUME NEW S, NEW s \in Seq(S), NEW v \in S
    PROVE  /\ <<v>> \o s \in Seq(S)
           /\ Range(<<v>> \o s) = Range(s) \cup {v}
           /\ IsInjective(s) /\ v \notin Range(s) => IsInjective(<<v>> \o s)
<1> DEFINE t == <<v>> \o s
<1>1. <<v>> \in Seq(S) /\ Len(<<v>>) = 1 /\ Len(s) \in Nat /\ DOMAIN s = 1 .. Len(s)
  BY LenProperties
<1>2. /\ t \in Seq(S) /\ Len(t) = 1 + Len(s)
      /\ \A j \in 1 .. 1 + Len(s) : t[j] = IF j <= 1 THEN <<v>>[j] ELSE s[j - 1]
  BY <1>1, ConcatProperties
<1> HIDE DEF t
<1>3. DOMAIN t = 1 .. 1 + Len(s)
  BY <1>2, LenProperties
<1>4. t[1] = v /\ 1 \in 1 .. 1 + Len(s)
  BY <1>1, <1>2
<1>5. \A j \in 1 .. Len(s) : j + 1 \in 1 .. 1 + Len(s) /\ t[j + 1] = s[j]
  BY <1>1, <1>2
<1>6. \A j \in 1 .. 1 + Len(s) : j # 1 => j - 1 \in 1 .. Len(s) /\ t[j] = s[j - 1]
  BY <1>1, <1>2
<1>7. Range(t) = Range(s) \cup {v}
  <2>1. ASSUME NEW x \in Range(t) PROVE x \in Range(s) \cup {v}
    <3>1. PICK j \in 1 .. 1 + Len(s) : x = t[j]
      BY <1>3, <2>1 DEF Range
    <3> QED
      BY <1>1, <1>4, <1>6, <3>1 DEF Range
  <2>2. ASSUME NEW j \in 1 .. Len(s) PROVE s[j] \in Range(t)
    BY <1>3, <1>5 DEF Range
  <2>3. v \in Range(t)
    BY <1>3, <1>4 DEF Range
  <2> QED
    BY <1>1, <2>1, <2>2, <2>3 DEF Range
<1>8. ASSUME IsInjective(s), v \notin Range(s) PROVE IsInjective(t)
  <2>1. ASSUME NEW i \in 1 .. 1 + Len(s), NEW j \in 1 .. 1 + Len(s), t[i] = t[j] PROVE i = j
    <3>1. CASE i = 1 /\ j = 1
      BY <3>1
    <3>2. CASE i = 1 /\ j # 1
      <4>1. s[j - 1] = v /\ j - 1 \in 1 .. Len(s)
        BY <1>4, <1>6, <2>1, <3>2
      <4> QED
        BY <1>1, <1>8, <4>1 DEF Range
    <3>3. CASE i # 1 /\ j = 1
      <4>1. s[i - 1] = v /\ i - 1 \in 1 .. Len(s)
        BY <1>4, <1>6, <2>1, <3>3
      <4> QED
        BY <1>1, <1>8, <4>1 DEF Range
    <3>4. CASE i # 1 /\ j # 1
      <4>1. s[i - 1] = s[j - 1] /\ i - 1 \in 1 .. Len(s) /\ j - 1 \in 1 .. Len(s)
        BY <1>6, <2>1, <3>4
      <4>2. i - 1 = j - 1
        BY <1>1, <1>8, <4>1 DEF IsInjective
      <4> QED
        BY <1>1, <4>2
    <3> QED
      BY <3>1, <3>2, <3>3, <3>4
  <2> QED
    BY <1>3, <2>1 DEF IsInjective
<1> QED
  BY <1>2, <1>7, <1>8 DEF t

In(bs, v) == v \in Range(bs[v % children_size])

\* A child more in the buckets of a node.
LEMMA LinkedHas ==
    ASSUME NEW bs \in Buckets, Hashed(bs), NEW w \in SubId, ~In(bs, w)
    PROVE  /\ Linked(bs, w) \in Buckets /\ Hashed(Linked(bs, w))
           /\ \A v \in SubId : In(Linked(bs, w), v) <=> v = w \/ In(bs, v)
<1> DEFINE B == 0 .. children_size - 1
           c == w % children_size
           l == Linked(bs, w)
           t == <<w>> \o bs[c]
<1>1. c \in B
  BY OneBucket
<1>2. bs[c] \in Seq(SubId) /\ DOMAIN bs = B
  BY <1>1 DEF Buckets
<1>3. /\ t \in Seq(SubId)
      /\ Range(t) = Range(bs[c]) \cup {w}
      /\ IsInjective(t)
  <2>1. IsInjective(bs[c])
    BY <1>1 DEF Hashed
  <2> QED
    BY <1>2, <2>1, AtHead DEF In
<1> HIDE DEF t
<1>4. l = [bs EXCEPT ![c] = t]
  BY DEF Linked, t
<1> HIDE DEF l
<1>5. l[c] = t /\ \A b \in B : b # c => l[b] = bs[b]
  BY <1>1, <1>2, <1>4
<1>6. l \in Buckets
  BY <1>1, <1>3, <1>4 DEF Buckets
<1> HIDE DEF B, c
<1>7. Hashed(l)
  <2>1. ASSUME NEW b \in B PROVE IsInjective(l[b]) /\ \A v \in Range(l[b]) : v % children_size = b
    <3>1. CASE b = c
      <4>1. \A v \in Range(bs[c]) : v % children_size = c
        BY <1>1 DEF Hashed, B
      <4> QED
        BY <1>3, <1>5, <3>1, <4>1 DEF c
    <3>2. CASE b # c
      BY <1>5, <3>2 DEF Hashed, B
    <3> QED
      BY <3>1, <3>2
  <2> QED
    BY <2>1 DEF Hashed, B
<1>8. ASSUME NEW v \in SubId PROVE In(l, v) <=> v = w \/ In(bs, v)
  <2>1. v % children_size \in B
    BY OneBucket DEF B
  <2>2. CASE v % children_size = c
    BY <1>3, <1>5, <2>2 DEF In
  <2>3. CASE v % children_size # c
    BY <1>5, <2>1, <2>3 DEF In, c
  <2> QED
    BY <2>2, <2>3
<1> QED
  BY <1>6, <1>7, <1>8 DEF l

LEMMA HasChildIn == ASSUME NEW n, NEW v PROVE HasChild(n, v) <=> In(children[n], v)
BY DEF HasChild, In, ToSet, Range

\* No bucket of a new node has anything.
LEMMA NewNodeEmpty ==
    /\ NewNode \in Buckets /\ Hashed(NewNode)
    /\ \A v \in SubId : ~In(NewNode, v)
<1>1. \A b \in 0 .. children_size - 1 : NewNode[b] = <<>>
  BY DEF NewNode
<1>2. IsInjective(<<>>) /\ Range(<<>>) = {}
  BY DEF IsInjective, Range
<1>3. \A v \in SubId : v % children_size \in 0 .. children_size - 1
  BY OneBucket
<1> QED
  BY <1>1, <1>2, <1>3 DEF NewNode, Buckets, Hashed, In

\* The missing nodes on the way to an identifier.
Missing(o, m) == {Pre(o, i) : i \in m + 1 .. Len(o)}

\* The nodes on the way that get a child.
Grows(o, m, n) == \E i \in m + 1 .. Len(o) : n = Pre(o, i - 1)

Base(o, m, n) == IF n \in Missing(o, m) THEN NewNode ELSE children[n]

\* What the loop of additions leaves.
LEMMA WithNodesIs ==
    ASSUME StashTyped, StashTree, NEW o \in Seq(SubId), NEW m \in Nat, OnWay(o, m)
    PROVE  /\ DOMAIN WithNodes(o) = Nodes \cup Missing(o, m)
           /\ \A n \in Nodes \cup Missing(o, m) :
                 WithNodes(o)[n] = IF Grows(o, m, n) THEN Linked(Base(o, m, n), o[Len(n) + 1])
                                   ELSE Base(o, m, n)
<1> DEFINE new == {SubSeq(o, 1, i) : i \in Len(Closest(o)) + 1 .. Len(o)}
           base == [n \in DOMAIN children \cup new |-> IF n \in new THEN NewNode ELSE children[n]]
<1>1. Len(o) \in Nat /\ m \in 0 .. Len(o)
  BY LenProperties DEF OnWay
<1>2. Len(Closest(o)) = m
  BY <1>1, ClosestIs, PreFacts
<1>3. new = Missing(o, m)
  BY <1>2 DEF Missing, Pre
<1>4. DOMAIN base = Nodes \cup Missing(o, m)
  BY <1>3 DEF Nodes
<1>5. ASSUME NEW n \in Nodes \cup Missing(o, m) PROVE base[n] = Base(o, m, n)
  BY <1>3, <1>5 DEF Nodes, Base
<1>6. ASSUME NEW n PROVE (\E k \in new : n = Front(k)) <=> Grows(o, m, n)
  <2>1. ASSUME NEW i \in m + 1 .. Len(o) PROVE Front(Pre(o, i)) = Pre(o, i - 1)
    <3>1. i - 1 \in Nat /\ (i - 1) + 1 = i /\ (i - 1) + 1 <= Len(o) /\ i - 1 \in 0 .. Len(o)
      BY <1>1
    <3>2. /\ o[(i - 1) + 1] \in SubId
          /\ Pre(o, (i - 1) + 1) = Append(Pre(o, i - 1), o[(i - 1) + 1])
          /\ Pre(o, i - 1) \in Seq(SubId)
      BY <3>1, PreNext, PreFacts
    <3>3. Front(Append(Pre(o, i - 1), o[(i - 1) + 1])) = Pre(o, i - 1)
      BY <3>2, ChildOf
    <3> QED
      BY <3>1, <3>2, <3>3
  <2>2. new = {Pre(o, i) : i \in m + 1 .. Len(o)}
    BY <1>3 DEF Missing
  <2> HIDE DEF new
  <2> QED
    BY <2>1, <2>2 DEF Grows
<1>7. WithNodes(o) = [n \in DOMAIN base |-> IF \E k \in new : n = Front(k)
                                           THEN Linked(base[n], o[Len(n) + 1]) ELSE base[n]]
  BY DEF WithNodes
<1> HIDE DEF base, new
<1>8. ASSUME NEW n \in Nodes \cup Missing(o, m)
      PROVE  WithNodes(o)[n] = IF Grows(o, m, n) THEN Linked(Base(o, m, n), o[Len(n) + 1])
                               ELSE Base(o, m, n)
  <2>1. WithNodes(o)[n] = IF \E k \in new : n = Front(k)
                          THEN Linked(base[n], o[Len(n) + 1]) ELSE base[n]
    BY <1>4, <1>7
  <2> QED
    BY <1>5, <1>6, <2>1
<1> QED
  BY <1>4, <1>7, <1>8

\* The tree an addition leaves, for each node: its buckets, and which children they have.
LEMMA AddedNode ==
    ASSUME StashTyped, StashTree, NEW o \in Seq(SubId), NEW m \in Nat, OnWay(o, m),
           NEW n \in Nodes \cup Missing(o, m)
    PROVE  /\ WithNodes(o)[n] \in Buckets /\ Hashed(WithNodes(o)[n])
           /\ \A v \in SubId : In(WithNodes(o)[n], v) <=> Append(n, v) \in Nodes \cup Missing(o, m)
<1>1. Len(o) \in Nat /\ m \in 0 .. Len(o) /\ \A i \in 0 .. Len(o) : Pre(o, i) \in Nodes <=> i <= m
  BY LenProperties DEF OnWay
<1>2. \A i \in 0 .. Len(o) : Pre(o, i) \in Seq(SubId) /\ Len(Pre(o, i)) = i
  BY PreFacts
<1>3. \A i \in m + 1 .. Len(o) : /\ i \in 0 .. Len(o) /\ i - 1 \in 0 .. Len(o)
                                 /\ (i - 1) + 1 = i /\ ~(i <= m)
                                 /\ o[i] \in SubId
                                 /\ Pre(o, i) = Append(Pre(o, i - 1), o[i])
  <2> TAKE i \in m + 1 .. Len(o)
  <2>1. /\ i \in 0 .. Len(o) /\ i - 1 \in 0 .. Len(o) /\ i - 1 \in Nat
        /\ (i - 1) + 1 = i /\ (i - 1) + 1 <= Len(o) /\ ~(i <= m)
    BY <1>1
  <2>2. o[(i - 1) + 1] \in SubId /\ Pre(o, (i - 1) + 1) = Append(Pre(o, i - 1), o[(i - 1) + 1])
    BY <2>1, PreNext
  <2> QED
    BY <2>1, <2>2
<1>4. n \in Seq(SubId)
  BY <1>2, <1>3 DEF StashTyped, Missing
<1>5. \A k \in Missing(o, m) : k \notin Nodes
  BY <1>1, <1>3 DEF Missing
<1>6. ASSUME NEW v \in SubId, NEW i \in m + 1 .. Len(o)
      PROVE  Append(n, v) = Pre(o, i) <=> n = Pre(o, i - 1) /\ v = o[i]
  <2>1. Pre(o, i) = Append(Pre(o, i - 1), o[i]) /\ o[i] \in SubId /\ Pre(o, i - 1) \in Seq(SubId)
    BY <1>2, <1>3
  <2>2. Front(Append(n, v)) = n /\ Last(Append(n, v)) = v
    BY <1>4, ChildOf
  <2>3. Front(Append(Pre(o, i - 1), o[i])) = Pre(o, i - 1) /\ Last(Append(Pre(o, i - 1), o[i])) = o[i]
    BY <2>1, ChildOf
  <2> QED
    BY <2>1, <2>2, <2>3
<1> DEFINE b == Base(o, m, n)
           w == WithNodes(o)[n]
<1>7. b \in Buckets /\ Hashed(b) /\ \A v \in SubId : In(b, v) <=> Append(n, v) \in Nodes
  <2>1. CASE n \in Missing(o, m)
    <3>1. b = NewNode
      BY <2>1 DEF Base
    <3>2. \A v \in SubId : Append(n, v) \notin Nodes
      <4> TAKE v \in SubId
      <4>1. Append(n, v) # <<>> /\ Front(Append(n, v)) = n
        BY <1>4, ChildOf
      <4> QED
        BY <1>5, <2>1, <4>1 DEF StashTree
    <3> QED
      BY <3>1, <3>2, NewNodeEmpty
  <2>2. CASE n \notin Missing(o, m)
    <3>1. n \in Nodes /\ b = children[n]
      BY <2>2 DEF Base
    <3> QED
      BY <3>1, HasChildIn DEF StashTyped, StashTree
  <2> QED
    BY <2>1, <2>2
<1>8. w = IF Grows(o, m, n) THEN Linked(b, o[Len(n) + 1]) ELSE b
  BY WithNodesIs
<1> HIDE DEF b, w
<1>9. CASE Grows(o, m, n)
  <2>1. PICK i \in m + 1 .. Len(o) : n = Pre(o, i - 1)
    BY <1>9 DEF Grows
  <2>2. Len(n) + 1 = i /\ o[i] \in SubId
    BY <1>2, <1>3, <2>1
  <2>3. w = Linked(b, o[i])
    BY <1>8, <1>9, <2>2
  <2>4. Append(n, o[i]) = Pre(o, i) /\ Pre(o, i) \in Missing(o, m)
    BY <1>3, <2>1 DEF Missing
  <2>5. ~In(b, o[i])
    BY <1>5, <1>7, <2>2, <2>4
  <2>6. /\ w \in Buckets /\ Hashed(w)
        /\ \A v \in SubId : In(w, v) <=> v = o[i] \/ In(b, v)
    BY <1>7, <2>2, <2>3, <2>5, LinkedHas
  <2>7. ASSUME NEW v \in SubId PROVE Append(n, v) \in Missing(o, m) <=> v = o[i]
    <3>1. ASSUME Append(n, v) \in Missing(o, m) PROVE v = o[i]
      <4>1. PICK k \in m + 1 .. Len(o) : Append(n, v) = Pre(o, k)
        BY <3>1 DEF Missing
      <4>2. n = Pre(o, k - 1) /\ v = o[k]
        BY <1>6, <4>1
      <4>3. k = i
        BY <1>2, <1>3, <2>1, <4>2
      <4> QED
        BY <4>2, <4>3
    <3> QED
      BY <2>4, <3>1
  <2>8. \A v \in SubId : In(w, v) <=> Append(n, v) \in Nodes \cup Missing(o, m)
    BY <1>7, <2>6, <2>7
  <2> QED
    BY <2>6, <2>8 DEF w
<1>10. CASE ~Grows(o, m, n)
  <2>1. w = b
    BY <1>8, <1>10
  <2>2. ASSUME NEW v \in SubId PROVE Append(n, v) \notin Missing(o, m)
    <3>1. \A i \in m + 1 .. Len(o) : Append(n, v) # Pre(o, i)
      BY <1>6, <1>10 DEF Grows
    <3> QED
      BY <3>1 DEF Missing
  <2> QED
    BY <1>7, <2>1, <2>2 DEF w
<1> QED
  BY <1>9, <1>10

LEMMA OidIsSeq ==
    ASSUME NEW o \in Oid
    PROVE  o \in Seq(SubId) /\ Len(o) \in 1 .. MaxLen /\ o # <<>> /\ o # None
<1>1. PICK n \in 1 .. MaxLen : o \in [1 .. n -> SubId]
  BY DEF Oid
<1>2. n \in Nat /\ MaxLen \in Nat
  BY StashAssumption
<1>3. o \in Seq(SubId) /\ Len(o) = n
  BY <1>1, <1>2
<1>4. o # <<>>
  BY <1>2, <1>3
<1> QED
  BY <1>1, <1>3, <1>4, StashAssumption

\* Adding data keeps the tree in order.
LEMMA AddKeepsInv ==
    ASSUME StashInv, NEW o \in Oid, children' = WithNodes(o), stashed' = stashed \cup {o}
    PROVE  StashInv'
<1>1. o \in Seq(SubId) /\ Len(o) \in 1 .. MaxLen /\ o # <<>>
  BY OidIsSeq
<1>2. PICK m \in 0 .. Len(o) : OnWay(o, m)
  BY <1>1, WayEnds DEF StashInv
<1>3. Len(o) \in Nat /\ m \in Nat /\ \A i \in 0 .. Len(o) : Pre(o, i) \in Nodes <=> i <= m
  BY <1>1, <1>2, LenProperties DEF OnWay
<1>4. \A i \in 0 .. Len(o) : Pre(o, i) \in Seq(SubId) /\ Len(Pre(o, i)) = i
  BY <1>1, PreFacts
<1> DEFINE A == Nodes \cup Missing(o, m)
<1>5. Nodes' = A
  <2>1. DOMAIN WithNodes(o) = A
    BY <1>1, <1>2, <1>3, WithNodesIs DEF StashInv
  <2> HIDE DEF A
  <2> QED
    BY <2>1 DEF Nodes
<1>6. \A n \in A : /\ children'[n] \in Buckets /\ Hashed(children'[n])
                   /\ \A v \in SubId : In(children'[n], v) <=> Append(n, v) \in A
  BY <1>1, <1>2, <1>3, AddedNode DEF StashInv
<1>7. \A k \in Missing(o, m) : \E i \in m + 1 .. Len(o) : k = Pre(o, i)
  BY DEF Missing
<1>8. o \in A
  <2>1. Pre(o, Len(o)) = o
    BY <1>1, PreEnds
  <2>2. CASE m = Len(o)
    BY <1>3, <2>1, <2>2
  <2>3. CASE m # Len(o)
    <3>1. Len(o) \in m + 1 .. Len(o)
      BY <1>3, <2>3
    <3> QED
      BY <2>1, <3>1 DEF Missing
  <2> QED
    BY <2>2, <2>3
<1>9. StashTyped'
  <2>1. ASSUME NEW n \in A PROVE n \in Seq(SubId) /\ Len(n) <= MaxLen
    <3>1. CASE n \in Nodes
      BY <3>1 DEF StashInv, StashTyped
    <3>2. CASE n \in Missing(o, m)
      <4>1. PICK i \in m + 1 .. Len(o) : n = Pre(o, i)
        BY <1>7, <3>2
      <4>2. i \in 0 .. Len(o) /\ i <= MaxLen
        BY <1>1, <1>3, StashAssumption
      <4> QED
        BY <1>4, <4>1, <4>2
    <3> QED
      BY <3>1, <3>2
  <2>2. stashed' \subseteq (A \cap Oid) \ {<<>>} /\ IsFiniteSet(stashed')
    BY <1>1, <1>8, FS_AddElement DEF StashInv, StashTyped
  <2> HIDE DEF A
  <2> QED
    BY <1>5, <1>6, <2>1, <2>2 DEF StashTyped
<1>10. StashTree'
  <2>1. <<>> \in A
    BY DEF StashInv, StashTree
  <2>2. ASSUME NEW n \in A, n # <<>> PROVE Front(n) \in A
    <3>1. CASE n \in Nodes
      BY <2>2, <3>1 DEF StashInv, StashTree
    <3>2. CASE n \in Missing(o, m)
      <4>1. PICK i \in m + 1 .. Len(o) : n = Pre(o, i)
        BY <1>7, <3>2
      <4>2. i - 1 \in Nat /\ (i - 1) + 1 = i /\ (i - 1) + 1 <= Len(o) /\ i - 1 \in 0 .. Len(o)
        BY <1>3
      <4>3. /\ o[(i - 1) + 1] \in SubId /\ Pre(o, i - 1) \in Seq(SubId)
            /\ Pre(o, (i - 1) + 1) = Append(Pre(o, i - 1), o[(i - 1) + 1])
        BY <1>1, <1>4, <4>2, PreNext
      <4>4. Front(Append(Pre(o, i - 1), o[(i - 1) + 1])) = Pre(o, i - 1)
        BY <4>3, ChildOf
      <4>5. Front(n) = Pre(o, i - 1)
        BY <4>1, <4>2, <4>3, <4>4
      <4>6. CASE i - 1 = m
        BY <1>3, <4>2, <4>5, <4>6
      <4>7. CASE i - 1 # m
        <5>1. i - 1 \in m + 1 .. Len(o)
          BY <1>3, <4>7
        <5> QED
          BY <4>5, <5>1 DEF Missing
      <4> QED
        BY <4>6, <4>7
    <3> QED
      BY <3>1, <3>2
  <2>3. \A n \in A, v \in SubId : HasChild(n, v)' <=> Append(n, v) \in A
    <3> TAKE n \in A, v \in SubId
    <3>1. HasChild(n, v)' <=> In(children'[n], v)
      BY DEF HasChild, In, ToSet, Range
    <3> QED
      BY <1>6, <3>1
  <2> HIDE DEF A
  <2> QED
    BY <1>5, <2>1, <2>2, <2>3 DEF StashTree
<1>11. LeadsToData'
  <2>1. ASSUME NEW n \in A, n # <<>> PROVE \E p \in stashed' : Len(n) <= Len(p) /\ n = Pre(p, Len(n))
    <3>1. CASE n \in Nodes
      BY <2>1, <3>1 DEF StashInv, LeadsToData
    <3>2. CASE n \in Missing(o, m)
      <4>1. PICK i \in m + 1 .. Len(o) : n = Pre(o, i)
        BY <1>7, <3>2
      <4>2. Len(n) = i /\ i <= Len(o)
        BY <1>3, <1>4, <4>1
      <4> QED
        BY <4>1, <4>2
    <3> QED
      BY <3>1, <3>2
  <2> HIDE DEF A
  <2> QED
    BY <1>5, <2>1 DEF LeadsToData, Pre
<1> QED
  BY <1>9, <1>10, <1>11 DEF StashInv

LEMMA StashNextInv == StashInv /\ [StashNext]_stashVars => StashInv'
<1>0. StashInit' => StashInv'
  BY StashInitInv, PTL
<1> SUFFICES ASSUME StashInv, [StashNext]_stashVars PROVE StashInv'
  OBVIOUS
<1>1. CASE AddData
  BY <1>1, AddKeepsInv DEF AddData
<1>2. CASE FreeStash
  <2>1. StashInit'
    BY <1>2 DEF FreeStash, StashInit
  <2>2. StashInit' => StashInv'
    BY <1>0
  <2> QED
    BY <2>1, <2>2
<1>3. CASE UNCHANGED stashVars
  BY <1>3 DEF stashVars, StashInv, StashTyped, StashTree, LeadsToData, Nodes, HasChild
<1> QED
  BY <1>1, <1>2, <1>3 DEF StashNext

\* Additions in any order, and freeing it all, keep the tree and its buckets in order.
THEOREM StashInvariance == StashSpec => []StashInv
<1> QED
  BY StashInitInv, StashNextInv, PTL DEF StashSpec

\* A lookup finds what is there.
LEMMA InvFinds == StashInv => FindsExactly
<1> SUFFICES ASSUME StashInv, NEW o \in Oid PROVE GetData(o) = IF o \in stashed THEN o ELSE None
  BY DEF FindsExactly
<1>1. o \in Seq(SubId) /\ o # <<>> /\ o # None
  BY OidIsSeq
<1>2. PICK m \in 0 .. Len(o) : OnWay(o, m)
  BY <1>1, WayEnds DEF StashInv
<1>3. Len(o) \in Nat /\ m \in Nat /\ \A i \in 0 .. Len(o) : Pre(o, i) \in Nodes <=> i <= m
  BY <1>1, <1>2, LenProperties DEF OnWay
<1>4. Closest(o) = Pre(o, m)
  BY <1>1, <1>2, <1>3, ClosestIs DEF StashInv
<1>5. None \notin stashed
  BY OidIsSeq DEF StashInv, StashTyped
<1>6. CASE o \in stashed
  <2>1. o \in Nodes
    BY <1>6 DEF StashInv, StashTyped
  <2>2. Pre(o, Len(o)) = o /\ Len(o) \in 0 .. Len(o)
    BY <1>1, <1>3, PreEnds
  <2>3. m = Len(o)
    BY <1>2, <1>3, <2>1, <2>2
  <2> QED
    BY <1>4, <1>6, <2>2, <2>3 DEF GetData, GetNode
<1>7. CASE o \notin stashed
  BY <1>5, <1>7 DEF GetData, GetNode
<1> QED
  BY <1>6, <1>7

-----------------------------------------------------------------------------
(* The order of the loops, and saving                                      *)

\* The children of a node in the order of the loops: each once, bucket by bucket.
Ordered(n, order) ==
    /\ order \in Seq(SubId) /\ IsInjective(order)
    /\ Range(order) = {v \in SubId : Append(n, v) \in Nodes}
    /\ \A p, q \in 1 .. Len(order) :
          order[p] % children_size < order[q] % children_size => p < q

LEMMA LoopOrder ==
    ASSUME StashTyped, StashTree, NEW n \in Nodes
    PROVE  Ordered(n, InLoopOrder(n))
<1> DEFINE cs == children_size
           ss == [b \in 1 .. cs |-> children[n][b - 1]]
           f == InLoopOrder(n)
<1>1. cs \in Nat \ {0}
  BY StashAssumption
<1>2. children[n] \in Buckets /\ Hashed(children[n])
  BY DEF StashTyped
<1>3. \A b \in 1 .. cs : b - 1 \in 0 .. cs - 1
  BY <1>1
<1>4. ss \in Seq(Seq(SubId)) /\ Len(ss) = cs
  <2>1. \A b \in 1 .. cs : children[n][b - 1] \in Seq(SubId)
    BY <1>2, <1>3 DEF Buckets
  <2>2. ss \in [1 .. cs -> Seq(SubId)]
    BY <2>1
  <2> HIDE DEF ss
  <2> QED
    BY <1>1, <2>2
<1>5. \A b \in 1 .. cs : /\ ss[b] \in Seq(SubId) /\ IsInjective(ss[b])
                         /\ \A v \in Range(ss[b]) : v % cs = b - 1
  BY <1>2, <1>3 DEF Buckets, Hashed
<1>6. f = FlattenSeq(ss)
  BY DEF InLoopOrder
<1>7. \A v \in SubId : Append(n, v) \in Nodes <=> In(children[n], v)
  BY HasChildIn DEF StashTree
<1>8. \A v \in SubId : In(children[n], v) <=> \E b \in 1 .. cs : v \in Range(ss[b])
  <2> TAKE v \in SubId
  <2>1. v % cs \in 0 .. cs - 1
    BY OneBucket
  <2>2. (v % cs) + 1 \in 1 .. cs /\ ((v % cs) + 1) - 1 = v % cs
    BY <1>1, <2>1
  <2>3. ss[(v % cs) + 1] = children[n][v % cs]
    BY <2>2
  <2>4. \A b \in 1 .. cs : ss[b] = children[n][b - 1]
    OBVIOUS
  <2> HIDE DEF ss
  <2> QED
    BY <1>5, <2>2, <2>3, <2>4 DEF In
<1> HIDE DEF ss, cs, f
<1>9. f \in Seq(SubId)
  BY <1>4, <1>6, FlattenParts
<1>10. IsInjective(f)
  <2>1. \A b, c \in 1 .. cs : b # c => Range(ss[b]) \cap Range(ss[c]) = {}
    <3> TAKE b, c \in 1 .. cs
    <3>1. b - 1 = c - 1 => b = c
      BY <1>1
    <3> QED
      BY <1>5, <3>1
  <2> QED
    BY <1>4, <1>5, <1>6, <2>1, FlattenInjective
<1>11. Range(f) = {v \in SubId : Append(n, v) \in Nodes}
  <2>1. \A v : v \in Range(f) <=> \E b \in 1 .. cs : v \in Range(ss[b])
    BY <1>4, <1>6, FlattenRange
  <2>2. \A v \in Range(f) : v \in SubId
    BY <1>9, LenProperties DEF Range
  <2> QED
    BY <1>7, <1>8, <2>1, <2>2
<1>12. ASSUME NEW p \in 1 .. Len(f), NEW q \in 1 .. Len(f), f[p] % cs < f[q] % cs PROVE p < q
  <2>1. PICK end \in [0 .. Len(ss) -> Nat] : PartsOf(f, ss, end, Len(ss))
    BY <1>4, <1>6, FlattenParts
  <2>2. Len(f) \in Nat
    BY <1>9, LenProperties
  <2>3. IsAt(f, ss, end, p) /\ IsAt(f, ss, end, q)
    BY <1>4, <2>1, PartAt
  <2>4. PICK i \in 1 .. Len(ss) : \E j \in 1 .. Len(ss[i]) : p = end[i - 1] + j /\ f[p] = ss[i][j]
    BY <2>3 DEF IsAt
  <2>5. PICK j \in 1 .. Len(ss[i]) : p = end[i - 1] + j /\ f[p] = ss[i][j]
    BY <2>4
  <2>6. PICK k \in 1 .. Len(ss) : \E l \in 1 .. Len(ss[k]) : q = end[k - 1] + l /\ f[q] = ss[k][l]
    BY <2>3 DEF IsAt
  <2>7. PICK l \in 1 .. Len(ss[k]) : q = end[k - 1] + l /\ f[q] = ss[k][l]
    BY <2>6
  <2>8. f[p] \in Range(ss[i]) /\ f[q] \in Range(ss[k])
    BY <1>4, <1>5, <2>5, <2>7, LenProperties DEF Range
  <2>9. f[p] % cs = i - 1 /\ f[q] % cs = k - 1
    BY <1>4, <1>5, <2>8
  <2>10. i < k
    BY <1>1, <1>4, <1>12, <2>9
  <2> QED
    BY <1>4, <2>1, <2>2, <2>5, <2>7, <2>10, PartOrder
<1> QED
  BY <1>9, <1>10, <1>11, <1>12 DEF Ordered, cs, f

\* The data at a node and below it.
Under(c) == {o \in stashed : Len(c) <= Len(o) /\ c = Pre(o, Len(c))}

\* What is below a node is at one of its children.
LEMMA BelowNode ==
    ASSUME StashTyped, StashTree, NEW n \in Nodes, NEW o \in Under(n), o # n
    PROVE  /\ Len(n) + 1 \in 1 .. Len(o) /\ o[Len(n) + 1] \in SubId
           /\ Append(n, o[Len(n) + 1]) \in Nodes
           /\ o \in Under(Append(n, o[Len(n) + 1]))
<1>1. o \in Nodes /\ o \in Seq(SubId) /\ n \in Seq(SubId) /\ Len(n) <= Len(o) /\ n = Pre(o, Len(n))
  BY DEF Under, StashTyped
<1>2. Len(n) \in Nat /\ Len(o) \in Nat
  BY <1>1, LenProperties
<1>3. Pre(o, Len(o)) = o
  BY <1>1, PreEnds
<1>4. Len(n) # Len(o)
  BY <1>1, <1>3
<1>5. Len(n) + 1 \in 0 .. Len(o) /\ Len(n) + 1 \in 1 .. Len(o) /\ Len(n) + 1 <= Len(o)
  BY <1>1, <1>2, <1>4
<1>6. o[Len(n) + 1] \in SubId /\ Pre(o, Len(n) + 1) = Append(n, o[Len(n) + 1])
  BY <1>1, <1>2, <1>5, PreNext
<1>7. Pre(o, Len(n) + 1) \in Nodes /\ Len(Pre(o, Len(n) + 1)) = Len(n) + 1
  BY <1>1, <1>5, WayToNode, PreFacts
<1> QED
  BY <1>5, <1>6, <1>7 DEF Under

\* What is at a child is below the node.
LEMMA AboveChild ==
    ASSUME StashTyped, NEW n \in Seq(SubId), NEW v \in SubId, NEW o \in Under(Append(n, v))
    PROVE  o \in Under(n) /\ o # n /\ o[Len(n) + 1] = v /\ Len(n) + 1 <= Len(o)
<1> DEFINE c == Append(n, v)
<1>1. c \in Seq(SubId) /\ Len(c) = Len(n) + 1 /\ Len(n) \in Nat /\ c[Len(n) + 1] = v
      /\ \A j \in 1 .. Len(n) : c[j] = n[j]
  BY AppendProperties, LenProperties
<1>2. o \in Seq(SubId) /\ Len(o) \in Nat /\ Len(c) <= Len(o) /\ c = Pre(o, Len(c)) /\ o \in stashed
  BY LenProperties DEF Under, StashTyped
<1> HIDE DEF c
<1>3. Len(c) \in 0 .. Len(o) /\ Len(n) \in 0 .. Len(o) /\ Len(n) + 1 \in 1 .. Len(c)
  BY <1>1, <1>2
<1>4. \A j \in 1 .. Len(c) : c[j] = o[j]
  BY <1>2, <1>3, PreFacts
<1>5. Pre(o, Len(n)) \in Seq(SubId) /\ Len(Pre(o, Len(n))) = Len(n)
      /\ \A j \in 1 .. Len(n) : Pre(o, Len(n))[j] = o[j]
  BY <1>2, <1>3, PreFacts
<1>6. \A j \in 1 .. Len(n) : j \in 1 .. Len(c)
  BY <1>1
<1>7. Pre(o, Len(n)) = n
  BY <1>1, <1>4, <1>5, <1>6, SameOid
<1>8. Len(n) <= Len(o) /\ Len(n) # Len(o) /\ Len(n) + 1 <= Len(o)
  BY <1>1, <1>2
<1> QED
  BY <1>1, <1>2, <1>3, <1>4, <1>7, <1>8 DEF Under, c

Listed == Seq(Seq(SubId))

\* What is saved for the i-th child of a node, if f says what is saved below it.
Part(n, i, f) == LET child == Append(n, InLoopOrder(n)[i])
                 IN  (IF child \in stashed THEN <<child>> ELSE <<>>) \o f[child]

Parts(n, f) == [i \in DOMAIN InLoopOrder(n) |-> Part(n, i, f)]

LEMMA PartTyped ==
    ASSUME StashTyped, StashTree, NEW n \in Nodes, NEW f \in [Nodes -> Listed]
    PROVE  /\ Parts(n, f) \in Seq(Listed) /\ Len(Parts(n, f)) = Len(InLoopOrder(n))
           /\ \A i \in 1 .. Len(InLoopOrder(n)) :
                 /\ Append(n, InLoopOrder(n)[i]) \in Nodes /\ InLoopOrder(n)[i] \in SubId
                 /\ Parts(n, f)[i] = Part(n, i, f) /\ Part(n, i, f) \in Listed
<1> DEFINE s == InLoopOrder(n)
<1>1. Ordered(n, s)
  BY LoopOrder
<1> HIDE DEF s
<1>2. s \in Seq(SubId) /\ Len(s) \in Nat /\ DOMAIN s = 1 .. Len(s)
  BY <1>1, LenProperties DEF Ordered
<1>3. ASSUME NEW i \in 1 .. Len(s)
      PROVE  s[i] \in SubId /\ Append(n, s[i]) \in Nodes /\ Part(n, i, f) \in Listed
  <2>1. s[i] \in SubId /\ Append(n, s[i]) \in Nodes
    BY <1>1, <1>2 DEF Ordered, Range
  <2> DEFINE c == Append(n, s[i])
  <2>2. c \in Seq(SubId) /\ f[c] \in Listed
    BY <2>1 DEF StashTyped
  <2>3. Part(n, i, f) = (IF c \in stashed THEN <<c>> ELSE <<>>) \o f[c]
    BY DEF Part, s
  <2> HIDE DEF c
  <2>4. (IF c \in stashed THEN <<c>> ELSE <<>>) \in Seq(Seq(SubId))
    BY <2>2
  <2> HIDE DEF s
  <2> QED
    BY <2>1, <2>2, <2>3, <2>4, ConcatProperties DEF Listed
<1>4. Parts(n, f) \in [1 .. Len(s) -> Listed] /\ \A i \in 1 .. Len(s) : Parts(n, f)[i] = Part(n, i, f)
  BY <1>2, <1>3 DEF Parts, s
<1>5. Parts(n, f) \in Seq(Listed) /\ Len(Parts(n, f)) = Len(s)
  BY <1>2, <1>4
<1> QED
  BY <1>3, <1>4, <1>5 DEF s

\* f says of nodes at a depth of at least d what is saved below them.
Saves(f, d) == \A n \in Nodes : Len(n) >= d => Range(f[n]) = Under(n) \ {n} /\ IsInjective(f[n])

\* One child, with all below it.
LEMMA PartSaves ==
    ASSUME StashTyped, StashTree, NEW n \in Nodes, NEW f \in [Nodes -> Listed],
           Saves(f, Len(n) + 1), NEW i \in 1 .. Len(InLoopOrder(n))
    PROVE  /\ Range(Part(n, i, f)) = Under(Append(n, InLoopOrder(n)[i]))
           /\ IsInjective(Part(n, i, f))
<1> DEFINE v == InLoopOrder(n)[i]
           c == Append(n, v)
<1>1. v \in SubId /\ c \in Nodes /\ n \in Seq(SubId)
  BY PartTyped DEF StashTyped
<1>2. Len(c) = Len(n) + 1 /\ c \in Seq(SubId) /\ Len(n) \in Nat
  BY <1>1, ChildOf, LenProperties
<1>3. Part(n, i, f) = (IF c \in stashed THEN <<c>> ELSE <<>>) \o f[c]
  BY DEF Part
<1> HIDE DEF c, v
<1>4. Range(f[c]) = Under(c) \ {c} /\ IsInjective(f[c]) /\ f[c] \in Seq(Seq(SubId))
  BY <1>1, <1>2 DEF Saves, Listed
<1>5. c \in stashed <=> c \in Under(c)
  <2>1. Pre(c, Len(c)) = c /\ Len(c) \in Nat
    BY <1>2, PreEnds
  <2> QED
    BY <2>1 DEF Under
<1>6. CASE c \in stashed
  <2>1. Part(n, i, f) = <<c>> \o f[c]
    BY <1>3, <1>6
  <2>2. /\ Range(<<c>> \o f[c]) = Range(f[c]) \cup {c}
        /\ IsInjective(f[c]) /\ c \notin Range(f[c]) => IsInjective(<<c>> \o f[c])
    BY <1>2, <1>4, AtHead
  <2> QED
    BY <1>4, <1>5, <1>6, <2>1, <2>2 DEF c, v
<1>7. CASE c \notin stashed
  <2>1. Part(n, i, f) = f[c]
    BY <1>3, <1>4, <1>7, ConcatEmptySeq
  <2> QED
    BY <1>4, <1>5, <1>7, <2>1 DEF c, v
<1> QED
  BY <1>6, <1>7

\* All the children of a node.
LEMMA NodeSaves ==
    ASSUME StashTyped, StashTree, NEW n \in Nodes, NEW f \in [Nodes -> Listed], Saves(f, Len(n) + 1)
    PROVE  /\ Range(FlattenSeq(Parts(n, f))) = Under(n) \ {n}
           /\ IsInjective(FlattenSeq(Parts(n, f)))
<1> DEFINE s == InLoopOrder(n)
           ps == Parts(n, f)
<1>1. Ordered(n, s)
  BY LoopOrder
<1>2. /\ ps \in Seq(Seq(Seq(SubId))) /\ Len(ps) = Len(s)
      /\ \A i \in 1 .. Len(s) : ps[i] = Part(n, i, f) /\ s[i] \in SubId
  BY PartTyped DEF Listed
<1>3. \A i \in 1 .. Len(s) : /\ Range(Part(n, i, f)) = Under(Append(n, s[i]))
                             /\ IsInjective(Part(n, i, f))
  BY PartSaves
<1>4. n \in Seq(SubId)
  BY DEF StashTyped
<1> HIDE DEF s, ps
<1>5. DOMAIN s = 1 .. Len(s)
  BY <1>1, LenProperties DEF Ordered
<1>6. \A i \in 1 .. Len(s) : \A o \in Under(Append(n, s[i])) : o \in Under(n) /\ o # n /\ o[Len(n) + 1] = s[i]
  BY <1>2, <1>4, AboveChild
<1>0. \A i \in 1 .. Len(s) : Range(ps[i]) = Under(Append(n, s[i])) /\ IsInjective(ps[i])
  BY <1>2, <1>3
<1>7. IsInjective(FlattenSeq(ps))
  <2>1. \A i \in 1 .. Len(ps) : IsInjective(ps[i])
    BY <1>0, <1>2
  <2>2. ASSUME NEW i \in 1 .. Len(ps), NEW k \in 1 .. Len(ps), i # k PROVE Range(ps[i]) \cap Range(ps[k]) = {}
    <3>1. s[i] # s[k]
      BY <1>1, <1>2, <1>5, <2>2 DEF Ordered, IsInjective
    <3>2. /\ Range(ps[i]) = Under(Append(n, s[i])) /\ Range(ps[k]) = Under(Append(n, s[k]))
          /\ i \in 1 .. Len(s) /\ k \in 1 .. Len(s)
      BY <1>0, <1>2
    <3> QED
      BY <1>6, <3>1, <3>2
  <2> QED
    BY <1>2, <2>1, <2>2, FlattenInjective
<1>8. \A o : o \in Range(FlattenSeq(ps)) <=> \E i \in 1 .. Len(s) : o \in Under(Append(n, s[i]))
  <2>1. \A o : o \in Range(FlattenSeq(ps)) <=> \E i \in 1 .. Len(ps) : o \in Range(ps[i])
    BY <1>2, FlattenRange
  <2>2. \A i \in 1 .. Len(ps) : i \in 1 .. Len(s)
    BY <1>2
  <2>3. \A i \in 1 .. Len(s) : i \in 1 .. Len(ps)
    BY <1>2
  <2> QED
    BY <1>0, <2>1, <2>2, <2>3, Zenon
<1>9. ASSUME NEW o \in Under(n), o # n PROVE \E i \in 1 .. Len(s) : o \in Under(Append(n, s[i]))
  <2>1. /\ o[Len(n) + 1] \in SubId /\ Append(n, o[Len(n) + 1]) \in Nodes
        /\ o \in Under(Append(n, o[Len(n) + 1]))
    BY <1>9, BelowNode
  <2>2. o[Len(n) + 1] \in Range(s)
    BY <1>1, <2>1 DEF Ordered
  <2>3. PICK i \in 1 .. Len(s) : s[i] = o[Len(n) + 1]
    BY <1>5, <2>2 DEF Range
  <2> QED
    BY <2>1, <2>3
<1>10. Range(FlattenSeq(ps)) = Under(n) \ {n}
  BY <1>6, <1>8, <1>9
<1> QED
  BY <1>7, <1>10 DEF ps

LEMMA FlatTyped ==
    ASSUME StashTyped, StashTree, NEW n \in Nodes, NEW f \in [Nodes -> Listed]
    PROVE  FlattenSeq(Parts(n, f)) \in Listed
<1>1. Parts(n, f) \in Seq(Seq(Seq(SubId)))
  BY PartTyped DEF Listed
<1> QED
  BY <1>1, FlattenParts DEF Listed

\* All data is saved, each once: by induction on the levels below a node.
LEMMA InvSaves == StashInv => SavesAll
<1> SUFFICES ASSUME StashInv PROVE ToSet(Dump) = stashed /\ Len(Dump) = Cardinality(stashed)
  BY DEF SavesAll
<1> DEFINE N == MaxLen
           V == [Nodes -> Listed]
           Level(k, f) == [n \in DOMAIN children |-> IF k = 0 THEN <<>> ELSE FlattenSeq(Parts(n, f))]
           step == [x \in (1 .. N) \X V |-> Level(x[1], x[2])]
           b == [n \in DOMAIN children |-> <<>>]
           below[k \in 0 .. MaxLen] ==
               [n \in DOMAIN children |->
                   IF k = 0 THEN <<>>
                   ELSE FlattenSeq([i \in DOMAIN InLoopOrder(n) |->
                            LET child == Append(n, InLoopOrder(n)[i])
                            IN  (IF child \in stashed THEN <<child>> ELSE <<>>) \o below[k - 1][child]])]
           Eqn(g) == [k \in 0 .. MaxLen |-> Level(k, g[k - 1])]
<1>1. N \in Nat /\ StashTyped /\ StashTree
  BY StashAssumption DEF StashInv
<1>2. b \in V
  BY DEF Listed, Nodes
<1>3. \A k \in 1 .. N, f \in V : Level(k, f) \in V
  <2> TAKE k \in 1 .. N, f \in V
  <2>1. \A n \in Nodes : FlattenSeq(Parts(n, f)) \in Listed
    BY <1>1, FlatTyped
  <2> QED
    BY <2>1 DEF Nodes
<1>4. step \in [(1 .. N) \X V -> V]
  <2> HIDE DEF N, V, Level
  <2> QED
    BY <1>3
<1>5. PICK g \in [0 .. N -> V] : Stepwise(g, step, b, N)
  <2> HIDE DEF N, V, step, b
  <2> QED
    BY <1>1, <1>2, <1>4, StepwiseExists
<1>6. \A k \in 1 .. N : g[k] = Level(k, g[k - 1])
  <2> TAKE k \in 1 .. N
  <2>1. g[k - 1] \in V
    <3>1. k - 1 \in 0 .. N
      BY <1>1
    <3> HIDE DEF V, N
    <3> QED
      BY <3>1
  <2>2. g[k] = step[<<k, g[k - 1]>>]
    BY <1>5 DEF Stepwise
  <2> HIDE DEF V, N, Level
  <2> QED
    BY <2>1, <2>2
<1>7. \A f : Level(0, f) = b
  OBVIOUS
<1>8. g[0] = b
  BY <1>5 DEF Stepwise
<1>9. g = Eqn(g)
  <2>1. ASSUME NEW k \in 0 .. N PROVE g[k] = Level(k, g[k - 1])
    <3>1. k = 0 \/ k \in 1 .. N
      BY <1>1
    <3> HIDE DEF Level, N, V, b
    <3> QED
      BY <1>6, <1>7, <1>8, <3>1
  <2> HIDE DEF Level, V
  <2> QED
    BY <2>1
<1>10. below = CHOOSE h : h = Eqn(h)
  BY DEF Parts, Part
<1> HIDE DEF below
<1>11. below = Eqn(below)
  <2> HIDE DEF Level
  <2> QED
    BY <1>9, <1>10
<1>12. \A k \in 0 .. N : below[k] = Level(k, below[k - 1])
  <2> HIDE DEF Level
  <2> QED
    BY <1>11
<1> DEFINE T == {k \in Nat : k <= N => below[k] \in V /\ Saves(below[k], N - k)}
<1>13. 0 \in T
  <2>1. 0 \in 0 .. N
    BY <1>1
  <2>2. below[0] = b
    <3> HIDE DEF Level, b
    <3> QED
      BY <1>7, <1>12, <2>1
  <2>3. Saves(b, N - 0)
    <3>1. ASSUME NEW n \in Nodes, Len(n) >= N - 0 PROVE Range(b[n]) = Under(n) \ {n} /\ IsInjective(b[n])
      <4>1. b[n] = <<>>
        BY DEF Nodes
      <4>2. Range(<<>>) = {} /\ IsInjective(<<>>)
        BY DEF Range, IsInjective
      <4>3. ASSUME NEW o \in Under(n), o # n PROVE FALSE
        <5>1. Append(n, o[Len(n) + 1]) \in Nodes /\ o[Len(n) + 1] \in SubId
          BY <1>1, <4>3, BelowNode
        <5>2. n \in Seq(SubId) /\ Len(n) \in Nat
          BY <1>1, LenProperties DEF StashTyped
        <5>3. Len(Append(n, o[Len(n) + 1])) = Len(n) + 1
          BY <5>1, <5>2, ChildOf
        <5>4. Len(n) + 1 <= MaxLen
          BY <1>1, <5>1, <5>3 DEF StashTyped
        <5> QED
          BY <1>1, <3>1, <5>2, <5>4
      <4> QED
        BY <4>1, <4>2, <4>3
    <3> HIDE DEF b, N
    <3> QED
      BY <3>1 DEF Saves
  <2> HIDE DEF b, V
  <2> QED
    BY <1>2, <2>2, <2>3
<1>14. ASSUME NEW k \in Nat, k \in T PROVE k + 1 \in T
  <2> SUFFICES ASSUME k + 1 <= N PROVE below[k + 1] \in V /\ Saves(below[k + 1], N - (k + 1))
    OBVIOUS
  <2>1. k + 1 \in 0 .. N /\ k + 1 \in 1 .. N /\ (k + 1) - 1 = k /\ k <= N /\ k + 1 # 0
    BY <1>1
  <2>2. below[k] \in V /\ Saves(below[k], N - k)
    BY <1>14, <2>1
  <2>3. below[k + 1] = Level(k + 1, below[k])
    <3> HIDE DEF Level
    <3> QED
      BY <1>12, <2>1
  <2>4. Level(k + 1, below[k]) \in V
    <3> HIDE DEF Level, V, N
    <3> QED
      BY <1>3, <2>1, <2>2
  <2> DEFINE f == below[k]
  <2>5. \A n \in Nodes : Level(k + 1, f)[n] = FlattenSeq(Parts(n, f))
    <3> HIDE DEF f
    <3> QED
      BY <2>1 DEF Nodes
  <2> HIDE DEF Level, f, T
  <2>6. ASSUME NEW n \in Nodes, Len(n) >= N - (k + 1)
        PROVE  Range(Level(k + 1, f)[n]) = Under(n) \ {n} /\ IsInjective(Level(k + 1, f)[n])
    <3>1. Len(n) \in Nat
      BY <1>1, LenProperties DEF StashTyped
    <3>2. Saves(f, Len(n) + 1)
      <4>1. \A c \in Nodes : Len(c) >= Len(n) + 1 => Len(c) >= N - k
        <5> TAKE c \in Nodes
        <5>1. Len(c) \in Nat
          BY <1>1, LenProperties DEF StashTyped
        <5> QED
          BY <1>1, <2>6, <3>1, <5>1
      <4>2. Saves(f, N - k)
        BY <2>2 DEF f
      <4> QED
        BY <4>1, <4>2 DEF Saves
    <3>3. f \in [Nodes -> Listed]
      BY <2>2 DEF f
    <3>4. Range(FlattenSeq(Parts(n, f))) = Under(n) \ {n} /\ IsInjective(FlattenSeq(Parts(n, f)))
      BY <1>1, <3>2, <3>3, NodeSaves
    <3> QED
      BY <2>5, <3>4
  <2>7. Saves(Level(k + 1, f), N - (k + 1))
    BY <2>6 DEF Saves
  <2> QED
    BY <2>3, <2>4, <2>7 DEF f
<1> HIDE DEF T
<1>15. below[N] \in V /\ Saves(below[N], N - N)
  <2>1. Nat \subseteq T
    BY <1>13, <1>14, SetInduction
  <2> QED
    BY <1>1, <2>1 DEF T
<1> DEFINE d == below[N][<<>>]
<1>16. Dump = d
  BY DEF Dump, below
<1>17. <<>> \in Nodes /\ Len(<<>>) = 0 /\ 0 >= N - N
  BY <1>1 DEF StashTree
<1>18. d \in Seq(Seq(SubId)) /\ Range(d) = Under(<<>>) \ {<<>>} /\ IsInjective(d)
  <2>1. d \in Listed
    BY <1>15, <1>17
  <2>2. Range(d) = Under(<<>>) \ {<<>>} /\ IsInjective(d)
    <3> HIDE DEF V, N
    <3> QED
      BY <1>15, <1>17 DEF Saves
  <2> QED
    BY <2>1, <2>2 DEF Listed
<1> HIDE DEF d
<1>19. Under(<<>>) \ {<<>>} = stashed
  <2>1. \A o \in stashed : Len(<<>>) <= Len(o) /\ Pre(o, 0) = <<>> /\ o # <<>>
    <3> TAKE o \in stashed
    <3>1. o \in Seq(SubId) /\ o # <<>>
      BY <1>1 DEF StashTyped
    <3> QED
      BY <1>17, <3>1, PreEnds, LenProperties
  <2> QED
    BY <1>17, <2>1 DEF Under
<1>20. Cardinality(Range(d)) = Len(d)
  BY <1>18, InjectiveCount
<1> QED
  BY <1>16, <1>18, <1>19, <1>20 DEF ToSet, Range

-----------------------------------------------------------------------------
(* Going from node to node                                                 *)

\* The children of a node above a bound.
AboveIn(n, bound) == {v \in SubId : Append(n, v) \in Nodes /\ v > bound}

\* The loops find the least of them, whichever way they end.
LEMMA LeastChildIs ==
    ASSUME StashTyped, StashTree, NEW n \in Nodes, NEW bound \in Int
    PROVE  /\ AboveIn(n, bound) = {} => LeastChild(n, bound) = None
           /\ AboveIn(n, bound) # {} => /\ LeastChild(n, bound) \in AboveIn(n, bound)
                                      /\ \A w \in AboveIn(n, bound) : LeastChild(n, bound) <= w
<1> DEFINE cs == children_size
           s == InLoopOrder(n)
           above == {i \in DOMAIN s : s[i] > bound}
           ends == {i \in above : s[i] <= cs - 1}
           A == AboveIn(n, bound)
<1>1. cs \in Nat \ {0} /\ SubId \subseteq Nat
  BY StashAssumption
<1>2. LeastChild(n, bound) = IF above = {} THEN None
                             ELSE IF ends # {} THEN s[Min(ends)] ELSE Min({s[i] : i \in above})
  BY DEF LeastChild
<1>3. Ordered(n, s)
  BY LoopOrder
<1> HIDE DEF s, cs
<1>4. s \in Seq(SubId) /\ DOMAIN s = 1 .. Len(s) /\ Len(s) \in Nat
  BY <1>3, LenProperties DEF Ordered
<1>5. \A i \in 1 .. Len(s) : s[i] \in SubId /\ s[i] \in Nat /\ Append(n, s[i]) \in Nodes
  BY <1>1, <1>3, <1>4 DEF Ordered, Range
<1>6. \A v \in A : \E i \in above : v = s[i]
  BY <1>3 DEF Ordered, Range, AboveIn
<1>7. \A i \in above : s[i] \in A
  BY <1>4, <1>5 DEF AboveIn
<1>8. CASE above = {}
  BY <1>2, <1>6, <1>8
<1>9. CASE above # {} /\ ends # {}
  <2> DEFINE e == Min(ends)
  <2>1. ends \in SUBSET Nat
    BY <1>4
  <2>2. e \in ends /\ \A j \in ends : e <= j
    BY <1>9, <2>1, LeastOf
  <2>3. LeastChild(n, bound) = s[e]
    BY <1>2, <1>9
  <2> HIDE DEF e
  <2>4. e \in above /\ e \in 1 .. Len(s) /\ s[e] <= cs - 1
    BY <1>4, <2>2
  <2>5. ASSUME NEW w \in A PROVE s[e] <= w
    <3> SUFFICES ASSUME w < s[e] PROVE FALSE
      BY <1>1, <1>5, <2>4 DEF AboveIn
    <3>1. PICK k \in above : w = s[k]
      BY <1>6
    <3>2. k \in 1 .. Len(s) /\ w \in Nat /\ s[e] \in Nat
      BY <1>4, <1>5, <2>4, <3>1
    <3>3. w <= cs - 1
      BY <1>1, <2>4, <3>2
    <3>4. e <= k
      BY <2>2, <3>1, <3>3
    <3>5. w % cs = w /\ s[e] % cs = s[e]
      <4> DEFINE x == s[e]
      <4>1. x \in Nat /\ x <= cs - 1
        BY <2>4, <3>2
      <4> HIDE DEF x
      <4>2. x % cs = x /\ w % cs = w
        BY <1>1, <3>2, <3>3, <4>1
      <4> QED
        BY <4>2 DEF x
    <3>6. s[k] % cs < s[e] % cs
      BY <3>1, <3>5
    <3>7. k < e
      BY <1>3, <2>4, <3>2, <3>6 DEF Ordered, cs
    <3> QED
      BY <1>4, <2>4, <3>2, <3>4, <3>7
  <2> QED
    BY <1>7, <2>3, <2>4, <2>5
<1>10. CASE above # {} /\ ends = {}
  <2> DEFINE I == {s[i] : i \in above}
  <2>1. I = A
    BY <1>6, <1>7
  <2>2. I \in SUBSET Nat /\ I # {}
    BY <1>4, <1>5, <1>10
  <2>3. Min(I) \in I /\ \A j \in I : Min(I) <= j
    BY <2>2, LeastOf
  <2>4. LeastChild(n, bound) = Min(I)
    BY <1>2, <1>10
  <2> QED
    BY <2>1, <2>2, <2>3, <2>4
<1> QED
  BY <1>8, <1>9, <1>10

\* p goes on from n, above a bound.
Right(n, bound, p) == Len(n) < Len(p) /\ Pre(p, Len(n)) = n /\ p[Len(n) + 1] > bound

\* p leaves the way to n upwards.
Past(n, p) == \E i \in 1 .. Len(n) : i <= Len(p) /\ Pre(p, i - 1) = Pre(n, i - 1) /\ n[i] < p[i]

Beyond(n, bound, p) == Right(n, bound, p) \/ Past(n, p)

\* Identifiers with the same beginning.
LEMMA PreSame ==
    ASSUME NEW o \in Seq(SubId), NEW p \in Seq(SubId), NEW i \in Nat, i <= Len(o), i <= Len(p)
    PROVE  Pre(o, i) = Pre(p, i) <=> \A j \in 1 .. i : o[j] = p[j]
<1>1. i \in 0 .. Len(o) /\ i \in 0 .. Len(p)
  BY LenProperties
<1>2. /\ Pre(o, i) \in Seq(SubId) /\ Len(Pre(o, i)) = i
      /\ \A j \in 1 .. i : Pre(o, i)[j] = o[j]
  BY <1>1, PreFacts
<1>3. /\ Pre(p, i) \in Seq(SubId) /\ Len(Pre(p, i)) = i
      /\ \A j \in 1 .. i : Pre(p, i)[j] = p[j]
  BY <1>1, PreFacts
<1>4. ASSUME \A j \in 1 .. i : o[j] = p[j] PROVE Pre(o, i) = Pre(p, i)
  BY <1>2, <1>3, <1>4, SameOid
<1>5. ASSUME Pre(o, i) = Pre(p, i), NEW j \in 1 .. i PROVE o[j] = p[j]
  BY <1>2, <1>3, <1>5
<1> QED
  BY <1>4, <1>5

\* Past a child, or past its parent, or at a greater child.
LEMMA PastChild ==
    ASSUME NEW n \in Seq(SubId), NEW v \in SubId, NEW p \in Seq(SubId)
    PROVE  Past(Append(n, v), p) <=> Past(n, p) \/ Right(n, v, p)
<1> DEFINE c == Append(n, v)
           l == Len(n)
<1>1. /\ c \in Seq(SubId) /\ Len(c) = l + 1 /\ l \in Nat /\ Len(p) \in Nat
      /\ \A j \in 1 .. l : c[j] = n[j]
      /\ c[l + 1] = v
  BY AppendProperties, LenProperties
<1>2. Pre(c, l) = n
  BY ChildOf
<1> HIDE DEF c, l
<1>3. \A i \in 1 .. l : Pre(c, i - 1) = Pre(n, i - 1)
  <2> TAKE i \in 1 .. l
  <2>1. i - 1 \in Nat /\ i - 1 <= l /\ i - 1 <= Len(c) /\ \A j \in 1 .. i - 1 : j \in 1 .. l
    BY <1>1
  <2>2. Pre(c, i - 1) = Pre(n, i - 1) <=> \A j \in 1 .. i - 1 : c[j] = n[j]
    BY <1>1, <2>1, PreSame DEF l
  <2> QED
    BY <1>1, <2>1, <2>2
<1>4. ASSUME NEW i \in 1 .. l + 1, i <= Len(p), Pre(p, i - 1) = Pre(c, i - 1), c[i] < p[i]
      PROVE  Past(n, p) \/ Right(n, v, p)
  <2>1. CASE i = l + 1
    <3>1. i - 1 = l /\ l < Len(p)
      BY <1>1, <1>4, <2>1
    <3>2. Pre(p, l) = n /\ v < p[l + 1]
      BY <1>1, <1>2, <1>4, <2>1, <3>1
    <3>3. v \in Nat /\ p[l + 1] \in Nat
      <4>1. l + 1 \in 1 .. Len(p)
        BY <1>1, <3>1
      <4> QED
        BY <4>1, LenProperties, StashAssumption
    <3> QED
      BY <3>1, <3>2, <3>3 DEF Right, l
  <2>2. CASE i # l + 1
    <3>1. i \in 1 .. l
      BY <1>1, <2>2
    <3>2. Pre(p, i - 1) = Pre(n, i - 1) /\ n[i] < p[i]
      BY <1>1, <1>3, <1>4, <3>1
    <3> QED
      BY <1>4, <3>1, <3>2 DEF Past, l
  <2> QED
    BY <2>1, <2>2
<1>5. ASSUME Past(n, p) PROVE Past(c, p)
  <2>1. PICK i \in 1 .. l : i <= Len(p) /\ Pre(p, i - 1) = Pre(n, i - 1) /\ n[i] < p[i]
    BY <1>5 DEF Past, l
  <2>2. i \in 1 .. Len(c)
    BY <1>1
  <2>3. Pre(p, i - 1) = Pre(c, i - 1) /\ c[i] < p[i]
    BY <1>1, <1>3, <2>1
  <2> QED
    BY <2>1, <2>2, <2>3 DEF Past
<1>6. ASSUME Right(n, v, p) PROVE Past(c, p)
  <2>1. l < Len(p) /\ Pre(p, l) = n /\ p[l + 1] > v
    BY <1>6 DEF Right, l
  <2>2. l + 1 \in 1 .. Len(c) /\ l + 1 <= Len(p) /\ (l + 1) - 1 = l
    BY <1>1, <2>1
  <2>3. v \in Nat /\ p[l + 1] \in Nat
    <3>1. l + 1 \in 1 .. Len(p)
      BY <1>1, <2>2
    <3> QED
      BY <3>1, LenProperties, StashAssumption
  <2>4. c[l + 1] < p[l + 1]
    BY <1>1, <2>1, <2>3
  <2>5. Pre(p, (l + 1) - 1) = Pre(c, (l + 1) - 1)
    BY <1>2, <2>1, <2>2
  <2> QED
    BY <2>2, <2>4, <2>5 DEF Past
<1> QED
  BY <1>1, <1>4, <1>5, <1>6 DEF Past, c

\* The order of identifiers.
LEMMA BeforeIs ==
    ASSUME NEW o \in Seq(SubId), NEW p \in Seq(SubId)
    PROVE  OidBefore(o, p) <=> Beyond(o, -1, p)
<1>1. Len(o) \in Nat /\ Len(p) \in Nat /\ DOMAIN o = 1 .. Len(o) /\ DOMAIN p = 1 .. Len(p)
  BY LenProperties
<1>2. Pre(o, Len(o)) = o /\ Pre(p, Len(p)) = p
  BY PreEnds
<1>3. IsStrictPrefix(o, p) <=> Right(o, -1, p)
  <2>1. ASSUME Len(o) < Len(p) PROVE p[Len(o) + 1] > -1
    <3>1. Len(o) + 1 \in 1 .. Len(p)
      BY <1>1, <2>1
    <3>2. p[Len(o) + 1] \in Nat
      BY <3>1, LenProperties, StashAssumption
    <3> QED
      BY <3>2
  <2>2. IsStrictPrefix(o, p) <=> Len(o) <= Len(p) /\ o = Pre(p, Len(o)) /\ o # p
    BY <1>2 DEF IsStrictPrefix, IsPrefix, Pre
  <2>3. Len(o) = Len(p) /\ o = Pre(p, Len(o)) => o = p
    BY <1>2
  <2>4. Len(o) < Len(p) => o # p
    BY <1>1
  <2>5. \A x, y \in Nat : x <= y <=> x < y \/ x = y
    OBVIOUS
  <2>6. Len(o) <= Len(p) <=> Len(o) < Len(p) \/ Len(o) = Len(p)
    BY <1>1, <2>5, Zenon
  <2> QED
    BY <2>1, <2>2, <2>3, <2>4, <2>6, Zenon DEF Right
<1>4. (\E i \in DOMAIN o \cap DOMAIN p : o[i] < p[i] /\ SubSeq(o, 1, i - 1) = SubSeq(p, 1, i - 1)) <=> Past(o, p)
  <2>1. \A i : i \in DOMAIN o \cap DOMAIN p <=> i \in 1 .. Len(o) /\ i <= Len(p)
    BY <1>1
  <2> QED
    BY <2>1, Zenon DEF Past, Pre
<1> QED
  BY <1>3, <1>4 DEF OidBefore, Beyond

LEMMA BeforeOneWay ==
    ASSUME NEW o \in Seq(SubId), NEW p \in Seq(SubId), OidBefore(o, p), OidBefore(p, o)
    PROVE  FALSE
<1>1. Beyond(o, -1, p) /\ Beyond(p, -1, o)
  BY BeforeIs
<1>2. Len(o) \in Nat /\ Len(p) \in Nat
  BY LenProperties
<1>3. \A i \in 1 .. Len(o) : o[i] \in Nat
  BY LenProperties, StashAssumption
<1>4. \A i \in 1 .. Len(p) : p[i] \in Nat
  BY LenProperties, StashAssumption
<1>5. ASSUME NEW a \in Seq(SubId), NEW b \in Seq(SubId), Len(a) \in Nat, Len(b) \in Nat,
             \A i \in 1 .. Len(a) : a[i] \in Nat, Right(a, -1, b), Past(b, a)
      PROVE  FALSE
  <2>1. Len(a) < Len(b) /\ Pre(b, Len(a)) = a /\ Pre(a, Len(a)) = a
    BY <1>5, PreEnds DEF Right
  <2>2. PICK i \in 1 .. Len(b) : i <= Len(a) /\ b[i] < a[i]
    BY <1>5 DEF Past
  <2>3. i \in 1 .. Len(a) /\ Len(a) <= Len(b) /\ Len(a) <= Len(a)
    BY <1>5, <2>1, <2>2
  <2>4. \A j \in 1 .. Len(a) : b[j] = a[j]
    BY <1>5, <2>1, <2>3, PreSame
  <2> QED
    BY <1>5, <2>2, <2>3, <2>4
<1>6. ASSUME Past(o, p), Past(p, o) PROVE FALSE
  <2>1. PICK i \in 1 .. Len(o) : i <= Len(p) /\ Pre(p, i - 1) = Pre(o, i - 1) /\ o[i] < p[i]
    BY <1>6 DEF Past
  <2>2. PICK k \in 1 .. Len(p) : k <= Len(o) /\ Pre(o, k - 1) = Pre(p, k - 1) /\ p[k] < o[k]
    BY <1>6 DEF Past
  <2>3. /\ i \in Nat /\ k \in Nat /\ i - 1 \in Nat /\ k - 1 \in Nat
        /\ i - 1 <= Len(o) /\ i - 1 <= Len(p) /\ k - 1 <= Len(o) /\ k - 1 <= Len(p)
        /\ i \in 1 .. Len(p) /\ k \in 1 .. Len(o)
    BY <1>2, <2>1, <2>2
  <2>4. (\A j \in 1 .. i - 1 : p[j] = o[j]) /\ \A j \in 1 .. k - 1 : o[j] = p[j]
    BY <2>1, <2>2, <2>3, PreSame
  <2>5. o[i] \in Nat /\ p[i] \in Nat /\ o[k] \in Nat /\ p[k] \in Nat
    BY <1>3, <1>4, <2>1, <2>2, <2>3
  <2>6. CASE i < k
    <3>1. i \in 1 .. k - 1
      BY <2>3, <2>6
    <3> QED
      BY <2>1, <2>4, <2>5, <3>1
  <2>7. CASE k < i
    <3>1. k \in 1 .. i - 1
      BY <2>3, <2>7
    <3> QED
      BY <2>2, <2>4, <2>5, <3>1
  <2>8. CASE i = k
    BY <2>1, <2>2, <2>5, <2>8
  <2> QED
    BY <2>3, <2>6, <2>7, <2>8
<1>7. ASSUME Right(o, -1, p), Right(p, -1, o) PROVE FALSE
  BY <1>2, <1>7 DEF Right
<1> QED
  BY <1>1, <1>2, <1>3, <1>4, <1>5, <1>6, <1>7 DEF Beyond

\* Down to the least child: whatever comes after is there, or further.
LEMMA DownFrom ==
    ASSUME StashTyped, StashTree, NEW n \in Nodes, NEW bound \in Int, NEW v \in AboveIn(n, bound),
           \A w \in AboveIn(n, bound) : v <= w, NEW p \in stashed
    PROVE  Beyond(n, bound, p) <=> p = Append(n, v) \/ Beyond(Append(n, v), -1, p)
<1> DEFINE c == Append(n, v)
           l == Len(n)
<1>1. /\ n \in Seq(SubId) /\ v \in SubId /\ c \in Nodes /\ v > bound /\ v \in Nat
      /\ p \in Seq(SubId) /\ p \in Nodes
  BY StashAssumption DEF StashTyped, AboveIn
<1>2. /\ c \in Seq(SubId) /\ Len(c) = l + 1 /\ l \in Nat /\ c[l + 1] = v /\ Len(p) \in Nat
  BY <1>1, AppendProperties, LenProperties
<1>3. Past(c, p) <=> Past(n, p) \/ Right(n, v, p)
  BY <1>1, PastChild
<1>4. Pre(c, Len(c)) = c /\ Pre(p, Len(p)) = p
  BY <1>1, <1>2, PreEnds
<1>5. ASSUME p \in Under(c) PROVE l < Len(p) /\ Pre(p, l) = n /\ p[l + 1] = v
  <2>1. p \in Under(n) /\ p # n /\ p[l + 1] = v /\ l + 1 <= Len(p)
    BY <1>1, <1>5, AboveChild
  <2> QED
    BY <1>2, <2>1 DEF Under
<1>6. ASSUME l < Len(p), Pre(p, l) = n
      PROVE  p[l + 1] \in SubId /\ p[l + 1] \in Nat /\ Append(n, p[l + 1]) \in Nodes /\ p \in Under(Append(n, p[l + 1]))
  <2>1. p \in Under(n) /\ p # n
    BY <1>2, <1>6 DEF Under
  <2>2. p[l + 1] \in SubId /\ Append(n, p[l + 1]) \in Nodes /\ p \in Under(Append(n, p[l + 1]))
    BY <2>1, BelowNode
  <2> QED
    BY <2>2, StashAssumption
<1> HIDE DEF c, l
<1>7. p \in Under(c) <=> p = c \/ Right(c, -1, p)
  <2>1. ASSUME p \in Under(c), p # c PROVE Right(c, -1, p)
    <3>1. Len(c) <= Len(p) /\ c = Pre(p, Len(c))
      BY <2>1 DEF Under
    <3>2. Len(c) # Len(p)
      BY <1>4, <2>1, <3>1
    <3>3. Len(c) + 1 \in 1 .. Len(p) /\ Len(c) < Len(p)
      BY <1>2, <3>1, <3>2
    <3>4. p[Len(c) + 1] \in Nat
      BY <1>1, <3>3, LenProperties, StashAssumption
    <3>5. p[Len(c) + 1] > -1
      BY <3>4
    <3> QED
      BY <3>1, <3>3, <3>5 DEF Right
  <2>2. ASSUME Right(c, -1, p) PROVE p \in Under(c)
    <3>1. Len(c) <= Len(p)
      BY <1>2, <2>2 DEF Right
    <3> QED
      BY <2>2, <3>1 DEF Right, Under
  <2>3. ASSUME p = c PROVE p \in Under(c)
    BY <1>2, <1>4, <2>3 DEF Under
  <2> QED
    BY <2>1, <2>2, <2>3
<1>8. ASSUME Right(n, bound, p) PROVE p \in Under(c) \/ Right(n, v, p)
  <2>1. l < Len(p) /\ Pre(p, l) = n /\ p[l + 1] > bound
    BY <1>8 DEF Right, l
  <2>2. p[l + 1] \in SubId /\ p[l + 1] \in Nat /\ Append(n, p[l + 1]) \in Nodes /\ p \in Under(Append(n, p[l + 1]))
    BY <1>6, <2>1
  <2>3. v <= p[l + 1]
    BY <2>1, <2>2 DEF AboveIn
  <2>4. CASE v = p[l + 1]
    BY <2>2, <2>4 DEF c
  <2>5. CASE v # p[l + 1]
    <3>1. p[l + 1] > v
      BY <1>1, <2>2, <2>3, <2>5
    <3> QED
      BY <2>1, <3>1 DEF Right, l
  <2> QED
    BY <2>4, <2>5
<1>9. ASSUME p \in Under(c) \/ Right(n, v, p) PROVE Right(n, bound, p)
  <2>1. CASE p \in Under(c)
    BY <1>1, <1>5, <2>1 DEF Right, l
  <2>2. CASE Right(n, v, p)
    <3>1. l < Len(p) /\ Pre(p, l) = n /\ p[l + 1] > v
      BY <2>2 DEF Right, l
    <3>2. p[l + 1] \in Nat
      BY <1>6, <3>1
    <3>3. p[l + 1] > bound
      BY <1>1, <3>1, <3>2
    <3> QED
      BY <3>1, <3>3 DEF Right, l
  <2> QED
    BY <1>9, <2>1, <2>2
<1> QED
  BY <1>3, <1>7, <1>8, <1>9 DEF Beyond, c

\* Up from a node without such children: nothing there comes after.
LEMMA UpFrom ==
    ASSUME StashTyped, StashTree, NEW n \in Nodes, NEW bound \in Int, AboveIn(n, bound) = {}, NEW p \in stashed
    PROVE  /\ n = <<>> => ~Beyond(n, bound, p)
           /\ n # <<>> => (Beyond(n, bound, p) <=> Beyond(Front(n), Last(n), p))
<1>1. n \in Seq(SubId) /\ p \in Seq(SubId) /\ p \in Nodes /\ Len(n) \in Nat
  BY LenProperties DEF StashTyped
<1>2. ~Right(n, bound, p)
  <2> SUFFICES ASSUME Right(n, bound, p) PROVE FALSE
    OBVIOUS
  <2>1. Len(n) < Len(p) /\ Pre(p, Len(n)) = n /\ p[Len(n) + 1] > bound
    BY DEF Right
  <2>2. Len(p) \in Nat
    BY <1>1, LenProperties
  <2>3. p \in Under(n) /\ p # n
    BY <1>1, <2>1, <2>2 DEF Under
  <2>4. p[Len(n) + 1] \in SubId /\ Append(n, p[Len(n) + 1]) \in Nodes
    BY <2>3, BelowNode
  <2> QED
    BY <2>1, <2>4 DEF AboveIn
<1>3. CASE n = <<>>
  <2>1. 1 .. Len(n) = {}
    BY <1>3
  <2>2. ~Past(n, p)
    BY <2>1 DEF Past
  <2> QED
    BY <1>2, <1>3, <2>2 DEF Beyond
<1>4. CASE n # <<>>
  <2>1. Front(n) \in Seq(SubId) /\ Last(n) \in SubId /\ n = Append(Front(n), Last(n))
    BY <1>1, <1>4, FrontOf
  <2>2. Past(Append(Front(n), Last(n)), p) <=> Past(Front(n), p) \/ Right(Front(n), Last(n), p)
    BY <1>1, <2>1, PastChild
  <2> QED
    BY <1>2, <1>4, <2>1, <2>2 DEF Beyond
<1> QED
  BY <1>3, <1>4

Bounds == SubId \cup {-1}

LEMMA BoundsAre == Bounds \subseteq Int /\ \A v \in SubId : v > -1
<1>1. \A v \in Nat : v > -1 /\ v \in Int
  OBVIOUS
<1>2. SubId \subseteq Nat /\ -1 \in Int
  BY StashAssumption
<1> QED
  BY <1>1, <1>2 DEF Bounds

\* Where a search from o may be after k passes.
Going(o, k, s) ==
    /\ s.at \in Nodes /\ s.bound \in Bounds /\ s.done = FALSE
    /\ \A p \in stashed : OidBefore(o, p) <=> Beyond(s.at, s.bound, p)
    /\ \/ Len(s.at) = Len(o) - k
       \/ s.bound = -1 /\ s.at # <<>> /\ s.at \notin stashed /\ Len(s.at) >= k - Len(o)

NothingAfter(o) == \A p \in stashed : ~OidBefore(o, p)

IsNext(o, r) == /\ r \in stashed /\ OidBefore(o, r)
                /\ \A q \in stashed : OidBefore(o, q) => r = q \/ OidBefore(r, q)

Ended(o, s) == s.done = TRUE /\ (IF s.at = None THEN NothingAfter(o) ELSE IsNext(o, s.at))

\* One pass of the loop.
LEMMA PassKeeps ==
    ASSUME StashInv, NEW o \in Nodes, NEW k \in Nat, NEW s, Going(o, k, s)
    PROVE  Going(o, k + 1, Pass(s)) \/ Ended(o, Pass(s))
<1> DEFINE n == s.at
           b == s.bound
           v == LeastChild(n, b)
           c == Append(n, v)
<1>1. /\ n \in Nodes /\ b \in Bounds /\ ~s.done
      /\ \A p \in stashed : OidBefore(o, p) <=> Beyond(n, b, p)
      /\ \/ Len(n) = Len(o) - k
         \/ b = -1 /\ n # <<>> /\ n \notin stashed /\ Len(n) >= k - Len(o)
  BY DEF Going
<1>2. StashTyped /\ StashTree /\ LeadsToData
  BY DEF StashInv
<1>3. /\ n \in Seq(SubId) /\ Len(n) \in Nat /\ o \in Seq(SubId) /\ Len(o) \in Nat
      /\ b \in Int
  <2>1. Bounds \subseteq Int
    BY BoundsAre
  <2> QED
    BY <1>1, <1>2, <2>1, LenProperties DEF StashTyped
<1>4. Pass(s) = IF v # None THEN [at |-> c, bound |-> -1, done |-> c \in stashed]
                ELSE IF n = <<>> THEN [at |-> None, bound |-> -1, done |-> TRUE]
                ELSE [at |-> Front(n), bound |-> Last(n), done |-> FALSE]
  BY <1>1 DEF Pass
<1>5. /\ AboveIn(n, b) = {} => v = None
      /\ AboveIn(n, b) # {} => v \in AboveIn(n, b) /\ \A w \in AboveIn(n, b) : v <= w
  BY <1>1, <1>2, <1>3, LeastChildIs
<1> HIDE DEF n, b, v
<1>6. CASE AboveIn(n, b) # {}
  <2>1. v \in AboveIn(n, b) /\ (\A w \in AboveIn(n, b) : v <= w) /\ v \in SubId /\ v # None /\ c \in Nodes
    BY <1>5, <1>6, StashAssumption DEF AboveIn
  <2>2. \A p \in stashed : Beyond(n, b, p) <=> p = c \/ Beyond(c, -1, p)
    BY <1>1, <1>2, <1>3, <2>1, DownFrom
  <2>3. Pass(s) = [at |-> c, bound |-> -1, done |-> c \in stashed]
    BY <1>4, <2>1
  <2>4. c \in Seq(SubId) /\ Len(c) = Len(n) + 1 /\ c # <<>>
    BY <1>3, <2>1, ChildOf
  <2> HIDE DEF c
  <2>5. CASE c \in stashed
    <3>0. Pass(s) = [at |-> c, bound |-> -1, done |-> TRUE]
      <4>1. (c \in stashed) = TRUE
        BY <2>5
      <4> QED
        BY <2>3, <4>1, Zenon
    <3>1. Pass(s).at = c /\ Pass(s).done = TRUE
      BY <3>0
    <3>2. c # None
      BY <1>2, <2>5, OidIsSeq DEF StashTyped
    <3>3. OidBefore(o, c)
      BY <1>1, <2>2, <2>5
    <3>4. ASSUME NEW q \in stashed, OidBefore(o, q) PROVE c = q \/ OidBefore(c, q)
      <4>1. q = c \/ Beyond(c, -1, q)
        BY <1>1, <2>2, <3>4
      <4>2. q \in Seq(SubId)
        BY <1>2 DEF StashTyped
      <4> QED
        BY <2>4, <4>1, <4>2, BeforeIs
    <3> QED
      BY <2>5, <3>1, <3>2, <3>3, <3>4 DEF Ended, IsNext
  <2>6. CASE c \notin stashed
    <3>0. Pass(s) = [at |-> c, bound |-> -1, done |-> FALSE]
      <4>1. (c \in stashed) = FALSE
        BY <2>6
      <4> QED
        BY <2>3, <4>1, Zenon
    <3>1. Pass(s).at = c /\ Pass(s).bound = -1 /\ Pass(s).done = FALSE
      BY <3>0
    <3>2. \A p \in stashed : OidBefore(o, p) <=> Beyond(c, -1, p)
      BY <1>1, <2>2, <2>6
    <3>3. Len(c) >= (k + 1) - Len(o)
      <4> DEFINE x == Len(n)
                 y == Len(o)
      <4>1. x \in Nat /\ y \in Nat /\ (x = y - k \/ x >= k - y)
        BY <1>1, <1>3
      <4> HIDE DEF x, y
      <4>2. x + 1 >= (k + 1) - y
        BY <4>1
      <4> QED
        BY <2>4, <4>2 DEF x, y
    <3> QED
      BY <2>1, <2>4, <2>6, <3>1, <3>2, <3>3 DEF Going, Bounds
  <2> QED
    BY <2>5, <2>6
<1>7. CASE AboveIn(n, b) = {}
  <2>1. v = None
    BY <1>5, <1>7
  <2>2. \A p \in stashed : /\ n = <<>> => ~Beyond(n, b, p)
                           /\ n # <<>> => (Beyond(n, b, p) <=> Beyond(Front(n), Last(n), p))
    BY <1>1, <1>2, <1>3, <1>7, UpFrom
  <2>3. CASE n = <<>>
    <3>1. Pass(s).at = None /\ Pass(s).done = TRUE
      BY <1>4, <2>1, <2>3
    <3> QED
      BY <1>1, <2>2, <2>3, <3>1 DEF Ended, NothingAfter
  <2>4. CASE n # <<>>
    <3>1. Pass(s).at = Front(n) /\ Pass(s).bound = Last(n) /\ Pass(s).done = FALSE
      BY <1>4, <2>1, <2>4
    <3>2. Front(n) \in Nodes /\ Last(n) \in SubId /\ Len(Front(n)) = Len(n) - 1
      BY <1>1, <1>2, <1>3, <2>4, FrontOf DEF StashTree
    <3>3. Len(n) = Len(o) - k
      <4> SUFFICES ASSUME b = -1, n \notin stashed PROVE FALSE
        BY <1>1
      <4>1. PICK p \in stashed : Len(n) <= Len(p) /\ n = Pre(p, Len(n))
        BY <1>1, <1>2, <2>4 DEF LeadsToData
      <4>2. p \in Under(n) /\ p # n
        BY <4>1 DEF Under
      <4>3. p[Len(n) + 1] \in SubId /\ Append(n, p[Len(n) + 1]) \in Nodes
        BY <1>1, <1>2, <4>2, BelowNode
      <4>4. p[Len(n) + 1] > -1
        BY <4>3, BoundsAre
      <4> QED
        BY <1>7, <4>3, <4>4 DEF AboveIn
    <3>4. Len(Front(n)) = Len(o) - (k + 1)
      BY <1>3, <3>2, <3>3
    <3> QED
      BY <1>1, <2>2, <2>4, <3>1, <3>2, <3>4 DEF Going, Bounds
  <2> QED
    BY <2>3, <2>4
<1> QED
  BY <1>6, <1>7

\* A search does not take longer than the loop is given here.
LEMMA LastPass ==
    ASSUME StashInv, NEW o \in Nodes, o # <<>>, NEW s
    PROVE  ~Going(o, 2 * MaxLen, s)
<1> SUFFICES ASSUME Going(o, 2 * MaxLen, s) PROVE FALSE
  OBVIOUS
<1> DEFINE n == s.at
           x == Len(n)
           y == Len(o)
<1>1. /\ n \in Nodes
      /\ \/ x = y - 2 * MaxLen
         \/ n # <<>> /\ n \notin stashed /\ x >= 2 * MaxLen - y
  BY DEF Going
<1>2. o \in Seq(SubId) /\ y \in Nat \ {0} /\ y <= MaxLen /\ n \in Seq(SubId) /\ x \in Nat /\ MaxLen \in Nat
  BY <1>1, LenProperties, EmptySeq, StashAssumption DEF StashInv, StashTyped
<1> HIDE DEF n
<1>3. CASE x = y - 2 * MaxLen
  <2> HIDE DEF x, y
  <2> QED
    BY <1>2, <1>3
<1>4. CASE n # <<>> /\ n \notin stashed /\ x >= 2 * MaxLen - y
  <2>1. PICK p \in stashed : Len(n) <= Len(p) /\ n = Pre(p, Len(n))
    BY <1>1, <1>4 DEF StashInv, LeadsToData
  <2>2. p \in Seq(SubId) /\ Len(p) \in Nat /\ Len(p) <= MaxLen
    BY <2>1, LenProperties DEF StashInv, StashTyped
  <2>3. Len(p) # Len(n)
    BY <1>4, <2>1, <2>2, PreEnds
  <2> DEFINE z == Len(p)
  <2>4. z \in Nat /\ z <= MaxLen /\ x <= z /\ z # x
    BY <2>1, <2>2, <2>3
  <2> HIDE DEF x, y, z
  <2> QED
    BY <1>2, <1>4, <2>4
<1> QED
  BY <1>1, <1>3, <1>4

Searches == [at : Nodes, bound : Bounds, done : BOOLEAN]
            \cup {[at |-> None, bound |-> -1, done |-> TRUE]}

LEMMA PassTyped ==
    ASSUME StashInv, NEW s \in Searches
    PROVE  Pass(s) \in Searches
<1>1. CASE s.done
  BY <1>1 DEF Pass
<1>2. CASE ~s.done
  <2> DEFINE n == s.at
             b == s.bound
             v == LeastChild(n, b)
  <2>1. n \in Nodes /\ b \in Bounds
    BY <1>2 DEF Searches
  <2>2. b \in Int /\ StashTyped /\ StashTree
    BY <2>1, BoundsAre DEF StashInv
  <2>3. v # None => v \in SubId /\ Append(n, v) \in Nodes
    BY <2>1, <2>2, LeastChildIs DEF AboveIn
  <2>4. Pass(s) = IF v # None THEN [at |-> Append(n, v), bound |-> -1, done |-> Append(n, v) \in stashed]
                  ELSE IF n = <<>> THEN [at |-> None, bound |-> -1, done |-> TRUE]
                  ELSE [at |-> Front(n), bound |-> Last(n), done |-> FALSE]
    BY <1>2 DEF Pass
  <2>5. n # <<>> => Front(n) \in Nodes /\ Last(n) \in SubId
    BY <2>1, <2>2, FrontOf DEF StashTyped, StashTree
  <2> HIDE DEF v, n, b
  <2>6. (Append(n, v) \in stashed) \in BOOLEAN
    OBVIOUS
  <2> QED
    BY <2>3, <2>4, <2>5, <2>6 DEF Searches, Bounds
<1> QED
  BY <1>1, <1>2

\* From a node the loop ends at the next data, or with nothing where there is none.
LEMMA WalkEnds ==
    ASSUME StashInv, NEW o \in Nodes, o # <<>>
    PROVE  LET r == WalkOn(o, -1) IN IF r = None THEN NothingAfter(o) ELSE IsNext(o, r)
<1> DEFINE N == 2 * MaxLen
           V == Searches
           b == [at |-> o, bound |-> -1, done |-> FALSE]
           step == [x \in (1 .. N) \X V |-> Pass(x[2])]
           after[k \in 0 .. N] == IF k = 0 THEN [at |-> o, bound |-> -1, done |-> FALSE] ELSE Pass(after[k - 1])
           Eqn(g) == [k \in 0 .. N |-> IF k = 0 THEN [at |-> o, bound |-> -1, done |-> FALSE] ELSE Pass(g[k - 1])]
<1>1. N \in Nat
  BY StashAssumption
<1>2. b \in V
  BY DEF Searches, Bounds
<1>3. step \in [(1 .. N) \X V -> V]
  <2> HIDE DEF N, V
  <2>1. \A x \in (1 .. N) \X V : Pass(x[2]) \in V
    BY PassTyped DEF V
  <2> QED
    BY <2>1
<1>4. PICK g \in [0 .. N -> V] : Stepwise(g, step, b, N)
  <2> HIDE DEF N, V, step, b
  <2> QED
    BY <1>1, <1>2, <1>3, StepwiseExists
<1>5. g = Eqn(g)
  <2>1. \A k \in 1 .. N : g[k] = Pass(g[k - 1])
    <3> TAKE k \in 1 .. N
    <3>1. k - 1 \in 0 .. N
      BY <1>1
    <3>2. g[k - 1] \in V
      <4> HIDE DEF V, N
      <4> QED
        BY <3>1
    <3>3. g[k] = step[<<k, g[k - 1]>>]
      BY <1>4 DEF Stepwise
    <3> HIDE DEF V, N
    <3> QED
      BY <3>2, <3>3
  <2>2. g[0] = b
    BY <1>4 DEF Stepwise
  <2>3. \A k \in 0 .. N : g[k] = IF k = 0 THEN b ELSE Pass(g[k - 1])
    <3> TAKE k \in 0 .. N
    <3>1. k = 0 \/ k \in 1 .. N
      BY <1>1
    <3> HIDE DEF N, b
    <3> QED
      BY <2>1, <2>2, <3>1
  <2> HIDE DEF V, N
  <2> QED
    BY <2>3
<1>6. after = Eqn(after)
  BY <1>5
<1> HIDE DEF after
<1>7. \A k \in 0 .. N : after[k] = IF k = 0 THEN b ELSE Pass(after[k - 1])
  <2> HIDE DEF N
  <2> QED
    BY <1>6
<1> DEFINE T == {k \in Nat : k <= N => Going(o, k, after[k]) \/ Ended(o, after[k])}
<1> HIDE DEF b, N
<1>8. 0 \in T
  <2>1. 0 \in 0 .. N
    BY <1>1
  <2>2. after[0] = b
    BY <1>7, <2>1
  <2>3. b.at = o /\ b.bound = -1 /\ b.done = FALSE
    BY DEF b
  <2>4. o \in Seq(SubId) /\ Len(o) \in Nat /\ \A p \in stashed : p \in Seq(SubId)
    BY LenProperties DEF StashInv, StashTyped
  <2>5. \A p \in stashed : OidBefore(o, p) <=> Beyond(o, -1, p)
    BY <2>4, BeforeIs
  <2>6. Len(o) = Len(o) - 0
    BY <2>4
  <2>7. Going(o, 0, b)
    BY <2>3, <2>5, <2>6 DEF Going, Bounds
  <2> QED
    BY <2>2, <2>7
<1>9. ASSUME NEW k \in Nat, k \in T PROVE k + 1 \in T
  <2> SUFFICES ASSUME k + 1 <= N PROVE Going(o, k + 1, after[k + 1]) \/ Ended(o, after[k + 1])
    OBVIOUS
  <2>1. k + 1 \in 0 .. N /\ (k + 1) - 1 = k /\ k + 1 # 0 /\ k <= N
    BY <1>1
  <2>2. after[k + 1] = Pass(after[k])
    BY <1>7, <2>1
  <2>3. CASE Going(o, k, after[k])
    BY <2>2, <2>3, PassKeeps
  <2>4. CASE Ended(o, after[k])
    <3>1. after[k].done
      BY <2>4 DEF Ended
    <3>2. Pass(after[k]) = after[k]
      BY <3>1 DEF Pass
    <3> QED
      BY <2>2, <2>4, <3>2
  <2> QED
    BY <1>9, <2>1, <2>3, <2>4
<1> HIDE DEF T
<1>10. N \in T
  BY <1>1, <1>8, <1>9, SetInduction
<1>11. Going(o, N, after[N]) \/ Ended(o, after[N])
  BY <1>1, <1>10 DEF T
<1>12. Ended(o, after[N])
  BY <1>11, LastPass DEF N
<1>13. WalkOn(o, -1) = after[N].at
  BY DEF WalkOn, after, N
<1> QED
  BY <1>12, <1>13 DEF Ended

\* What the loop ends at is the one successor there can be.
LEMMA InvWalks == StashInv => NextFromNode
<1> SUFFICES ASSUME StashInv, NEW o \in DOMAIN children \ {<<>>} PROVE GetNext(o) = Successor(o)
  BY DEF NextFromNode
<1>1. o \in Nodes /\ o # <<>> /\ o \in Seq(SubId) /\ Len(o) \in Nat
  BY LenProperties DEF Nodes, StashInv, StashTyped
<1>2. Closest(o) = o
  <2>1. PICK m \in 0 .. Len(o) : OnWay(o, m)
    BY <1>1, WayEnds DEF StashInv
  <2>2. Pre(o, Len(o)) = o /\ Len(o) \in 0 .. Len(o)
    BY <1>1, PreEnds
  <2>3. m = Len(o) /\ m \in Nat
    BY <1>1, <2>1, <2>2 DEF OnWay
  <2> QED
    BY <1>1, <2>1, <2>2, <2>3, ClosestIs DEF StashInv
<1>3. GetNext(o) = WalkOn(o, -1)
  <2>1. ~((Len(o) + 1) + 1 <= Len(o))
    BY <1>1
  <2> QED
    BY <1>2, <2>1 DEF GetNext
<1> DEFINE r == WalkOn(o, -1)
<1>4. IF r = None THEN NothingAfter(o) ELSE IsNext(o, r)
  BY <1>1, WalkEnds
<1> HIDE DEF r
<1>5. CASE r = None
  BY <1>3, <1>4, <1>5 DEF NothingAfter, Successor, r
<1>6. CASE r # None
  <2>1. r \in stashed /\ OidBefore(o, r) /\ \A q \in stashed : OidBefore(o, q) => r = q \/ OidBefore(r, q)
    BY <1>4, <1>6 DEF IsNext
  <2> DEFINE First(p) == OidBefore(o, p) /\ \A q \in stashed : OidBefore(o, q) => p = q \/ OidBefore(p, q)
  <2>2. Successor(o) = CHOOSE p \in stashed : First(p)
    BY <2>1 DEF Successor
  <2>3. ASSUME NEW p \in stashed, First(p) PROVE p = r
    <3> SUFFICES ASSUME p # r PROVE FALSE
      OBVIOUS
    <3>1. OidBefore(p, r) /\ OidBefore(r, p)
      BY <2>1, <2>3
    <3>2. p \in Seq(SubId) /\ r \in Seq(SubId)
      BY <2>1 DEF StashInv, StashTyped
    <3> QED
      BY <3>1, <3>2, BeforeOneWay
  <2>4. First(r)
    BY <2>1
  <2> HIDE DEF First
  <2>5. (CHOOSE p \in stashed : First(p)) = r
    BY <2>1, <2>3, <2>4
  <2> QED
    BY <1>3, <2>2, <2>5 DEF r
<1> QED
  BY <1>5, <1>6

\* Whatever is added to the stash, in whatever order, and however its identifiers
\* share buckets and nodes: netsnmp_oid_stash_get_data finds each under its own
\* identifier, netsnmp_oid_stash_store writes each once, and
\* netsnmp_oid_stash_getnext_node goes from each node to the next data.
THEOREM StashAlwaysExact == StashSpec => []StashExact
<1>1. StashInv => StashExact
  BY InvFinds, InvSaves, InvWalks DEF StashExact
<1> QED
  BY <1>1, StashInvariance, PTL
=============================================================================
