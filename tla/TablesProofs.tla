---------------------------- MODULE TablesProofs ----------------------------
(***************************************************************************)
(* Proofs about the stores and tables that are kept as lists.              *)
(*                                                                         *)
(* DefaultTable    The list of default strings is in order of its keys and *)
(*                 has no two entries of a key: it implements a map.       *)
(* EngineTime      An engine has come as far as is reckoned of it.         *)
(* TransportChoice Which transports are tried, and in which order.         *)
(* ViewTable       A subtree is decided on by the most specific entry.     *)
(* AccessTable     The entry chosen is the best of its context.            *)
(* LogHandlers     List, index and count of the handlers agree.            *)
(*                                                                         *)
(* Each invariant says of a list how its entries are ordered.  The lookups *)
(* are recursive functions over such lists; that they exist, and what they *)
(* return, is shown by induction over the entries.                         *)
(***************************************************************************)
EXTENDS DefaultTable, EngineTime, TransportChoice, ViewTable, AccessTable, LogHandlers,
        SequenceLemmas


-----------------------------------------------------------------------------
(* The defaults                                                             *)

TableEntry == [key : TableKey, user : Value \cup {NoValue}, default : Value \cup {NoValue}]

\* The list is in strict order of the keys.
InOrder == /\ table \in Seq(TableEntry)
           /\ \A i, j \in 1 .. Len(table) : i < j => table[i].key < table[j].key

\* Nothing is kept for a key that nobody sets.
NoneIdle == \A e \in Range(table) : e.user # NoValue \/ e.default # NoValue

TableInv == InOrder /\ NoneIdle

\* The loop stops behind the smaller keys.
LEMMA PlaceFacts ==
    ASSUME InOrder, NEW k \in TableKey
    PROVE  /\ Place(k) \in 1 .. Len(table) + 1
           /\ \A i \in 1 .. Len(table) : i < Place(k) => table[i].key < k
           /\ \A i \in 1 .. Len(table) : i >= Place(k) => table[i].key >= k
<1> DEFINE I == {i \in 1 .. Len(table) : table[i].key >= k}
           n == Place(k)
<1>1. /\ Len(table) \in Nat /\ k \in Int
      /\ \A i \in 1 .. Len(table) : table[i].key \in Int
      /\ \A i, j \in 1 .. Len(table) : i < j => table[i].key < table[j].key
  <2>1. Len(table) \in Nat /\ \A i \in 1 .. Len(table) : table[i] \in TableEntry
    BY LenProperties DEF InOrder
  <2> QED
    BY <2>1, TableAssumption DEF InOrder, TableEntry
<1>0. I \in SUBSET Nat
  BY <1>1
<1>2. n = IF I = {} THEN Len(table) + 1 ELSE Min(I)
  <2>1. I # {} => Min(I) \in I
    BY <1>0, LeastOf
  <2>2. I # {} => Min(I) # 0
    BY <2>1
  <2>3. SelectInSeq(table, LAMBDA e : e.key >= k) = IF I # {} THEN Min(I) ELSE 0
    BY DEF SelectInSeq
  <2> HIDE DEF I
  <2> QED
    BY <2>2, <2>3 DEF Place
<1>3. I # {} => Min(I) \in I /\ \A j \in I : Min(I) <= j
  BY <1>0, LeastOf
<1> HIDE DEF n
<1>4. n \in 1 .. Len(table) + 1
  BY <1>1, <1>2, <1>3
<1>5. ASSUME NEW i \in 1 .. Len(table), i < n PROVE table[i].key < k
  <2>1. i \notin I
    BY <1>1, <1>2, <1>3, <1>5
  <2> QED
    BY <1>1, <2>1
<1>6. ASSUME NEW i \in 1 .. Len(table), i >= n PROVE table[i].key >= k
  <2>1. I # {} /\ n \in I
    BY <1>1, <1>2, <1>3, <1>6
  <2>2. i = n \/ n < i
    BY <1>4, <1>6
  <2> QED
    BY <1>1, <2>1, <2>2
<1> QED
  BY <1>4, <1>5, <1>6 DEF n

Idle(k) == [key |-> k, user |-> NoValue, default |-> NoValue]

\* What is found for a key: its entry, or nothing.
Finds == /\ \A e \in Range(table) : e.key \in TableKey /\ EntryOf(e.key) = e
         /\ \A k \in TableKey : /\ EntryOf(k) \in TableEntry /\ EntryOf(k).key = k
                                /\ Present(k) => EntryOf(k) \in Range(table)
                                /\ ~Present(k) => EntryOf(k) = Idle(k) /\ \A e \in Range(table) : e.key # k

LEMMA FindsEntries == InOrder => Finds
<1> SUFFICES ASSUME InOrder PROVE Finds
  OBVIOUS
<1>1. /\ Len(table) \in Nat /\ DOMAIN table = 1 .. Len(table)
      /\ \A i \in 1 .. Len(table) : table[i] \in TableEntry /\ table[i].key \in TableKey
                                    /\ table[i].key \in Int
  <2>1. /\ Len(table) \in Nat /\ DOMAIN table = 1 .. Len(table)
        /\ \A i \in 1 .. Len(table) : table[i] \in TableEntry
    BY LenProperties DEF InOrder
  <2> QED
    BY <2>1, TableAssumption DEF TableEntry
<1>2. ASSUME NEW i \in 1 .. Len(table)
      PROVE  Present(table[i].key) /\ EntryOf(table[i].key) = table[i]
  <2> DEFINE k == table[i].key
             n == Place(k)
  <2>1. /\ n \in 1 .. Len(table) + 1
        /\ \A j \in 1 .. Len(table) : j < n => table[j].key < k
        /\ \A j \in 1 .. Len(table) : j >= n => table[j].key >= k
    BY <1>1, PlaceFacts
  <2> HIDE DEF n
  <2>2. i >= n
    <3>1. ~(k < k)
      BY <1>1
    <3> QED
      BY <1>1, <2>1, <3>1
  <2>3. n \in 1 .. Len(table) /\ table[n].key >= k
    BY <1>1, <2>1, <2>2
  <2>4. ~(n < i)
    <3>1. n < i => table[n].key < k
      BY <2>3 DEF InOrder
    <3> QED
      BY <1>1, <2>3, <3>1
  <2>5. n = i
    BY <2>1, <2>2, <2>4
  <2>6. Place(k) = i
    BY <2>5 DEF n
  <2> QED
    BY <1>1, <2>6 DEF Present, EntryOf
<1>3. ASSUME NEW k \in TableKey
      PROVE  /\ EntryOf(k) \in TableEntry /\ EntryOf(k).key = k
             /\ Present(k) => EntryOf(k) \in Range(table)
             /\ ~Present(k) => EntryOf(k) = Idle(k) /\ \A e \in Range(table) : e.key # k
  <2>1. CASE Present(k)
    <3>1. Place(k) \in 1 .. Len(table) /\ table[Place(k)].key = k /\ EntryOf(k) = table[Place(k)]
      BY <1>1, <2>1 DEF Present, EntryOf
    <3> QED
      BY <1>1, <2>1, <3>1 DEF Range
  <2>2. CASE ~Present(k)
    <3>1. EntryOf(k) = Idle(k)
      BY <2>2 DEF EntryOf, Idle
    <3>2. Idle(k) \in TableEntry /\ Idle(k).key = k
      BY DEF TableEntry, Idle
    <3>3. \A e \in Range(table) : e.key # k
      BY <1>1, <1>2, <2>2 DEF Range
    <3> QED
      BY <2>2, <3>1, <3>2, <3>3
  <2> QED
    BY <2>1, <2>2
<1> QED
  BY <1>1, <1>2, <1>3 DEF Finds, Range

LEMMA FindsNext == ASSUME InOrder' PROVE Finds'
  BY FindsEntries, PTL

\* The same entries are found in a list that has the same entries.
LEMMA SetEntry ==
    ASSUME InOrder, InOrder', NEW e \in TableEntry,
           Range(table') = {f \in Range(table) : f.key # e.key} \cup {e}
    PROVE  EntryOf(e.key)' = e /\ \A k \in TableKey : k # e.key => EntryOf(k)' = EntryOf(k)
<1>1. Finds /\ Finds'
  BY FindsEntries, FindsNext
<1>2. EntryOf(e.key)' = e
  BY <1>1 DEF Finds
<1>3. ASSUME NEW k \in TableKey, k # e.key PROVE EntryOf(k)' = EntryOf(k)
  <2>1. CASE Present(k)
    <3>1. EntryOf(k) \in Range(table) /\ EntryOf(k).key = k
      BY <1>1, <2>1 DEF Finds
    <3>2. EntryOf(k) \in Range(table')
      BY <1>3, <3>1
    <3> QED
      BY <1>1, <3>1, <3>2 DEF Finds
  <2>2. CASE ~Present(k)
    <3>1. EntryOf(k) = Idle(k) /\ \A f \in Range(table) : f.key # k
      BY <1>1, <2>2 DEF Finds
    <3>2. \A f \in Range(table') : f.key # k
      BY <1>3, <3>1
    <3>3. ~Present(k)' /\ EntryOf(k)' = Idle(k)
      BY <1>1, <3>2 DEF Finds
    <3> QED
      BY <3>1, <3>3
  <2> QED
    BY <2>1, <2>2
<1> QED
  BY <1>2, <1>3

LEMMA DropEntry ==
    ASSUME InOrder, InOrder', NEW k \in TableKey,
           Range(table') = {f \in Range(table) : f.key # k}
    PROVE  EntryOf(k)' = Idle(k) /\ \A q \in TableKey : q # k => EntryOf(q)' = EntryOf(q)
<1>1. Finds /\ Finds'
  BY FindsEntries, FindsNext
<1>2. EntryOf(k)' = Idle(k)
  BY <1>1 DEF Finds
<1>3. ASSUME NEW q \in TableKey, q # k PROVE EntryOf(q)' = EntryOf(q)
  <2>1. CASE Present(q)
    <3>1. EntryOf(q) \in Range(table) /\ EntryOf(q).key = q
      BY <1>1, <2>1 DEF Finds
    <3>2. EntryOf(q) \in Range(table')
      BY <1>3, <3>1
    <3> QED
      BY <1>1, <3>1, <3>2 DEF Finds
  <2>2. CASE ~Present(q)
    <3>1. EntryOf(q) = Idle(q) /\ \A f \in Range(table) : f.key # q
      BY <1>1, <2>2 DEF Finds
    <3>2. ~Present(q)' /\ EntryOf(q)' = Idle(q)
      BY <1>1, <3>1 DEF Finds
    <3> QED
      BY <3>1, <3>2
  <2> QED
    BY <2>1, <2>2
<1> QED
  BY <1>2, <1>3

LEMMA WithStep ==
    ASSUME InOrder, NEW e \in TableEntry, table' = With(e)
    PROVE  InOrder' /\ Range(table') = {f \in Range(table) : f.key # e.key} \cup {e}
<1> DEFINE k == e.key
           n == Place(k)
           L == Len(table)
<1>1. /\ L \in Nat /\ DOMAIN table = 1 .. L /\ k \in TableKey /\ k \in Int
      /\ \A i \in 1 .. L : table[i] \in TableEntry /\ table[i].key \in Int
      /\ \A i, j \in 1 .. L : i < j => table[i].key < table[j].key
  <2>1. L \in Nat /\ DOMAIN table = 1 .. L /\ \A i \in 1 .. L : table[i] \in TableEntry
    BY LenProperties DEF InOrder
  <2> QED
    BY <2>1, TableAssumption DEF InOrder, TableEntry
<1>2. /\ n \in 1 .. L + 1
      /\ \A i \in 1 .. L : i < n => table[i].key < k
      /\ \A i \in 1 .. L : i >= n => table[i].key >= k
  BY <1>1, PlaceFacts
<1>3. CASE Present(k)
  <2>1. n \in 1 .. L /\ table[n].key = k /\ table' = [table EXCEPT ![n] = e]
    BY <1>1, <1>3 DEF Present, With, ReplaceAt
  <2> HIDE DEF n, k, L
  <2>2. /\ table' \in Seq(TableEntry) /\ Len(table') = L /\ DOMAIN table' = 1 .. L
        /\ \A i \in 1 .. L : table'[i] = IF i = n THEN e ELSE table[i]
    <3>1. table \in [1 .. L -> TableEntry]
      BY <1>1 DEF InOrder
    <3>2. table' \in [1 .. L -> TableEntry]
      BY <2>1, <3>1
    <3> QED
      BY <1>1, <2>1, <3>1, <3>2, LenProperties
  <2>3. \A i \in 1 .. L : table'[i].key = table[i].key
    BY <2>1, <2>2 DEF k
  <2>4. InOrder'
    BY <1>1, <2>2, <2>3 DEF InOrder
  <2>5. \A i \in 1 .. L : table[i].key = k <=> i = n
    BY <1>1, <1>2, <2>1
  <2>6. Range(table') = {f \in Range(table) : f.key # k} \cup {e}
    <3>1. ASSUME NEW f \in Range(table') PROVE f = e \/ (f \in Range(table) /\ f.key # k)
      <4>1. PICK i \in 1 .. L : f = table'[i]
        BY <2>2 DEF Range
      <4> QED
        BY <1>1, <2>2, <2>5, <4>1 DEF Range
    <3>2. ASSUME NEW f \in Range(table), f.key # k PROVE f \in Range(table')
      <4>1. PICK i \in 1 .. L : f = table[i]
        BY <1>1 DEF Range
      <4>2. i # n
        BY <2>1, <3>2, <4>1
      <4> QED
        BY <2>2, <4>1, <4>2 DEF Range
    <3>3. e \in Range(table')
      BY <2>1, <2>2 DEF Range
    <3> QED
      BY <3>1, <3>2, <3>3
  <2> QED
    BY <2>4, <2>6 DEF k
<1>4. CASE ~Present(k)
  <2>1. table' = InsertAt(table, n, e) /\ \A i \in 1 .. L : table[i].key # k
    <3>1. ASSUME NEW i \in 1 .. L PROVE table[i].key # k
      <4>1. table[i] \in Range(table)
        BY <1>1 DEF Range
      <4> QED
        BY <1>1, <1>4, <4>1, FindsEntries DEF Finds
    <3> QED
      BY <1>4, <3>1 DEF With
  <2> HIDE DEF n, k, L
  <2>2. /\ table' \in Seq(TableEntry) /\ Len(table') = L + 1
        /\ \A j \in 1 .. L + 1 :
              table'[j] = IF j < n THEN table[j] ELSE IF j = n THEN e ELSE table[j - 1]
    <3>1. table \in Seq(TableEntry) /\ n \in 1 .. Len(table) + 1
      BY <1>2 DEF InOrder, L
    <3>2. /\ InsertAt(table, n, e) \in Seq(TableEntry)
          /\ Len(InsertAt(table, n, e)) = Len(table) + 1
          /\ \A j \in 1 .. Len(table) + 1 :
               InsertAt(table, n, e)[j] = IF j < n THEN table[j] ELSE IF j = n THEN e ELSE table[j - 1]
      <4>1. \A s \in Seq(TableEntry) : \A x \in TableEntry : \A i \in 1 .. Len(s) + 1 :
              /\ InsertAt(s, i, x) \in Seq(TableEntry)
              /\ Len(InsertAt(s, i, x)) = Len(s) + 1
              /\ \A j \in 1 .. Len(s) + 1 :
                   InsertAt(s, i, x)[j] = IF j < i THEN s[j] ELSE IF j = i THEN x ELSE s[j - 1]
        BY InsertAtElements
      <4> QED
        BY <3>1, <4>1
    <3> QED
      BY <2>1, <3>2 DEF L
  <2>3. ASSUME NEW j \in 1 .. L + 1
        PROVE  /\ j < n => j \in 1 .. L /\ table'[j].key = table[j].key /\ table'[j].key < k
               /\ j = n => table'[j].key = k
               /\ j > n => /\ j - 1 \in 1 .. L /\ table'[j].key = table[j - 1].key
                           /\ table'[j].key > k
    <3>1. CASE j < n
      <4>1. j \in 1 .. L
        BY <1>1, <1>2, <3>1
      <4> QED
        BY <1>2, <2>2, <3>1, <4>1
    <3>2. CASE j = n
      BY <2>2, <3>2 DEF k
    <3>3. CASE j > n
      <4>1. j - 1 \in 1 .. L /\ j - 1 >= n /\ ~(j < n) /\ j # n
        BY <1>1, <1>2, <3>3
      <4>2. table'[j] = table[j - 1] /\ table[j - 1].key >= k /\ table[j - 1].key # k
        BY <1>2, <2>1, <2>2, <4>1
      <4>3. table[j - 1].key \in Int
        BY <1>1, <4>1
      <4> QED
        BY <1>1, <4>1, <4>2, <4>3
    <3> QED
      BY <1>1, <1>2, <3>1, <3>2, <3>3
  <2>4. InOrder'
    <3>1. ASSUME NEW i \in 1 .. L + 1, NEW j \in 1 .. L + 1, i < j
          PROVE  table'[i].key < table'[j].key
      <4>1. i \in Int /\ j \in Int /\ n \in Int
        BY <1>2
      <4>2. CASE j < n
        <5>1. i < n
          BY <3>1, <4>1, <4>2
        <5> QED
          BY <1>1, <2>3, <3>1, <4>2, <5>1
      <4>3. CASE i > n
        <5>1. j > n /\ i - 1 < j - 1
          BY <3>1, <4>1, <4>3
        <5> QED
          BY <1>1, <2>3, <4>3, <5>1
      <4>4. CASE i <= n /\ j >= n
        <5>1. table'[i].key \in Int /\ table'[j].key \in Int
          BY <1>1, <2>3, <4>1
        <5>2. (i < n \/ i = n) /\ (j > n \/ j = n) /\ ~(i = n /\ j = n)
          BY <3>1, <4>1, <4>4
        <5> QED
          BY <1>1, <2>3, <5>1, <5>2
      <4> QED
        BY <4>1, <4>2, <4>3, <4>4
    <3> QED
      BY <2>2, <3>1 DEF InOrder
  <2>5. Range(table') = Range(table) \cup {e}
    BY <1>2, InsertAtRange, <2>1 DEF InOrder, L
  <2>6. \A f \in Range(table) : f.key # k
    BY <1>1, <2>1 DEF Range
  <2> QED
    BY <2>4, <2>5, <2>6 DEF k
<1> QED
  BY <1>3, <1>4

LEMMA WithoutStep ==
    ASSUME InOrder, NEW k \in TableKey, table' = Without(k)
    PROVE  InOrder' /\ Range(table') = {f \in Range(table) : f.key # k}
<1> DEFINE n == Place(k)
           L == Len(table)
<1>1. /\ L \in Nat /\ DOMAIN table = 1 .. L /\ L = Len(table) /\ table \in Seq(TableEntry)
      /\ \A i, j \in 1 .. L : i < j => table[i].key < table[j].key
      /\ \A i \in 1 .. L : table[i].key \in Int
  <2>1. L \in Nat /\ DOMAIN table = 1 .. L /\ \A i \in 1 .. L : table[i] \in TableEntry
    BY LenProperties DEF InOrder
  <2> QED
    BY <2>1, TableAssumption DEF InOrder, TableEntry
<1>2. CASE ~Present(k)
  <2>1. UNCHANGED table
    BY <1>2 DEF Without
  <2>2. \A f \in Range(table) : f.key # k
    BY <1>2, FindsEntries DEF Finds
  <2> QED
    BY <2>1, <2>2 DEF InOrder
<1>3. CASE Present(k)
  <2>1. n \in 1 .. L /\ table[n].key = k /\ table' = RemoveAt(table, n)
    BY <1>1, <1>3 DEF Present, Without
  <2> HIDE DEF n, L
  <2>2. /\ table' \in Seq(TableEntry) /\ Len(table') = L - 1
        /\ \A j \in 1 .. L - 1 : table'[j] = IF j < n THEN table[j] ELSE table[j + 1]
    <3>1. table \in Seq(TableEntry) /\ n \in 1 .. Len(table)
      BY <1>1, <2>1
    <3>2. /\ RemoveAt(table, n) \in Seq(TableEntry) /\ Len(RemoveAt(table, n)) = Len(table) - 1
          /\ \A j \in 1 .. Len(table) - 1 :
               RemoveAt(table, n)[j] = IF j < n THEN table[j] ELSE table[j + 1]
      BY <3>1, RemoveAtElements
    <3> QED
      BY <1>1, <2>1, <3>2
  <2>3. ASSUME NEW i \in 1 .. L - 1, NEW j \in 1 .. L - 1, i < j
        PROVE  table'[i].key < table'[j].key
    <3> DEFINE a == IF i < n THEN i ELSE i + 1
               b == IF j < n THEN j ELSE j + 1
    <3>1. a \in 1 .. L /\ b \in 1 .. L /\ a < b
      BY <1>1, <2>1, <2>3
    <3>2. table'[i] = table[a] /\ table'[j] = table[b]
      BY <2>2
    <3> HIDE DEF a, b
    <3> QED
      BY <1>1, <3>1, <3>2
  <2>4. InOrder'
    BY <2>2, <2>3 DEF InOrder
  <2>5. IsInjective(table) /\ \A i \in 1 .. L : table[i].key = k => i = n
    <3>1. \A i, j \in 1 .. L : table[i].key = table[j].key => i = j
      <4> SUFFICES ASSUME NEW i \in 1 .. L, NEW j \in 1 .. L, table[i].key = table[j].key PROVE i = j
        OBVIOUS
      <4>1. ~(i < j) /\ ~(j < i)
        BY <1>1
      <4> QED
        BY <4>1
    <3> QED
      BY <1>1, <2>1, <3>1 DEF IsInjective
  <2>6. Range(table') = Range(table) \ {table[n]}
    BY <1>1, <2>1, <2>5, RemoveAtRange
  <2>7. \A f \in Range(table) : f.key = k <=> f = table[n]
    BY <1>1, <2>1, <2>5 DEF Range
  <2> QED
    BY <2>4, <2>6, <2>7
<1> QED
  BY <1>2, <1>3

\* Every entry that the program has set too stays, without the user's word.
LEMMA ClearUserStep ==
    ASSUME InOrder, ClearUser
    PROVE  /\ InOrder'
           /\ Range(table') = {[f EXCEPT !.user = NoValue] : f \in {g \in Range(table) : g.default # NoValue}}
<1> DEFINE G == {e \in ToSet(table) : e.default # NoValue}
           t == Kept(table, G)
           L == Len(table)
<1>1. /\ L \in Nat /\ DOMAIN table = 1 .. L
      /\ \A i, j \in 1 .. L : i < j => table[i].key < table[j].key
      /\ table' = [i \in DOMAIN t |-> [t[i] EXCEPT !.user = NoValue]]
  BY LenProperties DEF InOrder, ClearUser
<1>2. /\ t \in Seq(TableEntry) /\ Range(t) = Range(table) \cap G
      /\ \E h \in [1 .. Len(t) -> 1 .. L] :
            /\ \A i, j \in 1 .. Len(t) : i < j => h[i] < h[j]
            /\ \A j \in 1 .. Len(t) : t[j] = table[h[j]]
  <2>1. table \in Seq(TableEntry)
    BY DEF InOrder
  <2> HIDE DEF G, L, t
  <2>2. t \in Seq(TableEntry) /\ Picked(t, table, G)
    BY <2>1, KeptEntries DEF t
  <2>3. Range(t) = Range(table) \cap G
    BY <2>1, KeptRange DEF t
  <2> QED
    BY <2>2, <2>3 DEF Picked, L
<1>3. PICK h \in [1 .. Len(t) -> 1 .. L] :
            /\ \A i, j \in 1 .. Len(t) : i < j => h[i] < h[j]
            /\ \A j \in 1 .. Len(t) : t[j] = table[h[j]]
  BY <1>2
<1> HIDE DEF t
<1>4. /\ Len(t) \in Nat /\ DOMAIN t = 1 .. Len(t) /\ \A i \in 1 .. Len(t) : t[i] \in TableEntry
  BY <1>2, LenProperties
<1>5. \A i \in 1 .. Len(t) : [t[i] EXCEPT !.user = NoValue] \in TableEntry
  BY <1>4 DEF TableEntry
<1>6. /\ table' \in Seq(TableEntry) /\ Len(table') = Len(t) /\ DOMAIN table' = 1 .. Len(t)
      /\ \A i \in 1 .. Len(t) : table'[i] = [t[i] EXCEPT !.user = NoValue]
  BY <1>1, <1>4, <1>5
<1>7. \A i \in 1 .. Len(t) : table'[i].key = table[h[i]].key
  BY <1>3, <1>4, <1>6 DEF TableEntry
<1>8. InOrder'
  <2>1. ASSUME NEW i \in 1 .. Len(t), NEW j \in 1 .. Len(t), i < j
        PROVE  table'[i].key < table'[j].key
    BY <1>1, <1>3, <1>7, <2>1
  <2> QED
    BY <1>6, <2>1 DEF InOrder
<1>9. Range(table) \cap G = {g \in Range(table) : g.default # NoValue}
  BY DEF ToSet, Range
<1>10. Range(table') = {[f EXCEPT !.user = NoValue] : f \in Range(t)}
  BY <1>4, <1>6 DEF Range
<1> QED
  BY <1>2, <1>8, <1>9, <1>10

\* The values under every key, before and after a step.
Users == [k \in TableKey |-> EntryOf(k).user]
Defaults == [k \in TableKey |-> EntryOf(k).default]

LEMMA TableInitInv ==
    ASSUME TableInit
    PROVE  TableInv /\ Users = [k \in TableKey |-> NoValue] /\ Defaults = [k \in TableKey |-> NoValue]
<1>1. InOrder /\ Range(table) = {}
  BY DEF TableInit, InOrder, Range
<1>2. \A k \in TableKey : EntryOf(k) = Idle(k)
  BY <1>1, FindsEntries DEF Finds
<1> QED
  BY <1>1, <1>2 DEF TableInv, NoneIdle, Users, Defaults, Idle

\* What the program sets is a step of the map.
LEMMA RegisterDefaultStep ==
    ASSUME TableInv, NEW k \in TableKey, NEW v \in Value \cup {NoValue}, RegisterDefault(k, v)
    PROVE  TableInv' /\ Defaults' = [Defaults EXCEPT ![k] = v] /\ Users' = Users
<1> DEFINE o == EntryOf(k)
           e == [o EXCEPT !.default = v]
<1>1. InOrder /\ Finds
  BY FindsEntries DEF TableInv
<1>2. o \in TableEntry /\ o.key = k
  BY <1>1 DEF Finds
<1>3. table' = IF e.default = NoValue /\ e.user = NoValue THEN Without(k) ELSE With(e)
  BY DEF RegisterDefault
<1> HIDE DEF o
<1>4. e \in TableEntry /\ e.key = k /\ e.user = o.user /\ e.default = v
  BY <1>2 DEF TableEntry
<1> HIDE DEF e
<1>5. CASE e.default = NoValue /\ e.user = NoValue
  <2>1. InOrder' /\ Range(table') = {f \in Range(table) : f.key # k}
    BY <1>1, <1>3, <1>5, WithoutStep
  <2>2. EntryOf(k)' = Idle(k) /\ \A q \in TableKey : q # k => EntryOf(q)' = EntryOf(q)
    BY <1>1, <2>1, DropEntry
  <2>3. EntryOf(k)'.user = EntryOf(k).user /\ EntryOf(k)'.default = v
    BY <1>4, <1>5, <2>2 DEF Idle, o
  <2>4. Defaults' = [Defaults EXCEPT ![k] = v]
    BY <2>2, <2>3 DEF Defaults
  <2>5. Users' = Users
    BY <2>2, <2>3 DEF Users
  <2>6. NoneIdle'
    BY <2>1 DEF TableInv, NoneIdle
  <2> QED
    BY <2>1, <2>4, <2>5, <2>6 DEF TableInv
<1>6. CASE ~(e.default = NoValue /\ e.user = NoValue)
  <2>1. InOrder' /\ Range(table') = {f \in Range(table) : f.key # e.key} \cup {e}
    BY <1>1, <1>3, <1>4, <1>6, WithStep
  <2>2. EntryOf(k)' = e /\ \A q \in TableKey : q # k => EntryOf(q)' = EntryOf(q)
    BY <1>1, <1>4, <2>1, SetEntry
  <2>3. EntryOf(k)'.user = EntryOf(k).user /\ EntryOf(k)'.default = v
    BY <1>4, <2>2 DEF o
  <2>4. Defaults' = [Defaults EXCEPT ![k] = v]
    BY <2>2, <2>3 DEF Defaults
  <2>5. Users' = Users
    BY <2>2, <2>3 DEF Users
  <2>6. NoneIdle'
    BY <1>6, <2>1 DEF TableInv, NoneIdle
  <2> QED
    BY <2>1, <2>4, <2>5, <2>6 DEF TableInv
<1> QED
  BY <1>5, <1>6

LEMMA RegisterUserStep ==
    ASSUME TableInv, NEW k \in TableKey, NEW v \in Value, RegisterUser(k, v)
    PROVE  /\ TableInv' /\ Defaults' = Defaults
           /\ \/ Users' = Users
              \/ Users[k] = NoValue /\ Users' = [Users EXCEPT ![k] = v]
<1> DEFINE o == EntryOf(k)
           e == [o EXCEPT !.user = v]
<1>1. InOrder /\ Finds
  BY FindsEntries DEF TableInv
<1>2. o \in TableEntry /\ o.key = k
  BY <1>1 DEF Finds
<1>3. table' = IF o.user # NoValue THEN table ELSE With(e)
  BY DEF RegisterUser
<1> HIDE DEF o
<1>4. e \in TableEntry /\ e.key = k /\ e.user = v /\ e.default = o.default /\ v # NoValue
  BY <1>2, TableAssumption DEF TableEntry
<1> HIDE DEF e
<1>5. CASE o.user # NoValue
  <2>1. UNCHANGED table
    BY <1>3, <1>5
  <2> QED
    BY <2>1 DEF TableInv, InOrder, NoneIdle, Users, Defaults, EntryOf, Present, Place, SelectInSeq
<1>6. CASE o.user = NoValue
  <2>1. InOrder' /\ Range(table') = {f \in Range(table) : f.key # e.key} \cup {e}
    BY <1>1, <1>3, <1>4, <1>6, WithStep
  <2>2. EntryOf(k)' = e /\ \A q \in TableKey : q # k => EntryOf(q)' = EntryOf(q)
    BY <1>1, <1>4, <2>1, SetEntry
  <2>3. EntryOf(k)'.default = EntryOf(k).default /\ EntryOf(k)'.user = v
    BY <1>4, <2>2 DEF o
  <2>4. Users' = [Users EXCEPT ![k] = v] /\ Users[k] = NoValue
    BY <1>6, <2>2, <2>3 DEF Users, o
  <2>5. Defaults' = Defaults
    BY <2>2, <2>3 DEF Defaults
  <2>6. NoneIdle'
    BY <1>4, <2>1 DEF TableInv, NoneIdle
  <2> QED
    BY <2>1, <2>4, <2>5, <2>6 DEF TableInv
<1> QED
  BY <1>5, <1>6

\* The user's words are taken back, and the program's stay.
LEMMA ForgetUserStep ==
    ASSUME TableInv, ClearUser
    PROVE  TableInv' /\ Defaults' = Defaults /\ Users' = [k \in TableKey |-> NoValue]
<1>1. InOrder /\ InOrder'
      /\ Range(table') = {[f EXCEPT !.user = NoValue] : f \in {g \in Range(table) : g.default # NoValue}}
  BY ClearUserStep DEF TableInv
<1>2. Finds /\ Finds'
  BY <1>1, FindsEntries, FindsNext
<1>3. Range(table) \subseteq TableEntry
  BY <1>1, LenProperties DEF InOrder, Range
<1>4. ASSUME NEW k \in TableKey
      PROVE  EntryOf(k)'.user = NoValue /\ EntryOf(k)'.default = EntryOf(k).default
  <2>1. CASE EntryOf(k).default # NoValue
    <3> DEFINE f == EntryOf(k)
               g == [f EXCEPT !.user = NoValue]
    <3>1. f \in Range(table) /\ f.key = k /\ f \in TableEntry
      BY <1>2, <2>1 DEF Finds, Idle
    <3>2. g \in Range(table')
      BY <1>1, <2>1, <3>1
    <3> HIDE DEF f
    <3>3. g.key = k /\ g.user = NoValue /\ g.default = f.default
      BY <3>1 DEF TableEntry
    <3> HIDE DEF g
    <3>4. EntryOf(k)' = g
      BY <1>2, <3>2, <3>3 DEF Finds
    <3> QED
      BY <3>3, <3>4 DEF f
  <2>2. CASE EntryOf(k).default = NoValue
    <3>1. \A g \in Range(table') : g.key # k
      <4> SUFFICES ASSUME NEW f \in Range(table), f.default # NoValue, [f EXCEPT !.user = NoValue].key = k
                   PROVE  FALSE
        BY <1>1
      <4>1. f.key = k
        BY <1>3 DEF TableEntry
      <4> QED
        BY <1>2, <2>2, <4>1 DEF Finds
    <3>2. EntryOf(k)' = Idle(k)
      BY <1>2, <3>1 DEF Finds
    <3> QED
      BY <2>2, <3>2 DEF Idle
  <2> QED
    BY <2>1, <2>2
<1>5. NoneIdle'
  <2> SUFFICES ASSUME NEW f \in Range(table), f.default # NoValue
               PROVE  [f EXCEPT !.user = NoValue].default # NoValue
    BY <1>1 DEF NoneIdle
  <2> QED
    BY <1>3 DEF TableEntry
<1> QED
  BY <1>1, <1>4, <1>5 DEF TableInv, Users, Defaults

LEMMA ForgetStep ==
    ASSUME ClearDefault
    PROVE  /\ TableInv'
           /\ Users' = [k \in TableKey |-> NoValue] /\ Defaults' = [k \in TableKey |-> NoValue]
<1>1. InOrder' /\ Range(table') = {}
  BY DEF ClearDefault, InOrder, Range
<1>2. \A k \in TableKey : EntryOf(k)' = Idle(k)
  BY <1>1, FindsNext DEF Finds
<1> QED
  BY <1>1, <1>2 DEF TableInv, NoneIdle, Users, Defaults, Idle

LEMMA TableStep ==
    ASSUME TableInv, [TableNext]_table
    PROVE  TableInv' /\ [Map!Next]_(Map!vars)
<1>1. CASE UNCHANGED table
  BY <1>1 DEF TableInv, InOrder, NoneIdle, Map!vars, EntryOf, Present, Place, SelectInSeq
<1>2. ASSUME NEW k \in TableKey, NEW v \in Value \cup {NoValue}, RegisterDefault(k, v)
      PROVE  TableInv' /\ Map!Next
  BY <1>2, RegisterDefaultStep DEF Map!Next, Map!Set, Users, Defaults
<1>3. ASSUME NEW k \in TableKey, NEW v \in Value, RegisterUser(k, v)
      PROVE  TableInv' /\ [Map!Next]_(Map!vars)
  BY <1>3, RegisterUserStep DEF Map!Next, Map!SetByUser, Map!vars, Users, Defaults
<1>4. CASE ClearUser
  BY <1>4, ForgetUserStep DEF Map!Next, Map!ForgetUser, Users, Defaults
<1>5. CASE ClearDefault
  BY <1>5, ForgetStep DEF Map!Next, Map!Forget, Users, Defaults
<1> QED
  BY <1>1, <1>2, <1>3, <1>4, <1>5 DEF TableNext

\* The list is in order, each key is there once, and nothing is kept for a key that nobody sets.
THEOREM TableInvariance == TableSpec => []TableInv
<1>1. TableInit => TableInv
  BY TableInitInv
<1>2. TableInv /\ [TableNext]_table => TableInv'
  BY TableStep
<1> QED
  BY <1>1, <1>2, PTL DEF TableSpec

\* However entries come and go, the table is a map in which the user's word counts and is taken
\* back without a loss of the program's, and it keeps what it needs only.
THEOREM TableImplementsMap == TableSpec => ImplementsMap
<1>1. TableInit => Map!Init
  BY TableInitInv DEF Map!Init, Users, Defaults
<1>2. TableInv /\ [TableNext]_table => [Map!Next]_(Map!vars)
  BY TableStep
<1>3. TableInv => NoIdleEntries
  <2> SUFFICES ASSUME TableInv PROVE NoIdleEntries
    OBVIOUS
  <2>1. /\ DOMAIN table = 1 .. Len(table) /\ Len(table) \in Nat
        /\ \A i \in 1 .. Len(table) : table[i] \in Range(table) /\ table[i].key \in Int
    <3>1. DOMAIN table = 1 .. Len(table) /\ Len(table) \in Nat
          /\ \A i \in 1 .. Len(table) : table[i] \in TableEntry
      BY LenProperties DEF TableInv, InOrder
    <3> QED
      BY <3>1, TableAssumption DEF Range, TableEntry
  <2>2. ASSUME NEW i \in DOMAIN table, NEW j \in DOMAIN table, table[i].key = table[j].key
        PROVE  i = j
    <3>1. ~(i < j) /\ ~(j < i)
      BY <2>1, <2>2 DEF TableInv, InOrder
    <3> QED
      BY <2>1, <3>1
  <2> QED
    BY <2>1, <2>2 DEF NoIdleEntries, TableInv, NoneIdle
<1> QED
  BY <1>1, <1>2, <1>3, TableInvariance, PTL DEF TableSpec, ImplementsMap, Map!Spec


-----------------------------------------------------------------------------
(* The clocks of engines                                                    *)

Record == [clock : Clock, at : 0 .. TimeMax, auth : BOOLEAN]

TimeTyped == /\ now \in 0 .. TimeMax
             /\ record \in [Engine -> Record \cup {NoRecord}]
             /\ truth \in [Engine -> Clock]
             /\ \A e \in Engine : record[e] # NoRecord => record[e].at <= now

\* What the time of an engine would be, had it not gone over the maximum.
Reckoned(e) == record[e].clock.time + (now - record[e].at)

\* Since it was heard an engine has come at least as far as reckoned, and exactly so far if it
\* has not started again.
Gone(e, t) ==
    LET b == record[e].clock.boot
        n == Reckoned(e)
    IN  /\ n <= TimeMax => \/ t.boot > b
                           \/ t.boot = b /\ t.time >= n
        /\ n > TimeMax => \/ t.boot > b + 1
                          \/ t.boot = b + 1 /\ t.time >= n - (TimeMax + 1)
        /\ e \notin rebooted => /\ n <= TimeMax => t.boot = b /\ t.time = n
                                /\ n > TimeMax => t.boot = b + 1 /\ t.time = n - (TimeMax + 1)

TimeInv == /\ TimeTyped
           /\ \A e \in proved : /\ e \in Engine /\ record[e] # NoRecord /\ record[e].auth
                                /\ truth[e].boot < BootMax => Gone(e, truth[e])

LEMMA Boots ==
    ASSUME NEW b \in 0 .. BootMax
    PROVE  NewBoot(b) \in 0 .. BootMax /\ NewBoot(b) = IF b < BootMax THEN b + 1 ELSE BootMax
<1>1. BootMax \in Nat /\ b \in Nat
  BY TimeAssumption
<1>2. {b + 1, BootMax} \in SUBSET Nat /\ {b + 1, BootMax} # {}
  BY <1>1
<1>3. NewBoot(b) \in {b + 1, BootMax} /\ \A j \in {b + 1, BootMax} : NewBoot(b) <= j
  BY <1>2, LeastOf DEF NewBoot
<1>4. NewBoot(b) <= b + 1 /\ NewBoot(b) <= BootMax
  BY <1>3
<1> QED
  BY <1>1, <1>3, <1>4

\* The numbers in a record and in a clock.
LEMMA TimeNumbers ==
    ASSUME TimeTyped
    PROVE  /\ TimeMax \in Nat /\ BootMax \in Nat /\ now \in Nat /\ now <= TimeMax
           /\ \A e \in Engine : truth[e] \in Clock /\ truth[e].boot \in 0 .. BootMax
                                /\ truth[e].time \in 0 .. TimeMax
           /\ \A e \in Engine : record[e] # NoRecord =>
                  /\ record[e].clock \in Clock
                  /\ record[e].clock.boot \in 0 .. BootMax /\ record[e].clock.time \in 0 .. TimeMax
                  /\ record[e].at \in 0 .. now /\ record[e].auth \in BOOLEAN
<1>1. TimeMax \in Nat /\ BootMax \in Nat /\ now \in Nat /\ now <= TimeMax
  BY TimeAssumption DEF TimeTyped
<1>2. \A e \in Engine : truth[e] \in Clock
  BY DEF TimeTyped
<1>3. \A e \in Engine : record[e] # NoRecord => record[e] \in Record /\ record[e].at <= now
  BY DEF TimeTyped
<1>4. \A r \in Record : r.clock \in Clock /\ r.at \in 0 .. TimeMax /\ r.auth \in BOOLEAN
  BY DEF Record
<1>5. \A c \in Clock : c.boot \in 0 .. BootMax /\ c.time \in 0 .. TimeMax
  BY DEF Clock
<1>6. \A e \in Engine : record[e] # NoRecord => record[e].at \in 0 .. now
  BY <1>1, <1>3, <1>4
<1> QED
  BY <1>1, <1>2, <1>3, <1>4, <1>5, <1>6

LEMMA TickedClock ==
    ASSUME NEW c \in Clock
    PROVE  /\ Ticked(c) \in Clock
           /\ c.time < TimeMax => Ticked(c).boot = c.boot /\ Ticked(c).time = c.time + 1
           /\ c.time = TimeMax => Ticked(c).boot = NewBoot(c.boot) /\ Ticked(c).time = 0
<1>1. c.boot \in 0 .. BootMax /\ c.time \in 0 .. TimeMax /\ TimeMax \in Nat
  BY TimeAssumption DEF Clock
<1>2. NewBoot(c.boot) \in 0 .. BootMax
  BY <1>1, Boots
<1>3. CASE c.time < TimeMax
  <2>1. c.time + 1 \in 0 .. TimeMax
    BY <1>1, <1>3
  <2> QED
    BY <1>1, <1>3, <2>1 DEF Ticked, Clock
<1>4. CASE c.time = TimeMax
  <2>1. Ticked(c) = [boot |-> NewBoot(c.boot), time |-> 0]
    BY <1>1, <1>4 DEF Ticked
  <2> QED
    BY <1>1, <1>2, <1>4, <2>1 DEF Clock
<1> QED
  BY <1>1, <1>3, <1>4

LEMMA TimeInitInv == TimeInit => TimeInv
  BY TimeAssumption DEF TimeInit, TimeInv, TimeTyped, Clock

\* What is stored of an engine.
LEMMA StoreStep ==
    ASSUME TimeTyped, NEW e \in Engine, NEW c \in Clock, NEW a \in BOOLEAN, Store(e, c, a),
           UNCHANGED <<now, truth>>
    PROVE  /\ TimeTyped'
           /\ \A f \in Engine : f # e => record'[f] = record[f]
           /\ \/ record' = record
              \/ /\ record'[e] = [clock |-> c, at |-> now, auth |-> a]
                 /\ record'[e] # NoRecord
                 /\ record[e] # NoRecord => a \/ ~record[e].auth
           /\ a => record'[e] = [clock |-> c, at |-> now, auth |-> a]
<1> DEFINE r == [clock |-> c, at |-> now, auth |-> a]
<1>1. r \in Record /\ r # NoRecord /\ r.at = now
  BY TimeAssumption DEF Record, TimeTyped
<1>2. \/ record' = [record EXCEPT ![e] = r] /\ (record[e] # NoRecord => a \/ ~record[e].auth)
      \/ record' = record /\ ~a
  BY DEF Store
<1>3. now <= now
  BY DEF TimeTyped
<1> HIDE DEF r
<1>4. TimeTyped'
  BY <1>1, <1>2, <1>3 DEF TimeTyped
<1>5. /\ \A f \in Engine : f # e => record'[f] = record[f]
      /\ \/ record' = record
         \/ /\ record'[e] = r
            /\ record'[e] # NoRecord
            /\ record[e] # NoRecord => a \/ ~record[e].auth
      /\ a => record'[e] = r
  BY <1>1, <1>2 DEF TimeTyped
<1> QED
  BY <1>4, <1>5 DEF r

LEMMA HearStep == ASSUME TimeInv, NEW e \in Engine, Hear(e) PROVE TimeInv'
<1>1. /\ TimeTyped /\ truth[e] \in Clock
      /\ Store(e, truth[e], TRUE) /\ proved' = proved \cup {e} /\ rebooted' = rebooted \ {e}
      /\ UNCHANGED <<now, truth>>
  BY DEF TimeInv, TimeTyped, Hear
<1>2. /\ TimeTyped'
      /\ \A f \in Engine : f # e => record'[f] = record[f]
      /\ record'[e] = [clock |-> truth[e], at |-> now, auth |-> TRUE]
  BY <1>1, StoreStep
<1>3. record'[e] # NoRecord
  <2>1. record'[e] \in Record
    BY <1>1, <1>2 DEF Record, TimeTyped
  <2> QED
    BY <2>1, TimeAssumption DEF Record
<1>4. Gone(e, truth[e])'
  <2>1. truth[e].boot \in Nat /\ truth[e].time \in 0 .. TimeMax /\ now \in Nat /\ TimeMax \in Nat
    BY <1>1, TimeNumbers
  <2>2. Reckoned(e)' = truth[e].time /\ record'[e].clock.boot = truth[e].boot
    BY <1>1, <1>2, <2>1 DEF Reckoned
  <2> QED
    BY <1>1, <2>1, <2>2 DEF Gone
<1>5. ASSUME NEW f \in proved, f # e
      PROVE  /\ f \in Engine /\ record'[f] # NoRecord /\ record'[f].auth
             /\ truth'[f].boot < BootMax => Gone(f, truth[f])'
  <2>1. f \in Engine /\ record'[f] = record[f] /\ (f \in rebooted' <=> f \in rebooted)
    BY <1>1, <1>2, <1>5 DEF TimeInv
  <2> QED
    BY <1>1, <1>5, <2>1 DEF TimeInv, Gone, Reckoned
<1> QED
  BY <1>1, <1>2, <1>3, <1>4, <1>5 DEF TimeInv

LEMMA HearUnprovedStep ==
    ASSUME TimeInv, NEW e \in Engine, NEW c \in Claimed, HearUnproved(e, c) PROVE TimeInv'
<1>1. /\ TimeTyped /\ c \in Clock
      /\ Store(e, c, FALSE) /\ UNCHANGED <<now, truth, proved, rebooted>>
  BY TimeAssumption DEF TimeInv, HearUnproved
<1>2. /\ TimeTyped'
      /\ \A f \in Engine : f # e => record'[f] = record[f]
      /\ \/ record' = record
         \/ record[e] # NoRecord => ~record[e].auth
  BY <1>1, StoreStep
<1>3. \A f \in proved : record'[f] = record[f]
  BY <1>1, <1>2 DEF TimeInv
<1> QED
  BY <1>1, <1>2, <1>3 DEF TimeInv, Gone, Reckoned

LEMMA FreeStep ==
    ASSUME TimeInv, (\E e \in Engine : FreeEngine(e)) \/ FreeAll PROVE TimeInv'
<1>1. /\ UNCHANGED <<now, truth, rebooted>> /\ proved' \subseteq proved
      /\ record' \in [Engine -> Record \cup {NoRecord}]
      /\ \A f \in Engine : record'[f] = record[f] \/ (record'[f] = NoRecord /\ f \notin proved')
  BY DEF TimeInv, TimeTyped, FreeEngine, FreeAll
<1>2. TimeTyped'
  BY <1>1 DEF TimeInv, TimeTyped
<1>3. \A f \in proved' : f \in Engine /\ record'[f] = record[f]
  BY <1>1 DEF TimeInv
<1> QED
  BY <1>1, <1>2, <1>3 DEF TimeInv, Gone, Reckoned

LEMMA RebootStep == ASSUME TimeInv, NEW e \in Engine, Reboot(e) PROVE TimeInv'
<1> DEFINE t == [boot |-> truth[e].boot + 1, time |-> 0]
<1>1. /\ TimeTyped
      /\ truth[e].boot < BootMax /\ truth' = [truth EXCEPT ![e] = t]
      /\ rebooted' = rebooted \cup {e} /\ UNCHANGED <<now, record, proved>>
  BY DEF TimeInv, Reboot
<1>2. truth[e].boot \in Nat /\ BootMax \in Nat /\ TimeMax \in Nat /\ truth[e].time \in 0 .. TimeMax
  BY <1>1, TimeNumbers
<1>3. t \in Clock /\ t.boot = truth[e].boot + 1 /\ t.time = 0
  BY <1>1, <1>2 DEF Clock
<1> HIDE DEF t
<1>4. TimeTyped' /\ truth'[e] = t
  BY <1>1, <1>3 DEF TimeTyped
<1>5. ASSUME e \in proved PROVE Gone(e, truth[e])'
  <2>1. Gone(e, truth[e]) /\ record[e] # NoRecord
    BY <1>1, <1>5 DEF TimeInv
  <2>2. /\ record[e].clock.boot \in Nat /\ record[e].clock.time \in 0 .. TimeMax
        /\ record[e].at \in 0 .. now /\ now \in Nat /\ now <= TimeMax
    BY <1>1, <2>1, TimeNumbers
  <2>3. Reckoned(e)' = Reckoned(e) /\ Reckoned(e) \in Nat /\ Reckoned(e) <= TimeMax + TimeMax
    BY <1>1, <1>2, <2>2 DEF Reckoned
  <2> QED
    BY <1>1, <1>2, <1>3, <1>4, <2>1, <2>2, <2>3 DEF Gone
<1>6. ASSUME NEW f \in proved, f # e
      PROVE  truth'[f].boot < BootMax => Gone(f, truth[f])'
  <2>1. truth'[f] = truth[f]
    BY <1>1, <1>6 DEF TimeInv, TimeTyped
  <2> QED
    BY <1>1, <1>6, <2>1 DEF TimeInv, Gone, Reckoned
<1> QED
  BY <1>1, <1>4, <1>5, <1>6 DEF TimeInv

LEMMA TickStep == ASSUME TimeInv, Tick PROVE TimeInv'
<1>1. /\ TimeTyped
      /\ now < TimeMax /\ now' = now + 1
      /\ truth' = [e \in Engine |-> Ticked(truth[e])]
      /\ UNCHANGED <<record, proved, rebooted>>
  BY DEF TimeInv, Tick
<1>2. TimeTyped'
  <2>1. \A e \in Engine : Ticked(truth[e]) \in Clock
    BY <1>1, TickedClock DEF TimeTyped
  <2>2. truth' \in [Engine -> Clock]
    BY <1>1, <2>1
  <2>3. now' \in 0 .. TimeMax
    <3>1. now \in Nat /\ TimeMax \in Nat
      BY <1>1, TimeNumbers
    <3> QED
      BY <1>1, <3>1
  <2>4. \A e \in Engine : record'[e] # NoRecord => record'[e].at <= now'
    BY <1>1, TimeNumbers
  <2> QED
    BY <1>1, <2>2, <2>3, <2>4 DEF TimeTyped
<1>3. ASSUME NEW e \in proved, truth'[e].boot < BootMax PROVE Gone(e, truth[e])'
  <2> DEFINE t == truth[e]
             b == record[e].clock.boot
             n == Reckoned(e)
             u == Ticked(t)
  <2>1. /\ e \in Engine /\ record[e] # NoRecord /\ truth'[e] = u
    BY <1>1 DEF TimeInv
  <2>2. /\ t \in Clock /\ t.boot \in 0 .. BootMax /\ t.time \in 0 .. TimeMax
        /\ b \in Nat /\ record[e].clock.time \in 0 .. TimeMax
        /\ record[e].at \in 0 .. now /\ now \in Nat /\ BootMax \in Nat /\ TimeMax \in Nat
    BY <1>1, <2>1, TimeNumbers
  <2>3. n \in Nat /\ n < TimeMax + TimeMax /\ Reckoned(e)' = n + 1 /\ record'[e].clock.boot = b
    BY <1>1, <2>2 DEF Reckoned
  <2>4. \/ t.time < TimeMax /\ u.boot = t.boot /\ u.time = t.time + 1
        \/ t.time = TimeMax /\ t.boot < BootMax /\ u.boot = t.boot + 1 /\ u.time = 0
    <3>1. /\ t.time < TimeMax => u.boot = t.boot /\ u.time = t.time + 1
          /\ t.time = TimeMax => u.boot = NewBoot(t.boot) /\ u.time = 0
      BY <2>2, TickedClock
    <3>2. NewBoot(t.boot) = IF t.boot < BootMax THEN t.boot + 1 ELSE BootMax
      BY <2>2, Boots
    <3>3. u.boot < BootMax
      BY <1>3, <2>1
    <3> HIDE DEF t, u
    <3> QED
      BY <2>2, <3>1, <3>2, <3>3
  <2>5. t.boot < BootMax
    <3>1. u.boot < BootMax
      BY <1>3, <2>1
    <3> HIDE DEF t, u
    <3> QED
      BY <2>2, <2>4, <3>1
  <2>6. Gone(e, t)
    BY <2>5 DEF TimeInv
  <2>7. /\ n <= TimeMax => t.boot > b \/ (t.boot = b /\ t.time >= n)
        /\ n > TimeMax => t.boot > b + 1 \/ (t.boot = b + 1 /\ t.time >= n - (TimeMax + 1))
        /\ e \notin rebooted => /\ n <= TimeMax => t.boot = b /\ t.time = n
                                /\ n > TimeMax => t.boot = b + 1 /\ t.time = n - (TimeMax + 1)
    BY <2>6 DEF Gone
  <2> HIDE DEF t, b, n, u
  <2>8. /\ n + 1 <= TimeMax => u.boot > b \/ (u.boot = b /\ u.time >= n + 1)
        /\ n + 1 > TimeMax => u.boot > b + 1 \/ (u.boot = b + 1 /\ u.time >= (n + 1) - (TimeMax + 1))
    BY <2>2, <2>3, <2>4, <2>7
  <2>9. e \notin rebooted =>
            /\ n + 1 <= TimeMax => u.boot = b /\ u.time = n + 1
            /\ n + 1 > TimeMax => u.boot = b + 1 /\ u.time = (n + 1) - (TimeMax + 1)
    BY <2>2, <2>3, <2>4, <2>7
  <2> QED
    BY <1>1, <2>1, <2>3, <2>8, <2>9 DEF Gone
<1>4. \A e \in proved : e \in Engine /\ record[e] # NoRecord /\ record[e].auth
  BY DEF TimeInv
<1> QED
  BY <1>1, <1>2, <1>3, <1>4 DEF TimeInv

LEMMA TimeNextInv == ASSUME TimeInv, [TimeNext]_timeVars PROVE TimeInv'
<1>1. CASE UNCHANGED timeVars
  BY <1>1 DEF timeVars, TimeInv, TimeTyped, Gone, Reckoned
<1> QED
  BY <1>1, HearStep, HearUnprovedStep, FreeStep, RebootStep, TickStep DEF TimeNext

\* Every engine has come as far as reckoned since it was heard.
THEOREM TimeInvariance == TimeSpec => []TimeInv
  BY TimeInitInv, TimeNextInv, PTL DEF TimeSpec

\* What is estimated of an engine that was heard with authentication, in numbers.
LEMMA Estimated ==
    ASSUME TimeTyped, NEW e \in Engine, record[e] # NoRecord, NEW a \in BOOLEAN, ~(a /\ ~record[e].auth)
    PROVE  LET b == record[e].clock.boot
               n == Reckoned(e)
           IN  /\ n \in Nat
               /\ n <= TimeMax => Estimate(e, a) = [boot |-> b, time |-> n]
               /\ n > TimeMax => Estimate(e, a) = [boot |-> IF b < BootMax THEN b + 1 ELSE BootMax,
                                                   time |-> n - TimeMax]
<1> DEFINE r == record[e]
<1>1. /\ TimeMax \in Nat /\ now \in Nat /\ r.at \in 0 .. now
      /\ r.clock.boot \in 0 .. BootMax /\ r.clock.time \in 0 .. TimeMax
  BY TimeNumbers
<1>2. Reckoned(e) = r.clock.time + (now - r.at)
  BY DEF Reckoned
<1>3. Estimate(e, a) = IF now - r.at > TimeMax - r.clock.time
             THEN [boot |-> NewBoot(r.clock.boot), time |-> (now - r.at) - (TimeMax - r.clock.time)]
             ELSE [boot |-> r.clock.boot, time |-> r.clock.time + (now - r.at)]
  BY DEF Estimate
<1> HIDE DEF r
<1>4. NewBoot(r.clock.boot) = IF r.clock.boot < BootMax THEN r.clock.boot + 1 ELSE BootMax
  BY <1>1, Boots
<1>5. Reckoned(e) \in Nat
  BY <1>1, <1>2
<1>6. CASE Reckoned(e) <= TimeMax
  <2>1. ~(now - r.at > TimeMax - r.clock.time)
    BY <1>1, <1>2, <1>6
  <2> QED
    BY <1>2, <1>3, <1>5, <1>6, <2>1, TimeAssumption DEF r
<1>7. CASE Reckoned(e) > TimeMax
  <2>1. now - r.at > TimeMax - r.clock.time
    BY <1>1, <1>2, <1>7
  <2>2. (now - r.at) - (TimeMax - r.clock.time) = Reckoned(e) - TimeMax
    BY <1>1, <1>2
  <2> QED
    BY <1>3, <1>4, <1>5, <1>7, <2>1, <2>2, TimeAssumption DEF r
<1> QED
  BY <1>1, <1>5, <1>6, <1>7

\* The same of all engines, so that it can be said of the next state too.
EstimateIs(e, a) ==
    LET b == record[e].clock.boot
        n == Reckoned(e)
    IN  /\ n \in Nat
        /\ n <= TimeMax => Estimate(e, a) = [boot |-> b, time |-> n]
        /\ n > TimeMax => Estimate(e, a) = [boot |-> IF b < BootMax THEN b + 1 ELSE BootMax,
                                            time |-> n - TimeMax]

AllEstimated == \A e \in Engine, a \in BOOLEAN :
                    record[e] # NoRecord /\ ~(a /\ ~record[e].auth) => EstimateIs(e, a)

LEMMA EstimatedAll == TimeTyped => AllEstimated
  BY Estimated DEF AllEstimated, EstimateIs

LEMMA EstimatedNext == ASSUME TimeTyped' PROVE AllEstimated'
  BY EstimatedAll, PTL

LEMMA AuthenticHolds == ASSUME TimeInv PROVE AuthenticEstimate
<1> SUFFICES ASSUME NEW e \in proved, truth[e].boot < BootMax
             PROVE  /\ ~Later([Estimate(e, TRUE) EXCEPT !.time = @ - 1], truth[e])
                    /\ e \notin rebooted => /\ Estimate(e, TRUE).boot = truth[e].boot
                                            /\ Estimate(e, TRUE).time - truth[e].time \in {0, 1}
  BY DEF AuthenticEstimate
<1> DEFINE t == truth[e]
           b == record[e].clock.boot
           n == Reckoned(e)
           c == Estimate(e, TRUE)
<1>1. TimeTyped /\ e \in Engine /\ record[e] # NoRecord /\ record[e].auth /\ Gone(e, t)
  BY DEF TimeInv
<1>2. /\ TimeMax \in Nat /\ BootMax \in Nat /\ b \in 0 .. BootMax
      /\ t.boot \in 0 .. BootMax /\ t.time \in 0 .. TimeMax
  BY <1>1, TimeNumbers
<1>3. /\ n \in Nat
      /\ n <= TimeMax => c = [boot |-> b, time |-> n]
      /\ n > TimeMax => c = [boot |-> IF b < BootMax THEN b + 1 ELSE BootMax, time |-> n - TimeMax]
  BY <1>1, Estimated
<1>4. /\ n <= TimeMax => t.boot > b \/ (t.boot = b /\ t.time >= n)
      /\ n > TimeMax => t.boot > b + 1 \/ (t.boot = b + 1 /\ t.time >= n - (TimeMax + 1))
      /\ e \notin rebooted => /\ n <= TimeMax => t.boot = b /\ t.time = n
                              /\ n > TimeMax => t.boot = b + 1 /\ t.time = n - (TimeMax + 1)
  BY <1>1 DEF Gone
<1>5. t.boot < BootMax
  OBVIOUS
<1> DEFINE cb == IF n <= TimeMax THEN b ELSE IF b < BootMax THEN b + 1 ELSE BootMax
           ct == IF n <= TimeMax THEN n ELSE n - TimeMax
<1> HIDE DEF t, b, n, c
<1>6. c = [boot |-> cb, time |-> ct]
  BY <1>2, <1>3
<1>7. cb \in Nat /\ ct \in Nat
  BY <1>2, <1>3
<1>8. cb < t.boot \/ (cb = t.boot /\ ct - 1 <= t.time)
  BY <1>2, <1>3, <1>4, <1>5
<1>9. e \notin rebooted => cb = t.boot /\ ct - t.time \in {0, 1}
  BY <1>2, <1>3, <1>4, <1>5
<1> HIDE DEF cb, ct
<1>10. [c EXCEPT !.time = @ - 1] = [boot |-> cb, time |-> ct - 1]
  BY <1>6
<1>11. ~Later([boot |-> cb, time |-> ct - 1], t)
  <2>1. ~(cb > t.boot) /\ ~(cb = t.boot /\ ct - 1 > t.time)
    BY <1>2, <1>7, <1>8
  <2> QED
    BY <2>1 DEF Later
<1>12. ~Later([c EXCEPT !.time = @ - 1], t)
  BY <1>10, <1>11
<1>13. e \notin rebooted => c.boot = t.boot /\ c.time - t.time \in {0, 1}
  BY <1>6, <1>9
<1> QED
  BY <1>12, <1>13 DEF c, t

LEMMA ForwardHolds == ASSUME TimeInv, TimeInv' PROVE GoesForward
<1> SUFFICES ASSUME Tick, NEW e \in Known, NEW a \in BOOLEAN, Estimate(e, a).boot < BootMax
             PROVE  ~Later(Estimate(e, a), Estimate(e, a)')
  BY DEF GoesForward
<1>1. /\ TimeTyped /\ TimeTyped' /\ e \in Engine /\ record[e] # NoRecord
      /\ now' = now + 1 /\ record' = record
  BY DEF TimeInv, Tick, Known
<1>2. CASE a /\ ~record[e].auth
  <2>1. Estimate(e, a) = [boot |-> 0, time |-> 0] /\ Estimate(e, a)' = [boot |-> 0, time |-> 0]
    BY <1>1, <1>2 DEF Estimate
  <2> QED
    BY <2>1 DEF Later
<1>3. CASE ~(a /\ ~record[e].auth)
  <2> DEFINE b == record[e].clock.boot
             n == Reckoned(e)
             c == Estimate(e, a)
             d == Estimate(e, a)'
  <2>1. /\ TimeMax \in Nat /\ BootMax \in Nat /\ b \in 0 .. BootMax
        /\ record[e].clock.time \in Nat /\ record[e].at \in 0 .. now /\ now \in Nat
    BY <1>1, TimeNumbers
  <2>2. /\ n \in Nat
        /\ n <= TimeMax => c = [boot |-> b, time |-> n]
        /\ n > TimeMax => c = [boot |-> IF b < BootMax THEN b + 1 ELSE BootMax, time |-> n - TimeMax]
    BY <1>1, <1>3, Estimated
  <2>3. Reckoned(e)' = n + 1 /\ record'[e].clock.boot = b
    BY <1>1, <2>1 DEF Reckoned
  <2>4. /\ n + 1 <= TimeMax => d = [boot |-> b, time |-> n + 1]
        /\ n + 1 > TimeMax => d = [boot |-> IF b < BootMax THEN b + 1 ELSE BootMax,
                                   time |-> (n + 1) - TimeMax]
    <3>1. record'[e] # NoRecord /\ ~(a /\ ~record'[e].auth)
      BY <1>1, <1>3
    <3>2. EstimateIs(e, a)'
      BY <1>1, <3>1, EstimatedNext DEF AllEstimated
    <3> QED
      BY <2>3, <3>2 DEF EstimateIs
  <2>5. c.boot < BootMax
    OBVIOUS
  <2> HIDE DEF b, n, c, d
  <2> DEFINE cb == IF n <= TimeMax THEN b ELSE IF b < BootMax THEN b + 1 ELSE BootMax
             ct == IF n <= TimeMax THEN n ELSE n - TimeMax
             db == IF n + 1 <= TimeMax THEN b ELSE IF b < BootMax THEN b + 1 ELSE BootMax
             dt == IF n + 1 <= TimeMax THEN n + 1 ELSE (n + 1) - TimeMax
  <2>6. c = [boot |-> cb, time |-> ct] /\ d = [boot |-> db, time |-> dt]
    BY <2>1, <2>2, <2>4
  <2>7. cb < BootMax
    BY <2>5, <2>6
  <2>8. ~(cb > db) /\ ~(cb = db /\ ct > dt)
    BY <2>1, <2>2, <2>7
  <2> HIDE DEF cb, ct, db, dt
  <2>9. ~Later(c, d)
    BY <2>6, <2>8 DEF Later
  <2> QED
    BY <2>9 DEF c, d
<1> QED
  BY <1>2, <1>3

\* A cached clock can be relied on, whether its engine was heard just now or long ago: an engine
\* heard with authentication is never taken to be more than a second ahead of what it is, even
\* if it has started again, and no estimate goes back while nothing is heard.
THEOREM EstimateAlwaysSound == TimeSpec => EstimateSound
<1>1. TimeInv /\ TimeInv' => GoesForward /\ AuthenticEstimate'
  BY ForwardHolds, AuthenticHolds, PTL
<1> QED
  BY <1>1, TimeInvariance, PTL DEF EstimateSound


-----------------------------------------------------------------------------
(* The choice of a transport                                                *)

\* A domain that goes by the name n, or none of those that are registered.
Goes(n, d) == n \in ToSet(Names[d])

LEMMA FindDomain ==
    ASSUME domain_list \in Seq(Domain), NEW n
    PROVE  /\ find_tdomain(n) \in Domain \cup {NoDomain}
           /\ find_tdomain(n) # NoDomain => find_tdomain(n) \in Range(domain_list) /\ Goes(n, find_tdomain(n))
           /\ find_tdomain(n) = NoDomain => \A d \in Range(domain_list) : ~Goes(n, d)
<1> DEFINE I == {i \in 1 .. Len(domain_list) : n \in ToSet(Names[domain_list[i]])}
<1>1. /\ Len(domain_list) \in Nat /\ DOMAIN domain_list = 1 .. Len(domain_list)
      /\ \A i \in 1 .. Len(domain_list) : domain_list[i] \in Domain
  BY LenProperties
<1>2. I \in SUBSET Nat
  BY <1>1
<1>3. I # {} => Min(I) \in I
  BY <1>2, LeastOf
<1>4. SelectInSeq(domain_list, LAMBDA d : n \in ToSet(Names[d])) = IF I # {} THEN Min(I) ELSE 0
  BY DEF SelectInSeq
<1>5. I # {} => Min(I) # 0
  BY <1>1, <1>3
<1>6. find_tdomain(n) = IF I = {} THEN NoDomain ELSE domain_list[Min(I)]
  <2> HIDE DEF I
  <2> QED
    BY <1>4, <1>5 DEF find_tdomain
<1>7. CASE I = {}
  BY <1>1, <1>6, <1>7 DEF Goes, Range
<1>8. CASE I # {}
  <2>1. Min(I) \in 1 .. Len(domain_list) /\ n \in ToSet(Names[domain_list[Min(I)]])
    BY <1>3, <1>8
  <2>2. domain_list[Min(I)] \in Range(domain_list) /\ domain_list[Min(I)] \in Domain
    BY <1>1, <2>1 DEF Range
  <2>3. domain_list[Min(I)] # NoDomain
    BY <2>2, ChoiceAssumption
  <2> QED
    BY <1>6, <1>8, <2>1, <2>2, <2>3 DEF Goes
<1> QED
  BY <1>7, <1>8

-----------------------------------------------------------------------------

DomainsEntry == [key : {1}, user : Lists \cup {NoList}, default : Lists \cup {NoList}]

\* The domains that the names of a list stand for, those that are registered.
Found(s) == Kept([i \in DOMAIN s |-> find_tdomain(s[i])], Domain)

Tried == [i \in DOMAIN tried |-> tried[i].domain]

ChoiceTyped == /\ domain_list \in Seq(Domain)
               /\ domains \in Seq(DomainsEntry)
               /\ pc \in {"idle", "loop", "created", "failed"}
               /\ pc # "idle" => /\ call \in Wish /\ (call.slash => call.name = NoName)
                                 /\ spec \in Seq(Name)
                                 /\ match \in Range(domain_list) \cup {NoDomain}
                                 /\ whole \in BOOLEAN
                                 /\ tried \in Seq(Range(tried))
                                 /\ \A a \in Range(tried) : a.domain \in Domain

\* What was tried, what is tried now and what is left are what was asked for.
Ordered == /\ pc = "loop" => (Tried \o Kept(<<match>>, Domain)) \o Found(spec) = Wanted
           /\ pc = "created" => IsPrefix(Tried, Wanted)
           /\ pc = "failed" => Tried = Wanted

\* All of the string is the address unless the domain was found by its first part, and then there
\* is no other to try.
Addressed == /\ pc # "idle" => \A a \in Range(tried) : a.whole = ~Goes(call.name, a.domain)
             /\ pc = "loop" => /\ whole => \A d \in Range(domain_list) : ~Goes(call.name, d)
                               /\ ~whole => match # NoDomain /\ Goes(call.name, match) /\ spec = <<>>

ChoiceInv == ChoiceTyped /\ (pc = "idle" => tried = <<>>) /\ Ordered /\ Addressed

\* The default domains are a list of names, if there are any.
LEMMA LookupList ==
    ASSUME domains \in Seq(DomainsEntry)
    PROVE  D!Lookup(1) \in Lists \cup {NoList}
<1>1. DOMAIN domains = 1 .. Len(domains) /\ \A i \in 1 .. Len(domains) : domains[i] \in DomainsEntry
  BY LenProperties
<1>2. D!EntryOf(1).user \in Lists \cup {NoList} /\ D!EntryOf(1).default \in Lists \cup {NoList}
  <2>1. CASE D!Present(1)
    <3>1. D!Place(1) \in DOMAIN domains
      BY <2>1 DEF D!Present
    <3>2. D!EntryOf(1) = domains[D!Place(1)]
      BY <2>1 DEF D!EntryOf
    <3> QED
      BY <1>1, <3>1, <3>2 DEF DomainsEntry
  <2>2. CASE ~D!Present(1)
    BY <2>2 DEF D!EntryOf
  <2> QED
    BY <2>1, <2>2
<1> QED
  BY <1>2 DEF D!Lookup

\* The defaults keep their type whatever is set.
LEMMA DomainsStep ==
    ASSUME domains \in Seq(DomainsEntry), D!TableNext
    PROVE  domains' \in Seq(DomainsEntry)
<1> DEFINE n == D!Place(1)
<1>1. /\ Len(domains) \in Nat /\ DOMAIN domains = 1 .. Len(domains)
      /\ \A i \in 1 .. Len(domains) : domains[i] \in DomainsEntry
  BY LenProperties
<1>2. n \in 1 .. Len(domains) + 1
  <2> DEFINE I == {i \in 1 .. Len(domains) : domains[i].key >= 1}
  <2>1. I \in SUBSET Nat
    BY <1>1
  <2>2. I # {} => Min(I) \in I
    BY <2>1, LeastOf
  <2>3. D!SelectInSeq(domains, LAMBDA e : e.key >= 1) = IF I # {} THEN Min(I) ELSE 0
    BY DEF D!SelectInSeq, D!Min, Min
  <2>4. n = IF I = {} THEN Len(domains) + 1 ELSE Min(I)
    <3>1. I # {} => Min(I) # 0
      BY <1>1, <2>2
    <3> HIDE DEF I
    <3> QED
      BY <2>3, <3>1 DEF D!Place
  <2>5. I # {} => Min(I) \in 1 .. Len(domains)
    BY <2>2
  <2>6. \A m \in 1 .. Len(domains) : m \in 1 .. Len(domains) + 1
    BY <1>1
  <2>7. Len(domains) + 1 \in 1 .. Len(domains) + 1
    BY <1>1
  <2> HIDE DEF I, n
  <2> QED
    BY <2>4, <2>5, <2>6, <2>7
<1>3. ASSUME NEW e \in DomainsEntry PROVE D!With(e) \in Seq(DomainsEntry)
  <2>1. e.key = 1
    BY DEF DomainsEntry
  <2>2. CASE D!Present(1)
    <3>1. n \in 1 .. Len(domains)
      BY <1>1, <2>2 DEF D!Present
    <3>2. D!With(e) = [domains EXCEPT ![n] = e]
      BY <2>1, <2>2 DEF D!With, D!ReplaceAt
    <3> HIDE DEF n
    <3> QED
      BY <1>1, <3>1, <3>2
  <2>3. CASE ~D!Present(1)
    <3>1. D!With(e) = InsertAt(domains, n, e)
      BY <2>1, <2>3 DEF D!With, D!InsertAt, InsertAt
    <3> HIDE DEF n
    <3>2. \A s \in Seq(DomainsEntry) : \A x \in DomainsEntry : \A i \in 1 .. Len(s) + 1 :
              InsertAt(s, i, x) \in Seq(DomainsEntry)
      BY InsertAtElements
    <3> QED
      BY <1>2, <3>1, <3>2
  <2> QED
    BY <2>2, <2>3
<1>4. D!Without(1) \in Seq(DomainsEntry)
  <2>1. CASE D!Present(1)
    <3>1. n \in 1 .. Len(domains) /\ D!Without(1) = RemoveAt(domains, n)
      BY <1>1, <2>1 DEF D!Present, D!Without, D!RemoveAt, RemoveAt
    <3> HIDE DEF n
    <3> QED
      BY <3>1, RemoveAtElements
  <2>2. CASE ~D!Present(1)
    BY <2>2 DEF D!Without
  <2> QED
    BY <2>1, <2>2
<1> DEFINE o == D!EntryOf(1)
<1>5. o \in DomainsEntry
  <2>1. CASE D!Present(1)
    BY <1>1, <2>1 DEF D!Present, D!EntryOf
  <2>2. CASE ~D!Present(1)
    BY <2>2 DEF D!EntryOf, DomainsEntry
  <2> QED
    BY <2>1, <2>2
<1>6. ASSUME NEW v \in Lists \cup {NoList}, D!RegisterDefault(1, v) PROVE domains' \in Seq(DomainsEntry)
  <2>1. domains' = D!Without(1) \/ domains' = D!With([o EXCEPT !.default = v])
    BY <1>6 DEF D!RegisterDefault
  <2>2. [o EXCEPT !.default = v] \in DomainsEntry
    <3> HIDE DEF o
    <3> QED
      BY <1>5 DEF DomainsEntry
  <2> QED
    BY <1>3, <1>4, <2>1, <2>2
<1>7. ASSUME NEW v \in Lists, D!RegisterUser(1, v) PROVE domains' \in Seq(DomainsEntry)
  <2>1. domains' = domains \/ domains' = D!With([o EXCEPT !.user = v])
    BY <1>7 DEF D!RegisterUser
  <2>2. [o EXCEPT !.user = v] \in DomainsEntry
    <3> HIDE DEF o
    <3> QED
      BY <1>5 DEF DomainsEntry
  <2> QED
    BY <1>3, <2>1, <2>2
<1>8. CASE D!ClearUser
  <2> DEFINE G == {e \in ToSet(domains) : e.default # NoList}
             t == Kept(domains, G)
  <2>1. domains' = [i \in DOMAIN t |-> [t[i] EXCEPT !.user = NoList]]
    BY <1>8 DEF D!ClearUser, D!Kept, Kept, D!ToSet, ToSet
  <2> HIDE DEF G
  <2>2. t \in Seq(DomainsEntry)
    BY KeptEntries
  <2> HIDE DEF t
  <2>3. Len(t) \in Nat /\ DOMAIN t = 1 .. Len(t) /\ \A i \in 1 .. Len(t) : t[i] \in DomainsEntry
    BY <2>2, LenProperties
  <2>4. \A i \in 1 .. Len(t) : [t[i] EXCEPT !.user = NoList] \in DomainsEntry
    BY <2>3 DEF DomainsEntry
  <2> QED
    BY <2>1, <2>3, <2>4
<1>9. CASE D!ClearDefault
  BY <1>9 DEF D!ClearDefault
<1> QED
  BY <1>6, <1>7, <1>8, <1>9 DEF D!TableNext

\* What is asked for is a list of names, and what is found of it of domains.
LEMMA FoundDomains ==
    ASSUME domain_list \in Seq(Domain), NEW s \in Seq(Name)
    PROVE  /\ [i \in DOMAIN s |-> find_tdomain(s[i])] \in Seq(Domain \cup {NoDomain})
           /\ Len([i \in DOMAIN s |-> find_tdomain(s[i])]) = Len(s)
           /\ Found(s) \in Seq(Domain \cup {NoDomain})
<1> DEFINE t == [i \in DOMAIN s |-> find_tdomain(s[i])]
<1>1. Len(s) \in Nat /\ DOMAIN s = 1 .. Len(s)
  BY LenProperties
<1>2. \A i \in 1 .. Len(s) : t[i] \in Domain \cup {NoDomain}
  BY <1>1, FindDomain
<1>3. t \in Seq(Domain \cup {NoDomain}) /\ Len(t) = Len(s)
  BY <1>1, <1>2
<1>4. Found(s) = Kept(t, Domain)
  BY DEF Found
<1> HIDE DEF t
<1>5. Found(s) \in Seq(Domain \cup {NoDomain})
  BY <1>3, <1>4, KeptEntries
<1> QED
  BY <1>3, <1>5 DEF t

\* The first name and those behind it.
LEMMA FoundFirst ==
    ASSUME domain_list \in Seq(Domain), NEW s \in Seq(Name), s # <<>>
    PROVE  Found(s) = Kept(<<find_tdomain(Head(s))>>, Domain) \o Found(Tail(s))
<1> DEFINE M(u) == [i \in DOMAIN u |-> find_tdomain(u[i])]
           S == Domain \cup {NoDomain}
           h == find_tdomain(s[1])
<1>1. /\ Len(s) \in Nat /\ Len(s) # 0 /\ DOMAIN s = 1 .. Len(s) /\ Head(s) = s[1]
      /\ Tail(s) \in Seq(Name) /\ Len(Tail(s)) = Len(s) - 1
      /\ \A i \in 1 .. Len(s) - 1 : Tail(s)[i] = s[i + 1]
  BY LenProperties, EmptySeq, HeadTailProperties
<1>2. /\ M(s) \in Seq(S) /\ Len(M(s)) = Len(s) /\ \A i \in 1 .. Len(s) : M(s)[i] = find_tdomain(s[i])
  BY <1>1, FoundDomains
<1>3. /\ M(Tail(s)) \in Seq(S) /\ Len(M(Tail(s))) = Len(s) - 1
      /\ \A i \in 1 .. Len(s) - 1 : M(Tail(s))[i] = find_tdomain(s[i + 1])
  <2>1. DOMAIN Tail(s) = 1 .. Len(s) - 1
    BY <1>1, LenProperties
  <2> QED
    BY <1>1, <2>1, FoundDomains
<1>4. h \in S
  BY FindDomain
<1>5. Found(s) = Kept(M(s), Domain) /\ Found(Tail(s)) = Kept(M(Tail(s)), Domain)
  BY DEF Found
<1> DEFINE a == M(s)
           b == M(Tail(s))
           c == <<h>> \o b
<1> HIDE DEF h, S
<1>6. /\ <<h>> \in Seq(S) /\ c \in Seq(S) /\ Len(c) = 1 + (Len(s) - 1)
      /\ \A i \in 1 .. 1 + (Len(s) - 1) : c[i] = IF i <= 1 THEN h ELSE b[i - 1]
  <2> HIDE DEF M, b
  <2>1. <<h>> \in Seq(S) /\ Len(<<h>>) = 1 /\ <<h>>[1] = h
    BY <1>4
  <2>2. b \in Seq(S) /\ Len(b) = Len(s) - 1
    BY <1>3 DEF b
  <2> DEFINE d == <<h>>
  <2> HIDE DEF d
  <2>3. /\ d \o b \in Seq(S) /\ Len(d \o b) = Len(d) + Len(b)
        /\ \A i \in 1 .. Len(d) + Len(b) : (d \o b)[i] = IF i <= Len(d) THEN d[i] ELSE b[i - Len(d)]
    BY <2>1, <2>2, ConcatProperties DEF d
  <2>4. Len(d) = 1 /\ d[1] = h
    BY <2>1 DEF d
  <2>5. ASSUME NEW i \in 1 .. 1 + (Len(s) - 1) PROVE (d \o b)[i] = IF i <= 1 THEN h ELSE b[i - 1]
    <3>1. i <= 1 => i = 1
      OBVIOUS
    <3> QED
      BY <2>2, <2>3, <2>4, <3>1
  <2> QED
    BY <2>1, <2>2, <2>3, <2>4, <2>5 DEF d
<1>7. a = c
  <2>1. Len(a) = Len(c) /\ a \in Seq(S)
    BY <1>1, <1>2, <1>6
  <2>2. ASSUME NEW i \in 1 .. Len(s) PROVE a[i] = c[i]
    <3>1. CASE i = 1
      <4>1. c[i] = h
        BY <1>1, <1>6, <3>1
      <4> QED
        BY <1>2, <3>1, <4>1 DEF h
    <3>2. CASE i # 1
      <4>1. i - 1 \in 1 .. Len(s) - 1 /\ (i - 1) + 1 = i /\ ~(i <= 1) /\ i \in 1 .. 1 + (Len(s) - 1)
        BY <1>1, <3>2
      <4>2. c[i] = b[i - 1]
        BY <1>6, <4>1
      <4>3. b[i - 1] = find_tdomain(s[i])
        BY <1>3, <4>1
      <4> QED
        BY <1>2, <4>2, <4>3
    <3> QED
      BY <3>1, <3>2
  <2> HIDE DEF a, c
  <2>3. Len(a) = Len(s) /\ Len(c) = Len(s)
    BY <1>1, <1>2, <2>1 DEF a
  <2>4. c \in Seq(S)
    BY <1>6
  <2>5. a = [i \in 1 .. Len(s) |-> a[i]] /\ c = [i \in 1 .. Len(s) |-> c[i]]
    BY <2>1, <2>3, <2>4
  <2> QED
    BY <2>2, <2>5
<1> HIDE DEF a, b, M
<1>8. Kept(<<h>> \o b, Domain) = Kept(<<h>>, Domain) \o Kept(b, Domain)
  <2>1. b \in Seq(S)
    BY <1>3 DEF b
  <2>2. \A t, u \in Seq(S) : Kept(t \o u, Domain) = Kept(t, Domain) \o Kept(u, Domain)
    BY KeptConcat
  <2> QED
    BY <1>6, <2>1, <2>2
<1> QED
  BY <1>1, <1>5, <1>7, <1>8 DEF a, b, h

\* What a list of one name stands for, and a list of none.
LEMMA FoundShort ==
    ASSUME domain_list \in Seq(Domain), NEW s \in Seq(Name)
    PROVE  /\ Len(s) = 1 => Found(s) = Kept(<<find_tdomain(s[1])>>, Domain)
           /\ s = <<>> => Found(s) = <<>>
<1>1. s = <<>> => Found(s) = <<>>
  <2> SUFFICES ASSUME s = <<>> PROVE Found(s) = <<>>
    OBVIOUS
  <2>1. [i \in DOMAIN s |-> find_tdomain(s[i])] = <<>>
    BY FoundDomains, EmptySeq, LenProperties
  <2> QED
    BY <2>1, KeptOfNone DEF Found
<1>2. ASSUME Len(s) = 1 PROVE Found(s) = Kept(<<find_tdomain(s[1])>>, Domain)
  <2>0. s # <<>> /\ Head(s) = s[1]
    <3>1. s # <<>>
      BY <1>2, EmptySeq
    <3>2. Head(s) = s[1]
      OBVIOUS
    <3> QED
      BY <3>1, <3>2
  <2>1. s # <<>> /\ Head(s) = s[1] /\ Tail(s) \in Seq(Name) /\ Len(Tail(s)) = 0
    BY <1>2, <2>0, HeadTailProperties
  <2>2. Tail(s) = <<>>
    BY <2>1, EmptySeq
  <2>3. Found(s) = Kept(<<find_tdomain(s[1])>>, Domain) \o Found(Tail(s))
    BY <2>1, FoundFirst
  <2>4. Found(Tail(s)) = <<>>
    <3>1. [i \in DOMAIN Tail(s) |-> find_tdomain(Tail(s)[i])] = <<>>
      BY <2>1, <2>2, FoundDomains, EmptySeq, LenProperties
    <3> QED
      BY <3>1, KeptOfNone DEF Found
  <2> DEFINE d == find_tdomain(s[1])
             S == Domain \cup {NoDomain}
  <2>5. d \in S
    BY FindDomain
  <2> HIDE DEF d, S
  <2> DEFINE t == <<d>>
  <2>6. t \in Seq(S)
    BY <2>5
  <2> HIDE DEF t
  <2>7. Kept(t, Domain) \in Seq(S)
    BY <2>6, KeptEntries
  <2>8. Kept(t, Domain) \o <<>> = Kept(t, Domain)
    BY <2>7, ConcatEmptySeq
  <2> QED
    BY <2>3, <2>4, <2>8 DEF t, d
<1> QED
  BY <1>1, <1>2

LEMMA PrefixOfConcat ==
    ASSUME NEW S, NEW s \in Seq(S), NEW t \in Seq(S)
    PROVE  IsPrefix(s, s \o t)
<1>1. /\ Len(s) \in Nat /\ Len(t) \in Nat /\ Len(s \o t) = Len(s) + Len(t) /\ s \o t \in Seq(S)
      /\ \A i \in 1 .. Len(s) : (s \o t)[i] = s[i]
  BY ConcatProperties, LenProperties
<1>2. Len(s) <= Len(s \o t)
  BY <1>1
<1> DEFINE u == s \o t
<1> HIDE DEF u
<1>3. SubSeq(s, 1, Len(s)) = SubSeq(u, 1, Len(s))
  <2>1. u \in Seq(S) /\ Len(s) <= Len(u) /\ Len(u) \in Nat /\ \A i \in 1 .. Len(s) : u[i] = s[i]
    BY <1>1, <1>2, LenProperties DEF u
  <2>2. SubSeq(s, 1, Len(s)) = [i \in 1 .. Len(s) |-> s[i]]
    BY <1>1, SubSeqFull
  <2>3. SubSeq(u, 1, Len(s)) = [i \in 1 .. Len(s) |-> u[i]]
    BY <1>1, <2>1
  <2> QED
    BY <2>1, <2>2, <2>3
<1> QED
  BY <1>2, <1>3 DEF IsPrefix, u

\* An answer depends on the list of domains only, and what is asked for on the call and the
\* defaults as well.
LEMMA SameAnswers ==
    ASSUME UNCHANGED domain_list
    PROVE  /\ \A s : Found(s)' = Found(s)
           /\ \A n : find_tdomain(n)' = find_tdomain(n)
BY DEF Found, find_tdomain, SelectInSeq

LEMMA SameWish ==
    ASSUME UNCHANGED <<domain_list, domains, call>>
    PROVE  Wanted' = Wanted
<1>1. D!Lookup(1)' = D!Lookup(1)
  BY DEF D!Lookup, D!EntryOf, D!Present, D!Place, D!SelectInSeq, D!Min
<1>2. Asked' = Asked
  BY <1>1 DEF Asked
<1> QED
  BY <1>2, SameAnswers DEF Wanted, find_tdomain, SelectInSeq

LEMMA WantedFound == Wanted = Found(Asked)
BY DEF Wanted, Found

LEMMA ChoiceStarts == ChoiceInit => ChoiceInv
<1> SUFFICES ASSUME ChoiceInit PROVE ChoiceInv
  OBVIOUS
<1>1. domain_list = <<>> /\ domains = <<>> /\ pc = "idle" /\ tried = <<>>
  BY DEF ChoiceInit, D!TableInit
<1> QED
  BY <1>1 DEF ChoiceInv, ChoiceTyped, Ordered, Addressed

\* Between two calls domains come and go and defaults are set.
LEMMA IdleStep ==
    ASSUME ChoiceInv, \/ \E d \in Domain : RegisterDomain(d) \/ UnregisterDomain(d)
                      \/ Configure
    PROVE  ChoiceInv'
<1>1. pc = "idle" /\ UNCHANGED search /\ tried = <<>>
  BY DEF RegisterDomain, UnregisterDomain, Configure, ChoiceInv
<1>2. pc' = "idle" /\ tried' = <<>>
  BY <1>1 DEF search
<1>3. domain_list' \in Seq(Domain) /\ domains' \in Seq(DomainsEntry)
  <2> USE DEF ChoiceInv, ChoiceTyped
  <2>1. CASE Configure
    <3>1. domain_list' = domain_list /\ (D!TableNext \/ domains' = domains)
      BY <2>1 DEF Configure
    <3> QED
      BY <3>1, DomainsStep
  <2>2. ASSUME NEW d \in Domain, RegisterDomain(d) PROVE domain_list' \in Seq(Domain) /\ domains' = domains
    BY <2>2 DEF RegisterDomain
  <2>3. ASSUME NEW d \in Domain, UnregisterDomain(d) PROVE domain_list' \in Seq(Domain) /\ domains' = domains
    <3>1. domain_list' = Kept(domain_list, Domain \ {d}) /\ domains' = domains
      BY <2>3 DEF UnregisterDomain
    <3>2. \A G : Kept(domain_list, G) \in Seq(Domain)
      BY KeptEntries
    <3> QED
      BY <3>1, <3>2
  <2> QED
    BY <2>1, <2>2, <2>3
<1> QED
  BY <1>2, <1>3 DEF ChoiceInv, ChoiceTyped, Ordered, Addressed

LEMMA StartStep == ASSUME ChoiceInv, Start PROVE ChoiceInv'
<1>1. PICK c \in Wish : /\ c.slash => c.name = NoName
                        /\ call' = c /\ whole' = WholeAddress(c) /\ tried' = <<>> /\ pc' = "loop"
                        /\ IF FirstTry(c) # NoDomain THEN match' = FirstTry(c) /\ spec' = <<>>
                           ELSE match' = SecondTry(c).match /\ spec' = SecondTry(c).spec
                        /\ UNCHANGED <<domain_list, domains>>
  BY DEF Start
<1>2. /\ domain_list \in Seq(Domain) /\ domains \in Seq(DomainsEntry)
  BY DEF ChoiceInv, ChoiceTyped
<1>3. /\ c.name \in Name \cup {NoName} /\ c.domains \in Lists \cup {NoList}
      /\ c.slash \in BOOLEAN
  BY DEF Wish
<1>4. D!Lookup(1) \in Lists \cup {NoList} /\ D!Lookup(1)' = D!Lookup(1)
  <2>1. D!Lookup(1)' = D!Lookup(1)
    BY <1>1 DEF D!Lookup, D!EntryOf, D!Present, D!Place, D!SelectInSeq, D!Min
  <2> QED
    BY <1>2, <2>1, LookupList
<1>5. Lists \subseteq Seq(Name) /\ "udp" \in Name /\ "unix" \in Name /\ NoName \notin Name
  <2>1. "udp" \in Name /\ "unix" \in Name
    BY DEF Name
  <2> QED
    BY <2>1, ChoiceAssumption
<1>6. Wanted' = Found(Asked') /\ \A s : Found(s)' = Found(s)
  <2>1. Wanted' = Found(Asked')
    BY <1>1 DEF Wanted, Found, find_tdomain, SelectInSeq
  <2> QED
    BY <1>1, <2>1, SameAnswers
<1>7. \A d \in Range(domain_list) : d \in Domain
  BY <1>2 DEF Range
<1>8. ToSet(domain_list) = Range(domain_list)
  BY DEF ToSet, Range
<1> DEFINE named == c.name # NoName /\ \E d \in Range(domain_list) : Goes(c.name, d)
<1>9. named <=> FirstTry(c) # NoDomain
  BY <1>2, FindDomain DEF FirstTry
<1>10. Asked' = IF named THEN <<c.name>> ELSE IF c.slash THEN <<"unix">>
                ELSE IF c.domains # NoList THEN c.domains
                ELSE IF D!Lookup(1) # NoList THEN D!Lookup(1) ELSE <<"udp">>
  <2> HIDE DEF named
  <2>1. named <=> c.name # NoName /\ \E d \in ToSet(domain_list)' : c.name \in ToSet(Names[d])
    BY <1>1, <1>8 DEF named, Goes, ToSet
  <2> QED
    BY <1>1, <1>4, <2>1 DEF Asked
<1>11. \A n \in Name : <<n>> \in Seq(Name) /\ Len(<<n>>) = 1 /\ <<n>>[1] = n
  OBVIOUS
<1>12. /\ Asked' \in Seq(Name) /\ spec' \in Seq(Name)
       /\ match' \in Range(domain_list) \cup {NoDomain}
       /\ \/ Len(Asked') = 1 /\ match' = find_tdomain(Asked'[1]) /\ spec' = <<>>
          \/ match' = NoDomain /\ spec' = Asked'
  <2> HIDE DEF named
  <2>0. \A n : find_tdomain(n) \in Range(domain_list) \cup {NoDomain}
    BY <1>2, FindDomain
  <2>1. CASE named
    <3>1. Asked' = <<c.name>> /\ c.name \in Name /\ match' = find_tdomain(c.name) /\ spec' = <<>>
      BY <1>1, <1>3, <1>9, <1>10, <2>1 DEF named, FirstTry
    <3> QED
      BY <1>11, <2>0, <3>1
  <2>2. CASE ~named /\ c.slash
    <3>1. Asked' = <<"unix">> /\ match' = find_tdomain("unix") /\ spec' = <<>>
      BY <1>1, <1>9, <1>10, <2>2 DEF SecondTry
    <3> QED
      BY <1>5, <1>11, <2>0, <3>1
  <2>3. CASE ~named /\ ~c.slash /\ c.domains # NoList
    <3>1. Asked' = c.domains /\ c.domains \in Seq(Name)
      BY <1>3, <1>5, <1>10, <2>3
    <3>2. SecondTry(c) = IF Len(c.domains) = 1 THEN [match |-> find_tdomain(c.domains[1]), spec |-> <<>>]
                         ELSE [match |-> NoDomain, spec |-> c.domains]
      BY <1>3, <2>3 DEF SecondTry
    <3>3. match' = SecondTry(c).match /\ spec' = SecondTry(c).spec
      BY <1>1, <1>9, <2>3
    <3> QED
      BY <2>0, <3>1, <3>2, <3>3
  <2>4. CASE ~named /\ ~c.slash /\ c.domains = NoList
    <3>1. SecondTry(c) = IF D!Lookup(1) = NoList THEN [match |-> find_tdomain("udp"), spec |-> <<>>]
                         ELSE [match |-> NoDomain, spec |-> D!Lookup(1)]
      BY <1>3, <2>4 DEF SecondTry
    <3>2. match' = SecondTry(c).match /\ spec' = SecondTry(c).spec
      BY <1>1, <1>9, <2>4
    <3>3. CASE D!Lookup(1) = NoList
      <4>1. Asked' = <<"udp">> /\ match' = find_tdomain("udp") /\ spec' = <<>>
        BY <1>10, <2>4, <3>1, <3>2, <3>3
      <4> QED
        BY <1>5, <1>11, <2>0, <4>1
    <3>4. CASE D!Lookup(1) # NoList
      BY <1>4, <1>5, <1>10, <2>4, <3>1, <3>2, <3>4
    <3> QED
      BY <3>3, <3>4
  <2> QED
    BY <1>3, <2>1, <2>2, <2>3, <2>4
<1> HIDE DEF named
<1>13. ChoiceTyped'
  <2>1. <<>> \in Seq(Range(<<>>)) /\ Range(<<>>) = {}
    BY DEF Range
  <2>2. Range(domain_list)' = Range(domain_list)
    BY <1>1 DEF Range
  <2>3. tried' \in Seq(Range(tried')) /\ Range(tried') = {} /\ Range(tried)' = Range(tried')
    BY <1>1, <2>1 DEF Range
  <2>4. whole' \in BOOLEAN
    BY <1>1 DEF WholeAddress
  <2> QED
    BY <1>1, <1>2, <1>12, <2>2, <2>3, <2>4 DEF ChoiceTyped
<1>14. Ordered'
  <2>1. Kept(<<match'>>, Domain) \o Found(spec') = Found(Asked')
    <3>1. Found(<<>>) = <<>>
      <4>1. <<>> \in Seq(Name)
        OBVIOUS
      <4> QED
        BY <1>2, <4>1, FoundShort
    <3> DEFINE S == Domain \cup {NoDomain}
               t == <<match'>>
    <3>2. Found(Asked') \in Seq(S)
      BY <1>2, <1>12, FoundDomains
    <3>3. match' \in S
      BY <1>7, <1>12
    <3>4. CASE Len(Asked') = 1 /\ match' = find_tdomain(Asked'[1]) /\ spec' = <<>>
      <4>1. Found(Asked') = Kept(<<match'>>, Domain)
        BY <1>2, <1>12, <3>4, FoundShort
      <4>2. Found(Asked') \o <<>> = Found(Asked')
        BY <3>2, ConcatEmptySeq
      <4> QED
        BY <3>1, <3>4, <4>1, <4>2
    <3>5. CASE match' = NoDomain /\ spec' = Asked'
      <4>1. Kept(<<match'>>, Domain) = <<>>
        BY <3>5, ChoiceAssumption, KeptOfOne
      <4>2. <<>> \o Found(Asked') = Found(Asked')
        BY <3>2, ConcatEmptySeq
      <4> QED
        BY <3>5, <4>1, <4>2
    <3> QED
      BY <1>12, <3>4, <3>5
  <2>2. Tried' = <<>>
    BY <1>1 DEF Tried
  <2>3. (Tried \o Kept(<<match>>, Domain))' \o Found(spec') = Found(Asked')
    <3> DEFINE S == Domain \cup {NoDomain}
               t == <<match'>>
    <3>1. match' \in S
      BY <1>7, <1>12
    <3> HIDE DEF S
    <3>2. t \in Seq(S)
      BY <3>1
    <3> HIDE DEF t
    <3>3. Kept(t, Domain) \in Seq(S)
      BY <3>2, KeptEntries
    <3>4. <<>> \o Kept(t, Domain) = Kept(t, Domain)
      BY <3>3, ConcatEmptySeq
    <3>5. (Tried \o Kept(<<match>>, Domain))' = <<>> \o Kept(t, Domain)
      BY <2>2 DEF t
    <3> QED
      BY <2>1, <3>4, <3>5 DEF t
  <2>4. Found(spec)' = Found(spec')
    BY <1>1 DEF Found, find_tdomain, SelectInSeq
  <2> QED
    BY <1>1, <1>6, <2>3, <2>4 DEF Ordered
<1>15. Addressed'
  <2>1. Range(tried)' = {} /\ Range(domain_list)' = Range(domain_list)
    BY <1>1 DEF Range
  <2>2. whole' => \A d \in Range(domain_list) : ~Goes(c.name, d)
    <3> SUFFICES ASSUME FirstTry(c) = NoDomain, NEW d \in Range(domain_list) PROVE ~Goes(c.name, d)
      BY <1>1 DEF WholeAddress
    <3>1. ToSet(Names[d]) \subseteq Name
      BY <1>7 DEF Name
    <3> QED
      BY <1>5, <1>9, <3>1 DEF named, Goes
  <2>3. ~whole' => match' # NoDomain /\ Goes(c.name, match') /\ spec' = <<>>
    <3> SUFFICES ASSUME ~whole' PROVE match' # NoDomain /\ Goes(c.name, match') /\ spec' = <<>>
      OBVIOUS
    <3>1. FirstTry(c) # NoDomain
      BY <1>1 DEF WholeAddress
    <3>2. match' = FirstTry(c) /\ spec' = <<>>
      BY <1>1, <3>1
    <3>3. FirstTry(c) = find_tdomain(c.name)
      BY <3>1 DEF FirstTry
    <3> QED
      BY <1>2, <3>1, <3>2, <3>3, FindDomain
  <2> QED
    BY <1>1, <2>1, <2>2, <2>3 DEF Addressed, Goes
<1> QED
  BY <1>1, <1>13, <1>14, <1>15 DEF ChoiceInv

\* A domain that is tried goes to the end of those that were.
LEMMA TriedGrows ==
    ASSUME ChoiceInv, pc = "loop", tried' = IF match = NoDomain THEN tried ELSE Append(tried, Attempt)
    PROVE  /\ Tried \in Seq(Domain \cup {NoDomain})
           /\ Kept(<<match>>, Domain) \in Seq(Domain \cup {NoDomain})
           /\ Tried' = Tried \o Kept(<<match>>, Domain)
           /\ tried' \in Seq(Range(tried'))
           /\ \A a \in Range(tried') : a.domain \in Domain /\ a.whole = ~Goes(call.name, a.domain)
<1> DEFINE S == Domain \cup {NoDomain}
<1>1. /\ match \in Range(domain_list) \cup {NoDomain} /\ whole \in BOOLEAN
      /\ tried \in Seq(Range(tried))
      /\ \A a \in Range(tried) : a.domain \in Domain /\ a.whole = ~Goes(call.name, a.domain)
  BY DEF ChoiceInv, ChoiceTyped, Addressed
<1>2. Range(domain_list) \subseteq Domain /\ NoDomain \notin Domain
  BY ChoiceAssumption DEF ChoiceInv, ChoiceTyped, Range
<1>3. match # NoDomain => whole = ~Goes(call.name, match)
  BY <1>1 DEF ChoiceInv, Addressed
<1>4. /\ Len(tried) \in Nat /\ DOMAIN tried = 1 .. Len(tried)
      /\ \A i \in 1 .. Len(tried) : tried[i] \in Range(tried)
  BY <1>1, LenProperties DEF Range
<1>5. Tried \in Seq(Domain) /\ Len(Tried) = Len(tried) /\ DOMAIN Tried = 1 .. Len(tried)
      /\ \A i \in 1 .. Len(tried) : Tried[i] = tried[i].domain
  BY <1>1, <1>4 DEF Tried
<1>6. Tried \in Seq(S)
  BY <1>5
<1>7. CASE match = NoDomain
  <2>1. Kept(<<match>>, Domain) = <<>>
    BY <1>2, <1>7, KeptOfOne
  <2>2. tried' = tried
    BY <1>7
  <2>3. Tried' = Tried
    BY <2>2 DEF Tried
  <2>4. Tried \o <<>> = Tried
    BY <1>6, ConcatEmptySeq
  <2>5. <<>> \in Seq(S)
    OBVIOUS
  <2> QED
    BY <1>1, <1>6, <2>1, <2>2, <2>3, <2>4, <2>5
<1>8. CASE match # NoDomain
  <2>1. match \in Domain
    BY <1>1, <1>2, <1>8
  <2>2. Kept(<<match>>, Domain) = <<match>>
    BY <2>1, KeptOfOne
  <2>3. Attempt.domain = match /\ Attempt.whole = whole
    BY DEF Attempt
  <2> DEFINE e == Attempt
             R == Range(tried) \cup {e}
  <2>4. tried' = Append(tried, e)
    BY <1>8
  <2> HIDE DEF e
  <2>5. tried \in Seq(R)
    BY <1>1
  <2>6. /\ tried' \in Seq(R) /\ Len(tried') = Len(tried) + 1 /\ DOMAIN tried' = 1 .. Len(tried) + 1
        /\ \A i \in 1 .. Len(tried) : tried'[i] = tried[i]
        /\ tried'[Len(tried) + 1] = e
    BY <2>4, <2>5, AppendProperties, LenProperties
  <2>7. Range(tried') = R
    <3>1. \A i \in 1 .. Len(tried) + 1 : i \in 1 .. Len(tried) \/ i = Len(tried) + 1
      BY <1>4
    <3>2. \A i \in 1 .. Len(tried) : i \in 1 .. Len(tried) + 1
      BY <1>4
    <3>3. Len(tried) + 1 \in 1 .. Len(tried) + 1
      BY <1>4
    <3> HIDE DEF R
    <3> QED
      BY <1>4, <2>6, <3>1, <3>2, <3>3 DEF Range, R
  <2>8. \A a \in Range(tried') : a.domain \in Domain /\ a.whole = ~Goes(call.name, a.domain)
    BY <1>1, <1>3, <1>8, <2>1, <2>3, <2>7 DEF e
  <2>9. Tried' = Append(Tried, match)
    <3>1. Tried' = [i \in 1 .. Len(tried) + 1 |-> tried'[i].domain]
      BY <2>6 DEF Tried
    <3>2. /\ Append(Tried, match) \in Seq(Domain) /\ Len(Append(Tried, match)) = Len(tried) + 1
          /\ \A i \in 1 .. Len(tried) : Append(Tried, match)[i] = tried[i].domain
          /\ Append(Tried, match)[Len(tried) + 1] = match
      BY <1>5, <2>1, AppendProperties
    <3> DEFINE t == Append(Tried, match)
    <3>3. t = [i \in 1 .. Len(tried) + 1 |-> t[i]]
      <4>1. t \in Seq(Domain) /\ Len(t) = Len(tried) + 1
        BY <3>2
      <4> HIDE DEF t
      <4> QED
        BY <4>1
    <3>4. ASSUME NEW i \in 1 .. Len(tried) + 1 PROVE t[i] = tried'[i].domain
      <4>1. i \in 1 .. Len(tried) \/ i = Len(tried) + 1
        BY <1>4
      <4>2. tried'[Len(tried) + 1].domain = match
        BY <2>3, <2>6 DEF e
      <4> QED
        BY <2>6, <3>2, <4>1, <4>2
    <3> HIDE DEF t
    <3> QED
      BY <3>1, <3>3, <3>4 DEF t
  <2>10. Append(Tried, match) = Tried \o <<match>>
    BY <1>5, <2>1, AppendIsConcat
  <2>11. <<match>> \in Seq(S)
    BY <2>1
  <2> QED
    BY <1>6, <2>2, <2>6, <2>7, <2>8, <2>9, <2>10, <2>11
<1> QED
  BY <1>7, <1>8

LEMMA TryStep == ASSUME ChoiceInv, CreateSucceeds \/ CreateFails PROVE ChoiceInv'
<1> DEFINE S == Domain \cup {NoDomain}
           K == Kept(<<match>>, Domain)
<1>1. /\ pc = "loop" /\ UNCHANGED <<domain_list, domains, call>>
      /\ tried' = IF match = NoDomain THEN tried ELSE Append(tried, Attempt)
  BY DEF CreateSucceeds, CreateFails
<1>2. /\ domain_list \in Seq(Domain) /\ domains \in Seq(DomainsEntry) /\ call \in Wish
      /\ (call.slash => call.name = NoName) /\ spec \in Seq(Name) /\ whole \in BOOLEAN
      /\ match \in Range(domain_list) \cup {NoDomain}
      /\ whole => \A d \in Range(domain_list) : ~Goes(call.name, d)
      /\ ~whole => spec = <<>>
  BY <1>1 DEF ChoiceInv, ChoiceTyped, Addressed
<1>3. /\ Tried \in Seq(S) /\ K \in Seq(S) /\ Tried' = Tried \o K
      /\ tried' \in Seq(Range(tried'))
      /\ \A a \in Range(tried') : a.domain \in Domain /\ a.whole = ~Goes(call.name, a.domain)
  BY <1>1, TriedGrows
<1>4. (Tried \o K) \o Found(spec) = Wanted /\ Wanted' = Wanted
  BY <1>1, SameWish DEF ChoiceInv, Ordered
<1>5. Found(spec) \in Seq(S) /\ \A s : Found(s)' = Found(s)
  BY <1>1, <1>2, FoundDomains, SameAnswers
<1>6. Range(domain_list)' = Range(domain_list) /\ Range(tried)' = Range(tried')
  BY <1>1 DEF Range
<1> HIDE DEF S, K
<1>7. Tried \o K \in Seq(S)
  BY <1>3, ConcatProperties
<1>8. CASE CreateSucceeds
  <2>1. pc' = "created" /\ UNCHANGED <<match, spec, whole>>
    BY <1>8 DEF CreateSucceeds
  <2>2. IsPrefix(Tried', Wanted')
    BY <1>3, <1>4, <1>5, <1>7, PrefixOfConcat
  <2>3. IsPrefix(Tried, Wanted)' = IsPrefix(Tried', Wanted')
    BY DEF IsPrefix
  <2> QED
    BY <1>1, <1>2, <1>3, <1>6, <2>1, <2>2, <2>3 DEF ChoiceInv, ChoiceTyped, Ordered, Addressed, Goes
<1>9. CASE CreateFails /\ spec # <<>>
  <2>1. /\ pc' = "loop" /\ whole' = TRUE
        /\ match' = find_tdomain(Head(spec)) /\ spec' = Tail(spec)
    BY <1>1, <1>9 DEF CreateFails
  <2>2. Found(spec) = Kept(<<match'>>, Domain) \o Found(spec')
    BY <1>2, <1>9, <2>1, FoundFirst
  <2>3. spec' \in Seq(Name) /\ match' \in Range(domain_list) \cup {NoDomain}
    BY <1>2, <1>9, <2>1, FindDomain, HeadTailProperties
  <2>4. match' \in S
    BY <1>2, <2>3 DEF S, Range
  <2> DEFINE t == <<match'>>
  <2>5. t \in Seq(S)
    BY <2>4
  <2> HIDE DEF t
  <2>6. Kept(t, Domain) \in Seq(S)
    BY <2>5, KeptEntries
  <2>7. Found(spec') \in Seq(S)
    BY <1>2, <2>3, FoundDomains DEF S
  <2>8. Wanted' = ((Tried \o K) \o Kept(t, Domain)) \o Found(spec')
    <3> DEFINE a == Tried \o K
               b == Kept(t, Domain)
               e == Found(spec')
    <3>1. a \in Seq(S) /\ b \in Seq(S) /\ e \in Seq(S)
      BY <1>7, <2>6, <2>7
    <3>2. Wanted' = a \o (b \o e)
      BY <1>4, <2>2 DEF t
    <3> HIDE DEF a, b, e
    <3>3. a \o (b \o e) = (a \o b) \o e
      BY <3>1, ConcatAssociative
    <3>4. Wanted' = (a \o b) \o e
      BY <3>2, <3>3
    <3> QED
      BY <3>4 DEF a, b, e
  <2>9. Found(spec)' = Found(spec')
    BY <1>1 DEF Found, find_tdomain, SelectInSeq
  <2>10. (Tried \o Kept(<<match>>, Domain))' = (Tried \o K) \o Kept(t, Domain)
    BY <1>3 DEF t
  <2>11. Ordered'
    BY <2>1, <2>8, <2>9, <2>10 DEF Ordered
  <2> QED
    BY <1>1, <1>2, <1>3, <1>6, <1>9, <2>1, <2>3, <2>11 DEF ChoiceInv, ChoiceTyped, Addressed, Goes
<1>10. CASE CreateFails /\ spec = <<>>
  <2>1. pc' = "failed" /\ whole' = TRUE /\ UNCHANGED <<match, spec>>
    BY <1>10 DEF CreateFails
  <2>2. Found(spec) = <<>>
    BY <1>2, <1>10, FoundShort
  <2>3. (Tried \o K) \o <<>> = Tried \o K
    BY <1>7, ConcatEmptySeq
  <2> QED
    BY <1>1, <1>2, <1>3, <1>4, <1>6, <2>1, <2>2, <2>3 DEF ChoiceInv, ChoiceTyped, Ordered, Addressed, Goes
<1> QED
  BY <1>8, <1>9, <1>10

LEMMA ReturnStep == ASSUME ChoiceInv, Return \/ UNCHANGED choiceVars PROVE ChoiceInv'
<1>1. CASE Return
  BY <1>1 DEF Return, ChoiceInv, ChoiceTyped, Ordered, Addressed
<1>2. CASE UNCHANGED choiceVars
  <2>1. UNCHANGED <<domain_list, domains, call, match, spec, whole, tried, pc>>
    BY <1>2 DEF choiceVars, search
  <2>2. Wanted' = Wanted
    BY <2>1, SameWish
  <2>3. Found(spec)' = Found(spec) /\ Tried' = Tried
    BY <2>1 DEF Found, find_tdomain, SelectInSeq, Tried
  <2>4. Ordered'
    BY <2>1, <2>2, <2>3 DEF ChoiceInv, Ordered, IsPrefix
  <2>5. Addressed' /\ ChoiceTyped'
    BY <2>1 DEF ChoiceInv, ChoiceTyped, Addressed, Goes, Range
  <2> QED
    BY <2>1, <2>4, <2>5 DEF ChoiceInv
<1> QED
  BY <1>1, <1>2

LEMMA ChoiceSteps == ChoiceInv /\ [ChoiceNext]_choiceVars => ChoiceInv'
BY IdleStep, StartStep, TryStep, ReturnStep DEF ChoiceNext

\* The domains that were tried, the one that is tried and those that are left make up what the
\* call asked for, whatever is registered and set between calls.
THEOREM ChoiceInvariance == ChoiceSpec => []ChoiceInv
<1>1. ChoiceInit => ChoiceInv
  BY ChoiceStarts
<1>2. ChoiceInv /\ [ChoiceNext]_choiceVars => ChoiceInv'
  BY ChoiceSteps
<1> QED
  BY <1>1, <1>2, PTL DEF ChoiceSpec

LEMMA ChoiceSound == ChoiceInv => TriedRightly
<1> SUFFICES ASSUME ChoiceInv PROVE TriedRightly
  OBVIOUS
<1>1. AddressFits
  <2> SUFFICES ASSUME NEW i \in DOMAIN tried
               PROVE  tried[i].whole = (call.name \notin ToSet(Names[tried[i].domain]))
    BY DEF AddressFits
  <2>1. pc # "idle"
    BY DEF ChoiceInv
  <2> QED
    BY <2>1 DEF ChoiceInv, Addressed, Goes, Range
<1>2. TriedInOrder
  <2> SUFFICES ASSUME pc # "idle" PROVE IsPrefix(Tried, Wanted) /\ (pc = "failed" => Tried = Wanted)
    BY DEF TriedInOrder, Tried
  <2> DEFINE S == Domain \cup {NoDomain}
  <2>1. Tried \in Seq(S)
    <3>1. tried \in Seq(Range(tried)) /\ \A a \in Range(tried) : a.domain \in Domain
      BY DEF ChoiceInv, ChoiceTyped
    <3>2. /\ Len(tried) \in Nat /\ DOMAIN tried = 1 .. Len(tried)
          /\ \A i \in 1 .. Len(tried) : tried[i].domain \in S
      BY <3>1, LenProperties DEF Range
    <3> QED
      BY <3>2 DEF Tried
  <2>2. CASE pc = "loop"
    <3> DEFINE K == Kept(<<match>>, Domain)
    <3>1. (Tried \o K) \o Found(spec) = Wanted
      BY <2>2 DEF ChoiceInv, Ordered
    <3>2. Found(spec) \in Seq(S)
      BY <2>2, FoundDomains DEF ChoiceInv, ChoiceTyped
    <3>3. K \in Seq(S)
      <4>1. match \in S
        BY <2>2 DEF ChoiceInv, ChoiceTyped, Range
      <4> DEFINE t == <<match>>
      <4> HIDE DEF S
      <4>2. t \in Seq(S)
        BY <4>1
      <4> HIDE DEF t
      <4>3. Kept(t, Domain) \in Seq(S)
        BY <4>2, KeptEntries
      <4> QED
        BY <4>3 DEF t
    <3> HIDE DEF S, K
    <3>4. Tried \o (K \o Found(spec)) = Wanted /\ K \o Found(spec) \in Seq(S)
      <4>1. K \o Found(spec) \in Seq(S)
        BY <3>2, <3>3, ConcatProperties
      <4>2. (Tried \o K) \o Found(spec) = Tried \o (K \o Found(spec))
        BY <2>1, <3>2, <3>3, ConcatAssociative
      <4> QED
        BY <3>1, <4>1, <4>2
    <3>5. IsPrefix(Tried, Wanted)
      BY <2>1, <3>4, PrefixOfConcat
    <3> QED
      BY <2>2, <3>5
  <2>3. CASE pc = "failed"
    <3>1. Tried = Wanted /\ Tried \o <<>> = Tried /\ <<>> \in Seq(S)
      BY <2>1, <2>3, ConcatEmptySeq DEF ChoiceInv, Ordered
    <3> HIDE DEF S
    <3> QED
      BY <2>1, <3>1, PrefixOfConcat
  <2>4. CASE pc = "created"
    BY <2>4 DEF ChoiceInv, Ordered
  <2> QED
    BY <2>2, <2>3, <2>4 DEF ChoiceInv, ChoiceTyped
<1> QED
  BY <1>1, <1>2 DEF TriedRightly

\* Every domain that is asked for and registered is tried in its turn, none after one that
\* worked, a call fails only behind the last, and each gets the part of the string that is its
\* address (netsnmp_tdomain_transport_full), whatever lists of names are configured.
THEOREM AlwaysTriedRightly == ChoiceSpec => []TriedRightly
BY ChoiceInvariance, ChoiceSound, PTL


-----------------------------------------------------------------------------
(* Views                                                                    *)

ViewInv == views \in Seq(View)

\* The order of object identifiers is one: two that differ are ordered one way, and orders chain.
LEMMA OidOrder ==
    ASSUME NEW s \in Seq(Nat), NEW t \in Seq(Nat), NEW u \in Seq(Nat)
    PROVE  /\ ~OidLess(s, s)
           /\ OidLess(s, t) => ~OidLess(t, s)
           /\ OidLess(s, t) /\ OidLess(t, u) => OidLess(s, u)
           /\ s # t => OidLess(s, t) \/ OidLess(t, s)
<1>0. Len(s) \in Nat /\ Len(t) \in Nat /\ Len(u) \in Nat
  BY LenProperties
<1>1. /\ Len(s) \in Nat /\ DOMAIN s = 1 .. Len(s) /\ \A i \in 1 .. Len(s) : s[i] \in Nat
      /\ Len(t) \in Nat /\ DOMAIN t = 1 .. Len(t) /\ \A i \in 1 .. Len(t) : t[i] \in Nat
      /\ Len(u) \in Nat /\ DOMAIN u = 1 .. Len(u) /\ \A i \in 1 .. Len(u) : u[i] \in Nat
  BY LenProperties
<1> DEFINE At(a, b, i) == a[i] < b[i] /\ \A j \in 1 .. (i - 1) : a[j] = b[j]
<1>2. /\ \A i \in 1 .. Len(s) : ~(s[i] < s[i])
      /\ ~(Len(s) < Len(s))
  BY <1>1
<1>3. ~OidLess(s, s)
  BY <1>1, <1>2 DEF OidLess
<1>4. ASSUME OidLess(s, t) PROVE ~OidLess(t, s)
  <2>1. CASE Len(s) < Len(t)
    <3>1. ~(Len(t) < Len(s)) /\ Len(t) # Len(s)
      BY <1>0, <2>1
    <3> QED
      BY <3>1 DEF OidLess
  <2>2. CASE ~(Len(s) < Len(t))
    <3>1. Len(s) = Len(t)
      BY <1>4, <2>2 DEF OidLess
    <3>2. PICK i \in 1 .. Len(s) : At(s, t, i)
      BY <1>1, <1>4, <2>2 DEF OidLess
    <3>3. ASSUME NEW k \in 1 .. Len(s), At(t, s, k) PROVE FALSE
      <4>1. CASE i < k
        <5>1. i \in 1 .. (k - 1)
          BY <1>1, <4>1
        <5> QED
          BY <1>1, <3>1, <3>2, <3>3, <5>1
      <4>2. CASE k < i
        <5>1. k \in 1 .. (i - 1)
          BY <1>1, <4>2
        <5> QED
          BY <1>1, <3>1, <3>2, <3>3, <5>1
      <4>3. CASE i = k
        BY <1>1, <3>1, <3>2, <3>3, <4>3
      <4> QED
        BY <4>1, <4>2, <4>3
    <3> QED
      BY <1>1, <3>1, <3>3 DEF OidLess
  <2> QED
    BY <2>1, <2>2
<1>5. ASSUME OidLess(s, t), OidLess(t, u) PROVE OidLess(s, u)
  <2>0. Len(s) <= Len(t) /\ Len(t) <= Len(u)
    <3>1. (Len(s) < Len(t) \/ Len(s) = Len(t)) /\ (Len(t) < Len(u) \/ Len(t) = Len(u))
      BY <1>5 DEF OidLess
    <3> QED
      BY <1>0, <3>1
  <2>1. CASE Len(s) < Len(u)
    BY <2>1 DEF OidLess
  <2>2. CASE ~(Len(s) < Len(u))
    <3>1. Len(s) = Len(t) /\ Len(t) = Len(u)
      BY <1>0, <2>0, <2>2
    <3>2. PICK i \in 1 .. Len(s) : At(s, t, i)
      BY <1>1, <1>5, <3>1 DEF OidLess
    <3>3. PICK k \in 1 .. Len(s) : At(t, u, k)
      BY <1>1, <1>5, <3>1 DEF OidLess
    <3>4. \E m \in 1 .. Len(s) : At(s, u, m)
      <4>1. CASE i < k
        <5>1. i \in 1 .. (k - 1) /\ \A j \in 1 .. (i - 1) : j \in 1 .. (k - 1)
          BY <1>1, <4>1
        <5> QED
          BY <1>1, <3>1, <3>2, <3>3, <5>1
      <4>2. CASE k < i
        <5>1. k \in 1 .. (i - 1) /\ \A j \in 1 .. (k - 1) : j \in 1 .. (i - 1)
          BY <1>1, <4>2
        <5> QED
          BY <1>1, <3>1, <3>2, <3>3, <5>1
      <4>3. CASE i = k
        <5>1. s[i] < u[i]
          BY <1>1, <3>1, <3>2, <3>3, <4>3
        <5> QED
          BY <3>2, <3>3, <4>3, <5>1
      <4> QED
        BY <4>1, <4>2, <4>3
    <3> QED
      BY <1>1, <3>1, <3>4 DEF OidLess
  <2> QED
    BY <2>1, <2>2
<1>6. ASSUME s # t PROVE OidLess(s, t) \/ OidLess(t, s)
  <2>1. CASE Len(s) # Len(t)
    <3>1. Len(s) < Len(t) \/ Len(t) < Len(s)
      BY <1>0, <2>1
    <3> QED
      BY <3>1 DEF OidLess
  <2>2. CASE Len(s) = Len(t)
    <3> DEFINE Differ == {i \in 1 .. Len(s) : s[i] # t[i]}
               m == Min(Differ)
    <3>1. Differ # {}
      <4> SUFFICES ASSUME Differ = {} PROVE FALSE
        OBVIOUS
      <4>1. \A i \in 1 .. Len(s) : s[i] = t[i]
        OBVIOUS
      <4>2. s = [i \in 1 .. Len(s) |-> s[i]] /\ t = [i \in 1 .. Len(s) |-> t[i]]
        BY <2>2
      <4> HIDE DEF Differ
      <4> QED
        BY <1>6, <4>1, <4>2
    <3>2. Differ \in SUBSET Nat
      BY <1>1
    <3>3. m \in Differ /\ \A j \in Differ : m <= j
      <4> HIDE DEF Differ
      <4> QED
        BY <3>1, <3>2, LeastOf
    <3>4. m \in 1 .. Len(s) /\ s[m] # t[m]
      BY <3>3
    <3>5. ASSUME NEW j \in 1 .. (m - 1) PROVE s[j] = t[j]
      <4>1. j \in 1 .. Len(s) /\ ~(m <= j)
        BY <1>1, <3>4
      <4> QED
        BY <3>3, <4>1
    <3> HIDE DEF m
    <3>6. s[m] < t[m] \/ t[m] < s[m]
      BY <1>1, <2>2, <3>4
    <3>7. At(s, t, m) \/ At(t, s, m)
      BY <3>5, <3>6
    <3> QED
      BY <1>1, <2>2, <3>4, <3>7 DEF OidLess
  <2> QED
    BY <2>1, <2>2
<1> QED
  BY <1>3, <1>4, <1>5, <1>6

\* Entry k covers oid, and is greater than those in front of it and no smaller than those behind.
Decides(k, n, oid, i) == /\ k \in 1 .. i /\ Covers(views[k], n, oid)
                         /\ \A j \in 1 .. i : Covers(views[j], n, oid) =>
                               IF j < k THEN OidLess(views[j].subtree, views[k].subtree)
                               ELSE ~OidLess(views[k].subtree, views[j].subtree)

\* What the search of the first i entries finds.
Search(b, n, oid, i) == IF b = NoView THEN \A j \in 1 .. i : ~Covers(views[j], n, oid)
                       ELSE \E k \in 1 .. i : b = views[k] /\ Decides(k, n, oid, i)

\* One more entry.
LEMMA SearchNext ==
    ASSUME ViewInv, NEW i \in Nat, i + 1 <= Len(views), NEW n, NEW oid, NEW b, Search(b, n, oid, i)
    PROVE  LET c == IF /\ Covers(views[i + 1], n, oid)
                       /\ b = NoView \/ OidLess(b.subtree, views[i + 1].subtree)
                    THEN views[i + 1] ELSE b
           IN  Search(c, n, oid, i + 1)
<1> DEFINE e == views[i + 1]
           Less(j, k) == OidLess(views[j].subtree, views[k].subtree)
           C(j) == Covers(views[j], n, oid)
<1>1. /\ Len(views) \in Nat
      /\ \A j \in 1 .. Len(views) : views[j] \in View /\ views[j] # NoView
      /\ \A j \in 1 .. i + 1 : j \in 1 .. i \/ j = i + 1
      /\ \A j \in 1 .. i : j \in 1 .. i + 1 /\ j < i + 1 /\ j \in 1 .. Len(views)
      /\ i + 1 \in 1 .. i + 1 /\ i + 1 \in 1 .. Len(views) /\ ~(i + 1 < i + 1)
      /\ \A j \in 1 .. i : ~(i + 1 < j)
  <2>1. Len(views) \in Nat /\ \A j \in 1 .. Len(views) : views[j] \in View
    BY LenProperties DEF ViewInv
  <2>2. \A j \in 1 .. i + 1 : j \in 1 .. i \/ j = i + 1
    OBVIOUS
  <2>3. \A j \in 1 .. i : j \in 1 .. i + 1 /\ j < i + 1 /\ ~(i + 1 < j)
    OBVIOUS
  <2>4. \A j \in 1 .. i + 1 : j \in 1 .. Len(views)
    BY <2>1
  <2>5. i + 1 \in 1 .. i + 1 /\ ~(i + 1 < i + 1)
    OBVIOUS
  <2>6. NoView \notin View
    BY ViewAssumption
  <2> QED
    BY <2>1, <2>2, <2>3, <2>4, <2>5, <2>6
<1>2. \A j \in 1 .. Len(views) : views[j].subtree \in Seq(Nat)
  <2>1. \A j \in 1 .. Len(views) : views[j].subtree \in Subtrees
    BY <1>1 DEF View
  <2> QED
    BY <2>1, ViewAssumption
<1>3. \A j, k, l \in 1 .. Len(views) :
         /\ ~Less(j, j)
         /\ Less(j, k) => ~Less(k, j)
         /\ Less(j, k) /\ Less(k, l) => Less(j, l)
         /\ Less(k, l) /\ ~Less(k, j) => Less(j, l)
  <2> SUFFICES ASSUME NEW j \in 1 .. Len(views), NEW k \in 1 .. Len(views), NEW l \in 1 .. Len(views)
               PROVE  /\ ~Less(j, j)
                      /\ Less(j, k) => ~Less(k, j)
                      /\ Less(j, k) /\ Less(k, l) => Less(j, l)
                      /\ Less(k, l) /\ ~Less(k, j) => Less(j, l)
    OBVIOUS
  <2> DEFINE s == views[j].subtree
             t == views[k].subtree
             u == views[l].subtree
  <2>1. s \in Seq(Nat) /\ t \in Seq(Nat) /\ u \in Seq(Nat)
    BY <1>2
  <2> HIDE DEF s, t, u
  <2>2. /\ ~OidLess(s, s) /\ (OidLess(s, t) => ~OidLess(t, s))
        /\ OidLess(s, t) /\ OidLess(t, u) => OidLess(s, u)
        /\ s # t => OidLess(s, t) \/ OidLess(t, s)
    BY <2>1, OidOrder
  <2>3. OidLess(t, u) /\ ~OidLess(t, s) => OidLess(s, u)
    BY <2>2
  <2> QED
    BY <2>2, <2>3 DEF s, t, u
<1> HIDE DEF Less, C
<1>4. CASE C(i + 1) /\ b = NoView
  <2>1. \A j \in 1 .. i : ~C(j)
    BY <1>4 DEF Search, C
  <2>2. Decides(i + 1, n, oid, i + 1)
    BY <1>1, <1>3, <1>4, <2>1 DEF Decides, C, Less
  <2> QED
    BY <1>1, <1>4, <2>2 DEF Search, C
<1>5. CASE C(i + 1) /\ b # NoView
  <2>1. PICK k \in 1 .. i : b = views[k] /\ Decides(k, n, oid, i)
    BY <1>5 DEF Search
  <2>2. \A j \in 1 .. i : C(j) => IF j < k THEN Less(j, k) ELSE ~Less(k, j)
    BY <2>1 DEF Decides, Less, C
  <2>3. C(k)
    BY <2>1 DEF Decides, C
  <2>4. CASE Less(k, i + 1)
    <3>1. ASSUME NEW j \in 1 .. i, C(j) PROVE Less(j, i + 1)
      BY <1>1, <1>3, <2>1, <2>2, <2>4, <3>1
    <3>2. Decides(i + 1, n, oid, i + 1)
      BY <1>1, <1>3, <1>5, <3>1 DEF Decides, C, Less
    <3> QED
      BY <1>1, <1>5, <2>1, <2>4, <3>2 DEF Search, C, Less
  <2>5. CASE ~Less(k, i + 1)
    <3>1. Decides(k, n, oid, i + 1)
      BY <1>1, <2>1, <2>2, <2>3, <2>5 DEF Decides, C, Less
    <3> QED
      BY <1>1, <1>5, <2>1, <2>5, <3>1 DEF Search, C, Less
  <2> QED
    BY <2>4, <2>5
<1>6. CASE ~C(i + 1)
  <2>1. CASE b = NoView
    BY <1>1, <1>6, <2>1 DEF Search, C
  <2>2. CASE b # NoView
    <3>1. PICK k \in 1 .. i : b = views[k] /\ Decides(k, n, oid, i)
      BY <2>2 DEF Search
    <3>2. Decides(k, n, oid, i + 1)
      BY <1>1, <1>6, <3>1 DEF Decides, C
    <3> QED
      BY <1>1, <1>6, <2>2, <3>1, <3>2 DEF Search, C
  <2> QED
    BY <2>1, <2>2
<1> QED
  BY <1>4, <1>5, <1>6 DEF C

\* The search over the whole list.
LEMMA ViewGetSearch ==
    ASSUME ViewInv, NEW n, NEW oid
    PROVE  Search(ViewGet(n, oid), n, oid, Len(views))
<1> DEFINE N == Len(views)
           V == View \cup {NoView}
           Then(i, b) == IF /\ Covers(views[i], n, oid)
                            /\ b = NoView \/ OidLess(b.subtree, views[i].subtree)
                         THEN views[i] ELSE b
           upto[i \in 0 .. N] ==
               IF i = 0 THEN NoView
               ELSE IF /\ Covers(views[i], n, oid)
                       /\ upto[i - 1] = NoView \/ OidLess(upto[i - 1].subtree, views[i].subtree)
               THEN views[i] ELSE upto[i - 1]
           step == [x \in (1 .. N) \X V |-> Then(x[1], x[2])]
<1>1. N \in Nat /\ \A i \in 1 .. N : views[i] \in V
  BY LenProperties DEF ViewInv
<1>2. PICK g \in [0 .. N -> V] : Stepwise(g, step, NoView, N)
  <2>1. ASSUME NEW i \in 1 .. N, NEW b \in V PROVE Then(i, b) \in V
    BY <1>1
  <2>2. step \in [(1 .. N) \X V -> V]
    <3> HIDE DEF Then
    <3> QED
      BY <2>1
  <2>3. NoView \in V
    OBVIOUS
  <2> HIDE DEF step, V
  <2> QED
    BY <1>1, <2>2, <2>3, StepwiseExists
<1>3. ASSUME NEW i \in 1 .. N PROVE g[i] = Then(i, g[i - 1])
  <2>1. g[i - 1] \in V
    BY <1>1
  <2>2. g[i] = step[<<i, g[i - 1]>>]
    BY <1>2 DEF Stepwise
  <2>3. <<i, g[i - 1]>> \in (1 .. N) \X V
    BY <2>1
  <2> HIDE DEF Then
  <2> QED
    BY <2>2, <2>3
<1>4. g[0] = NoView
  BY <1>2 DEF Stepwise
<1> DEFINE Eqn(f) == [i \in 0 .. N |->
               IF i = 0 THEN NoView
               ELSE IF /\ Covers(views[i], n, oid)
                       /\ f[i - 1] = NoView \/ OidLess(f[i - 1].subtree, views[i].subtree)
               THEN views[i] ELSE f[i - 1]]
<1>5. g = Eqn(g)
  <2>1. ASSUME NEW i \in 0 .. N PROVE g[i] = IF i = 0 THEN NoView ELSE Then(i, g[i - 1])
    <3>1. i = 0 \/ i \in 1 .. N
      BY <1>1
    <3> HIDE DEF Then
    <3> QED
      BY <1>3, <1>4, <3>1
  <2> QED
    BY <2>1
<1>6. upto = Eqn(upto)
  BY <1>5
<1> HIDE DEF upto
<1>7. upto[0] = NoView /\ \A i \in 1 .. N : upto[i] = Then(i, upto[i - 1])
  <2>1. ASSUME NEW i \in 0 .. N PROVE upto[i] = IF i = 0 THEN NoView ELSE Then(i, upto[i - 1])
    BY <1>6
  <2>2. 0 \in 0 .. N /\ \A i \in 1 .. N : i \in 0 .. N /\ i # 0
    BY <1>1
  <2> HIDE DEF Then
  <2> QED
    BY <2>1, <2>2
<1> DEFINE Sought == {i \in Nat : i <= N => Search(upto[i], n, oid, i)}
<1>8. 0 \in Sought
  BY <1>7 DEF Search
<1>9. ASSUME NEW i \in Nat, i \in Sought PROVE i + 1 \in Sought
  <2> SUFFICES ASSUME i + 1 <= N PROVE Search(upto[i + 1], n, oid, i + 1)
    OBVIOUS
  <2>1. i + 1 \in 1 .. N /\ (i + 1) - 1 = i /\ Search(upto[i], n, oid, i)
    BY <1>1, <1>9
  <2>2. Search(Then(i + 1, upto[i]), n, oid, i + 1)
    BY <2>1, SearchNext
  <2>3. upto[i + 1] = Then(i + 1, upto[i])
    BY <1>7, <2>1
  <2> QED
    BY <2>2, <2>3
<1> HIDE DEF Sought
<1>10. N \in Sought
  BY <1>1, <1>8, <1>9, SetInduction
<1>11. ViewGet(n, oid) = upto[N]
  BY DEF ViewGet, upto
<1> QED
  BY <1>10, <1>11 DEF Sought

LEMMA ViewTypes ==
    ASSUME ViewInv
    PROVE  /\ Len(views) \in Nat /\ DOMAIN views = 1 .. Len(views)
           /\ \A i \in 1 .. Len(views) :
                 /\ views[i] \in View /\ views[i] # NoView /\ views[i] \in Range(views)
                 /\ views[i].type \in {"included", "excluded"}
                 /\ views[i].subtree \in Queried /\ views[i].subtree \in Seq(Nat)
                 /\ Len(views[i].subtree) \in Nat
                 /\ DOMAIN views[i].subtree = 1 .. Len(views[i].subtree)
<1>1. Len(views) \in Nat /\ DOMAIN views = 1 .. Len(views) /\ \A i \in 1 .. Len(views) : views[i] \in View
  BY LenProperties DEF ViewInv
<1>2. ASSUME NEW e \in View
      PROVE  /\ e # NoView /\ e.type \in {"included", "excluded"}
             /\ e.subtree \in Queried /\ e.subtree \in Seq(Nat)
  <2>1. e.type \in {"included", "excluded"} /\ e.subtree \in Subtrees
    BY DEF View
  <2> QED
    BY <2>1, ViewAssumption
<1>3. \A s \in Seq(Nat) : Len(s) \in Nat /\ DOMAIN s = 1 .. Len(s)
  BY LenProperties
<1>4. \A i \in 1 .. Len(views) : views[i] \in Range(views)
  BY <1>1 DEF Range
<1> QED
  BY <1>1, <1>2, <1>3, <1>4

\* Object identifiers inside a subtree begin with it.
LEMMA PrefixAgrees ==
    ASSUME NEW s \in Seq(Nat), NEW t \in Seq(Nat), IsPrefix(s, t)
    PROVE  Len(s) <= Len(t) /\ \A i \in 1 .. Len(s) : s[i] = t[i]
<1>1. Len(s) \in Nat /\ Len(t) \in Nat /\ Len(s) <= Len(t)
  BY LenProperties DEF IsPrefix
<1>2. SubSeq(s, 1, Len(s)) = SubSeq(t, 1, Len(s))
  BY DEF IsPrefix
<1>3. ASSUME NEW i \in 1 .. Len(s) PROVE s[i] = t[i]
  <2>1. SubSeq(s, 1, Len(s)) = s
    BY SubSeqFull
  <2>2. /\ \A j \in 1 .. Len(s) : t[j] \in Nat
        /\ Len(s) \in Int
    BY <1>1, LenProperties
  <2>3. SubSeq(t, 1, Len(s))[i] = t[i]
    BY <1>1, LenProperties
  <2> QED
    BY <1>2, <2>1, <2>3
<1> QED
  BY <1>1, <1>3

\* What decides inside of a subtree is in the subtree or decides about the subtree.
LEMMA DecidedInside ==
    ASSUME ViewInv, NEW n, NEW oid \in Queried, NEW o \in Queried, IsPrefix(oid, o)
    PROVE  \/ ViewGet(n, o) = ViewGet(n, oid)
           \/ ViewGet(n, o) # NoView /\ ViewGet(n, o) \in Inside(n, oid)
<1> DEFINE N == Len(views)
           b == ViewGet(n, o)
           d == ViewGet(n, oid)
           Short(k) == Len(views[k].subtree) <= Len(oid)
<1>1. /\ oid \in Seq(Nat) /\ o \in Seq(Nat)
      /\ Len(oid) \in Nat /\ DOMAIN oid = 1 .. Len(oid)
      /\ Len(o) \in Nat /\ DOMAIN o = 1 .. Len(o)
      /\ Len(oid) <= Len(o) /\ \A i \in 1 .. Len(oid) : oid[i] = o[i]
  <2>1. oid \in Seq(Nat) /\ o \in Seq(Nat)
    BY ViewAssumption
  <2> QED
    BY <2>1, LenProperties, PrefixAgrees
<1>2. \A k \in 1 .. N : Covers(views[k], n, oid) => Covers(views[k], n, o)
  <2> SUFFICES ASSUME NEW k \in 1 .. N, Covers(views[k], n, oid) PROVE Covers(views[k], n, o)
    OBVIOUS
  <2>1. Len(views[k].subtree) <= Len(oid) /\ Len(views[k].subtree) \in Nat
        /\ DOMAIN views[k].subtree = 1 .. Len(views[k].subtree)
    BY ViewTypes DEF Covers
  <2>2. Len(views[k].subtree) <= Len(o)
    BY <1>1, <2>1
  <2>3. ASSUME NEW i \in DOMAIN views[k].subtree
        PROVE  i \in DOMAIN oid /\ i \in DOMAIN o /\ oid[i] = o[i]
    <3>1. i \in 1 .. Len(oid) /\ i \in 1 .. Len(o)
      BY <1>1, <2>1, <2>2
    <3> QED
      BY <1>1, <3>1
  <2> QED
    BY <2>2, <2>3 DEF Covers, Alike
<1>3. \A k \in 1 .. N : Covers(views[k], n, o) /\ Short(k) => Covers(views[k], n, oid)
  <2> SUFFICES ASSUME NEW k \in 1 .. N, Covers(views[k], n, o), Short(k) PROVE Covers(views[k], n, oid)
    OBVIOUS
  <2>1. Len(views[k].subtree) \in Nat /\ DOMAIN views[k].subtree = 1 .. Len(views[k].subtree)
    BY ViewTypes
  <2>2. ASSUME NEW i \in DOMAIN views[k].subtree
        PROVE  i \in DOMAIN oid /\ i \in DOMAIN o /\ oid[i] = o[i]
    <3>1. i \in 1 .. Len(oid) /\ i \in 1 .. Len(o)
      BY <1>1, <2>1
    <3> QED
      BY <1>1, <3>1
  <2> QED
    BY <1>1, <2>2 DEF Covers, Alike
<1>4. \A k \in 1 .. N : Covers(views[k], n, o) /\ ~Short(k) => views[k] \in Inside(n, oid) /\ views[k] # NoView
  <2> SUFFICES ASSUME NEW k \in 1 .. N, Covers(views[k], n, o), ~Short(k)
               PROVE  views[k] \in Inside(n, oid) /\ views[k] # NoView
    OBVIOUS
  <2>1. /\ Len(views[k].subtree) \in Nat /\ DOMAIN views[k].subtree = 1 .. Len(views[k].subtree)
        /\ views[k] \in Range(views) /\ views[k] # NoView
    BY ViewTypes
  <2>2. Len(views[k].subtree) > Len(oid)
    BY <1>1, <2>1
  <2>3. \A i \in DOMAIN oid : i \in DOMAIN o
    BY <1>1
  <2>4. Alike(views[k], oid)
    BY <1>1, <2>3 DEF Covers, Alike
  <2> QED
    BY <2>1, <2>2, <2>4 DEF Inside, Covers
<1>5. Search(b, n, o, N) /\ Search(d, n, oid, N)
  BY ViewGetSearch
<1> HIDE DEF b, d
<1>6. CASE b = NoView
  <2>1. \A j \in 1 .. N : ~Covers(views[j], n, oid)
    BY <1>2, <1>5, <1>6 DEF Search
  <2>2. d = NoView
    BY <1>5, <2>1 DEF Search, Decides
  <2> QED
    BY <1>6, <2>2 DEF b, d
<1>7. CASE b # NoView
  <2>1. PICK k \in 1 .. N : b = views[k] /\ Decides(k, n, o, N)
    BY <1>5, <1>7 DEF Search
  <2>2. CASE ~Short(k)
    BY <1>4, <1>7, <2>1, <2>2 DEF b, Decides
  <2>3. CASE Short(k)
    <3>1. Covers(views[k], n, oid)
      BY <1>3, <2>1, <2>3 DEF Decides
    <3>2. d # NoView
      BY <1>5, <3>1 DEF Search
    <3>3. PICK l \in 1 .. N : d = views[l] /\ Decides(l, n, oid, N)
      BY <1>5, <3>2 DEF Search
    <3>4. Covers(views[l], n, o)
      BY <1>2, <3>3 DEF Decides
    <3> DEFINE Less(i, j) == OidLess(views[i].subtree, views[j].subtree)
    <3>5. IF l < k THEN Less(l, k) ELSE ~Less(k, l)
      BY <2>1, <3>4 DEF Decides
    <3>6. IF k < l THEN Less(k, l) ELSE ~Less(l, k)
      BY <3>1, <3>3 DEF Decides
    <3> HIDE DEF Less
    <3>7. k = l
      BY <3>5, <3>6
    <3> QED
      BY <2>1, <3>3, <3>7 DEF b, d
  <2> QED
    BY <2>2, <2>3
<1> QED
  BY <1>6, <1>7

\* The answer about a subtree holds inside of it.
LEMMA AnswerHolds == ViewInv => SubtreeSound
<1> SUFFICES ASSUME ViewInv, NEW n \in Views, NEW oid \in Queried, NEW o \in Below[oid]
             PROVE  /\ SubtreeCheck(n, oid) = "success" => Includes(ViewGet(n, o))
                    /\ SubtreeCheck(n, oid) = "notinview" => ~Includes(ViewGet(n, o))
  BY DEF SubtreeSound
<1> DEFINE types == {e.type : e \in Inside(n, oid)}
           all == IF Includes(ViewGet(n, oid)) THEN "included" ELSE "excluded"
           b == ViewGet(n, o)
<1>1. o \in Queried /\ IsPrefix(oid, o)
  BY DEF Below
<1>2. b = ViewGet(n, oid) \/ (b # NoView /\ b \in Inside(n, oid))
  BY <1>1, DecidedInside
<1>3. SubtreeCheck(n, oid) = IF types \ {all} # {} THEN "unknown"
                             ELSE IF all = "included" THEN "success" ELSE "notinview"
  BY DEF SubtreeCheck
<1> HIDE DEF b
<1>4. b \in Inside(n, oid) => b.type \in types
  OBVIOUS
<1> HIDE DEF types
<1>5. SubtreeCheck(n, oid) = "success" => all = "included" /\ types \subseteq {"included"}
  BY <1>3
<1>6. SubtreeCheck(n, oid) = "notinview" => all = "excluded" /\ types \subseteq {"excluded"}
  BY <1>3
<1>7. all = "included" <=> Includes(ViewGet(n, oid))
  OBVIOUS
<1> HIDE DEF all
<1>8. ASSUME SubtreeCheck(n, oid) = "success" PROVE Includes(b)
  BY <1>2, <1>4, <1>5, <1>7, <1>8 DEF Includes
<1>9. ASSUME SubtreeCheck(n, oid) = "notinview" PROVE ~Includes(b)
  <2>1. ~Includes(ViewGet(n, oid)) /\ types \subseteq {"excluded"}
    BY <1>6, <1>7, <1>9
  <2>2. CASE b = ViewGet(n, oid)
    BY <2>1, <2>2
  <2>3. CASE b \in Inside(n, oid)
    BY <1>4, <2>1, <2>3 DEF Includes
  <2> QED
    BY <1>2, <2>2, <2>3
<1> QED
  BY <1>8, <1>9 DEF b

\* Agreement in all places makes a prefix.
LEMMA PrefixOfAgreeing ==
    ASSUME NEW s \in Seq(Nat), NEW t \in Seq(Nat), Len(s) <= Len(t), \A i \in 1 .. Len(s) : s[i] = t[i]
    PROVE  IsPrefix(s, t)
<1>1. Len(s) \in Nat /\ Len(t) \in Nat /\ Len(s) <= Len(t)
  BY LenProperties
<1>2. SubSeq(s, 1, Len(s)) = SubSeq(t, 1, Len(s))
  <2>1. SubSeq(s, 1, Len(s)) = [i \in 1 .. Len(s) |-> s[i]]
    BY <1>1, SubSeqFull
  <2>2. SubSeq(t, 1, Len(s)) = [i \in 1 .. Len(s) |-> t[i]]
    BY <1>1
  <2> QED
    BY <2>1, <2>2
<1> QED
  BY <1>1, <1>2 DEF IsPrefix

\* The subtree of an entry, without masks and doubles, is decided by that entry.
LEMMA OwnSubtree ==
    ASSUME ViewInv, NEW k \in 1 .. Len(views),
           \A v \in Range(views) : v.wild = {},
           \A i, j \in DOMAIN views : i # j => <<views[i].name, views[i].subtree>> # <<views[j].name, views[j].subtree>>
    PROVE  ViewGet(views[k].name, views[k].subtree) = views[k]
<1> DEFINE n == views[k].name
           o == views[k].subtree
           b == ViewGet(n, o)
           N == Len(views)
<1>1. Search(b, n, o, N)
  BY ViewGetSearch
<1>2. /\ DOMAIN views = 1 .. N
      /\ \A i \in 1 .. N : /\ views[i] \in Range(views)
                           /\ views[i].subtree \in Seq(Nat) /\ Len(views[i].subtree) \in Nat
                           /\ DOMAIN views[i].subtree = 1 .. Len(views[i].subtree)
  BY ViewTypes
<1>3. Covers(views[k], n, o)
  BY <1>2 DEF Covers, Alike
<1> HIDE DEF b
<1>4. PICK m \in 1 .. N : b = views[m] /\ Decides(m, n, o, N)
  BY <1>1, <1>3 DEF Search
<1>5. CASE m = k
  BY <1>4, <1>5 DEF b
<1>6. CASE m # k
  <2> DEFINE u == views[m].subtree
  <2>1. /\ views[m].name = n /\ Len(u) <= Len(o) /\ Alike(views[m], o)
        /\ views[m].wild = {}
    BY <1>2, <1>4 DEF Decides, Covers
  <2>2. u # o
    BY <1>2, <1>6, <2>1
  <2>3. /\ u \in Seq(Nat) /\ Len(u) \in Nat /\ DOMAIN u = 1 .. Len(u)
        /\ o \in Seq(Nat) /\ Len(o) \in Nat /\ DOMAIN o = 1 .. Len(o)
    BY <1>2
  <2>4. Len(u) # Len(o)
    <3> SUFFICES ASSUME Len(u) = Len(o) PROVE FALSE
      OBVIOUS
    <3>1. \A i \in 1 .. Len(o) : u[i] = o[i]
      BY <2>1, <2>3 DEF Alike
    <3> HIDE DEF u, o
    <3>2. u = [i \in 1 .. Len(o) |-> u[i]] /\ o = [i \in 1 .. Len(o) |-> o[i]]
      BY <2>3
    <3> QED
      BY <2>2, <3>1, <3>2
  <2> HIDE DEF u, o
  <2>5. Len(u) < Len(o) /\ ~(Len(o) < Len(u)) /\ Len(o) # Len(u)
    <3>1. Len(u) <= Len(o)
      BY <2>1
    <3>2. Len(u) \in Nat /\ Len(o) \in Nat
      BY <2>3
    <3> QED
      BY <2>4, <3>1, <3>2
  <2>6. OidLess(u, o) /\ ~OidLess(o, u)
    BY <2>5 DEF OidLess
  <2>7. IF k < m THEN OidLess(o, u) ELSE ~OidLess(u, o)
    BY <1>3, <1>4 DEF Decides, u, o
  <2> QED
    BY <2>6, <2>7
<1> QED
  BY <1>5, <1>6

\* Without masks and doubles a subtree that is unknown has both.
LEMMA UnknownHasBoth == ViewInv => UnknownIsMixed
<1> SUFFICES ASSUME ViewInv,
                    \A v \in Range(views) : v.wild = {},
                    \A i, j \in DOMAIN views : i # j => <<views[i].name, views[i].subtree>> # <<views[j].name, views[j].subtree>>,
                    NEW n \in Views, NEW oid \in Queried, SubtreeCheck(n, oid) = "unknown"
             PROVE  {Includes(ViewGet(n, o)) : o \in Below[oid]} = BOOLEAN
  BY DEF UnknownIsMixed
<1> DEFINE all == IF Includes(ViewGet(n, oid)) THEN "included" ELSE "excluded"
<1>1. PICK e \in Inside(n, oid) : e.type # all
  <2>1. {e.type : e \in Inside(n, oid)} \ {all} # {}
    BY DEF SubtreeCheck
  <2> HIDE DEF all
  <2> QED
    BY <2>1
<1>2. PICK k \in 1 .. Len(views) : e = views[k]
  BY ViewTypes DEF Inside, Range
<1>3. e.name = n /\ Len(e.subtree) > Len(oid) /\ Alike(e, oid) /\ e.wild = {}
  BY <1>1 DEF Inside
<1>4. ViewGet(n, e.subtree) = e
  BY <1>2, <1>3, OwnSubtree
<1>5. /\ e.type \in {"included", "excluded"} /\ e # NoView
      /\ e.subtree \in Queried /\ e.subtree \in Seq(Nat)
      /\ Len(e.subtree) \in Nat /\ DOMAIN e.subtree = 1 .. Len(e.subtree)
  BY <1>2, ViewTypes
<1>6. oid \in Seq(Nat) /\ Len(oid) \in Nat /\ DOMAIN oid = 1 .. Len(oid)
  BY ViewAssumption, LenProperties
<1>7. e.subtree \in Below[oid]
  <2>1. \A i \in 1 .. Len(oid) : i \in DOMAIN oid /\ i \in DOMAIN e.subtree
    BY <1>3, <1>5, <1>6
  <2>2. \A i \in 1 .. Len(oid) : oid[i] = e.subtree[i]
    BY <1>3, <2>1 DEF Alike
  <2>3. Len(oid) <= Len(e.subtree)
    BY <1>3, <1>5, <1>6
  <2>4. IsPrefix(oid, e.subtree)
    BY <1>5, <1>6, <2>2, <2>3, PrefixOfAgreeing
  <2> QED
    BY <1>5, <2>4 DEF Below
<1>8. oid \in Below[oid]
  <2>1. IsPrefix(oid, oid)
    BY <1>6, PrefixOfAgreeing
  <2> QED
    BY <2>1 DEF Below
<1>9. Includes(ViewGet(n, e.subtree)) <=> ~Includes(ViewGet(n, oid))
  <2>1. Includes(e) <=> e.type = "included"
    BY <1>5 DEF Includes
  <2> QED
    BY <1>1, <1>4, <1>5, <2>1
<1>10. \A o : Includes(ViewGet(n, o)) \in BOOLEAN
  BY DEF Includes
<1> QED
  BY <1>7, <1>8, <1>9, <1>10

\* The list holds views, whatever is created and destroyed.
THEOREM ViewInvariance == ViewSpec => []ViewInv
<1>1. ViewInit => ViewInv
  BY DEF ViewInit, ViewInv
<1>2. ViewInv /\ [ViewNext]_views => ViewInv'
  <2> SUFFICES ASSUME ViewInv, [ViewNext]_views PROVE ViewInv'
    OBVIOUS
  <2>1. ASSUME NEW v \in View, CreateView(v) PROVE ViewInv'
    <3> DEFINE I == {i \in 1 .. Len(views) : \/ views[i].name > v.name
                                             \/ views[i].name = v.name /\ OidLess(v.subtree, views[i].subtree)}
               at == IF I = {} THEN Len(views) + 1 ELSE Min(I)
    <3>1. Len(views) \in Nat
      BY LenProperties DEF ViewInv
    <3>2. I \in SUBSET Nat
      BY <3>1
    <3>3. I # {} => Min(I) \in I
      BY <3>2, LeastOf
    <3>4. at \in 1 .. Len(views) + 1
      BY <3>1, <3>3
    <3>5. views' = InsertAt(views, at, v)
      <4>1. SelectInSeq(views, LAMBDA e : \/ e.name > v.name
                                          \/ e.name = v.name /\ OidLess(v.subtree, e.subtree))
            = IF I # {} THEN Min(I) ELSE 0
        BY DEF SelectInSeq
      <4>2. I # {} => Min(I) # 0
        BY <3>1, <3>3
      <4> HIDE DEF I
      <4> QED
        BY <2>1, <4>1, <4>2 DEF CreateView
    <3> HIDE DEF at
    <3>6. \A s \in Seq(View) : \A x \in View : \A i \in 1 .. Len(s) + 1 : InsertAt(s, i, x) \in Seq(View)
      BY InsertAtElements
    <3> QED
      BY <3>4, <3>5, <3>6 DEF ViewInv
  <2>2. ASSUME NEW n, NEW oid, DestroyView(n, oid) PROVE ViewInv'
    <3> DEFINE I == {i \in 1 .. Len(views) : views[i].name = n /\ <<Len(views[i].subtree)>> \o views[i].subtree = oid}
    <3>1. Len(views) \in Nat
      BY LenProperties DEF ViewInv
    <3>2. I \in SUBSET Nat
      BY <3>1
    <3>3. I # {} => Min(I) \in I
      BY <3>2, LeastOf
    <3>4. SelectInSeq(views, LAMBDA e : e.name = n /\ <<Len(e.subtree)>> \o e.subtree = oid)
          = IF I # {} THEN Min(I) ELSE 0
      BY DEF SelectInSeq
    <3>5. I # {} /\ views' = RemoveAt(views, Min(I))
      <4> HIDE DEF I
      <4> QED
        BY <2>2, <3>4 DEF DestroyView
    <3>6. Min(I) \in 1 .. Len(views)
      BY <3>3, <3>5
    <3> QED
      BY <3>5, <3>6, RemoveAtElements DEF ViewInv
  <2>3. CASE ClearViews
    BY <2>3 DEF ClearViews, ViewInv
  <2>4. CASE UNCHANGED views
    BY <2>4 DEF ViewInv
  <2> QED
    BY <2>1, <2>2, <2>3, <2>4 DEF ViewNext
<1> QED
  BY <1>1, <1>2, PTL DEF ViewSpec

\* What vacm_checkSubtree says of a subtree is so of everything inside it, and it says that it
\* does not know only of a subtree that has both, for all subtrees, masks and lists of views.
THEOREM SubtreeAlwaysDecided == ViewSpec => []SubtreeDecided
<1>1. ViewInv => SubtreeDecided
  BY AnswerHolds, UnknownHasBoth DEF SubtreeDecided
<1> QED
  BY <1>1, ViewInvariance, PTL


-----------------------------------------------------------------------------
(* Access entries                                                           *)

\* No entry is in front of one with a smaller index.
AccessInv == /\ access \in Seq(AccessEntry)
             /\ \A i, j \in 1 .. Len(access) : i < j => ~IndexLess(access[j], access[i])

\* What the index of an entry is, element by element.
LEMMA IndexElements ==
    ASSUME NEW e \in AccessEntry
    PROVE  /\ Len(e.context) \in Nat
           /\ \A i \in 1 .. Len(e.context) : e.context[i] \in Nat
           /\ Index(e) \in Seq(Nat) /\ DOMAIN Index(e) = 1 .. Len(e.context) + 4
           /\ Index(e)[1] = e.group /\ Index(e)[2] = Len(e.context)
           /\ \A i \in 1 .. Len(e.context) : Index(e)[i + 2] = e.context[i]
           /\ Index(e)[Len(e.context) + 3] = e.model /\ Index(e)[Len(e.context) + 4] = e.level
<1> DEFINE c == e.context
           L == Len(c)
           a == <<e.group, L>>
           b == <<e.model, e.level>>
<1>1. c \in Seq(Nat) /\ e.group \in Nat /\ e.model \in Nat /\ e.level \in Nat
  <2>1. e.context \in Context /\ e.group \in Group /\ e.model \in Model /\ e.level \in Level
    BY DEF AccessEntry
  <2> QED
    BY <2>1, AccessAssumption
<1> HIDE DEF c
<1>2. L \in Nat /\ \A i \in 1 .. L : c[i] \in Nat
  BY <1>1, LenProperties
<1> HIDE DEF L
<1>3. a \in Seq(Nat) /\ Len(a) = 2 /\ a[1] = e.group /\ a[2] = L
  BY <1>1, <1>2
<1>4. b \in Seq(Nat) /\ Len(b) = 2 /\ b[1] = e.model /\ b[2] = e.level
  BY <1>1
<1> HIDE DEF a, b
<1>0. \A s, t \in Seq(Nat) :
         /\ s \o t \in Seq(Nat) /\ Len(s \o t) = Len(s) + Len(t)
         /\ \A i \in 1 .. Len(s) + Len(t) : (s \o t)[i] = IF i <= Len(s) THEN s[i] ELSE t[i - Len(s)]
  BY ConcatProperties
<1>5. /\ a \o c \in Seq(Nat) /\ Len(a \o c) = 2 + L
      /\ \A i \in 1 .. 2 + L : (a \o c)[i] = IF i <= 2 THEN a[i] ELSE c[i - 2]
  <2>1. /\ a \o c \in Seq(Nat) /\ Len(a \o c) = Len(a) + Len(c)
        /\ \A i \in 1 .. Len(a) + Len(c) : (a \o c)[i] = IF i <= Len(a) THEN a[i] ELSE c[i - Len(a)]
    BY <1>0, <1>1, <1>3
  <2>2. Len(a) = 2 /\ Len(c) = L
    BY <1>3 DEF L
  <2> QED
    BY <2>1, <2>2
<1> DEFINE d == a \o c
<1> HIDE DEF d
<1>6. /\ d \o b \in Seq(Nat) /\ Len(d \o b) = (2 + L) + 2
      /\ \A i \in 1 .. (2 + L) + 2 : (d \o b)[i] = IF i <= 2 + L THEN d[i] ELSE b[i - (2 + L)]
  <2>1. d \in Seq(Nat) /\ Len(d) = 2 + L
    BY <1>5 DEF d
  <2>2. /\ d \o b \in Seq(Nat) /\ Len(d \o b) = Len(d) + Len(b)
        /\ \A i \in 1 .. Len(d) + Len(b) : (d \o b)[i] = IF i <= Len(d) THEN d[i] ELSE b[i - Len(d)]
    BY <1>0, <1>4, <2>1
  <2> QED
    BY <1>4, <2>1, <2>2
<1>7. Index(e) = d \o b
  BY DEF Index, a, b, c, d, L
<1> DEFINE x == Index(e)
<1> HIDE DEF x
<1>8. x \in Seq(Nat) /\ Len(x) = L + 4
      /\ \A i \in 1 .. L + 4 : x[i] = IF i <= 2 + L THEN d[i] ELSE b[i - (2 + L)]
  <2>1. (2 + L) + 2 = L + 4
    BY <1>2
  <2> QED
    BY <1>6, <1>7, <2>1 DEF x
<1>9. DOMAIN x = 1 .. L + 4
  BY <1>8
<1>10. x[1] = e.group /\ x[2] = L
  <2>1. 1 \in 1 .. L + 4 /\ 2 \in 1 .. L + 4 /\ 1 <= 2 + L /\ 2 <= 2 + L /\ 1 \in 1 .. 2 + L /\ 2 \in 1 .. 2 + L
    BY <1>2
  <2>2. d[1] = a[1] /\ d[2] = a[2]
    BY <1>5, <2>1 DEF d
  <2> QED
    BY <1>3, <1>8, <2>1, <2>2
<1>11. ASSUME NEW i \in 1 .. L PROVE x[i + 2] = c[i]
  <2>1. i + 2 \in 1 .. L + 4 /\ i + 2 <= 2 + L /\ i + 2 \in 1 .. 2 + L /\ ~(i + 2 <= 2) /\ (i + 2) - 2 = i
    BY <1>2
  <2>2. d[i + 2] = c[i]
    BY <1>5, <2>1 DEF d
  <2> QED
    BY <1>8, <2>1, <2>2
<1>12. x[L + 3] = e.model /\ x[L + 4] = e.level
  <2>1. /\ L + 3 \in 1 .. L + 4 /\ ~(L + 3 <= 2 + L) /\ (L + 3) - (2 + L) = 1
        /\ L + 4 \in 1 .. L + 4 /\ ~(L + 4 <= 2 + L) /\ (L + 4) - (2 + L) = 2
    BY <1>2
  <2> QED
    BY <1>4, <1>8, <2>1
<1> QED
  BY <1>2, <1>8, <1>9, <1>10, <1>11, <1>12 DEF x, L, c

\* The order is one way and chains.
LEMMA IndexOrder ==
    ASSUME NEW d \in AccessEntry, NEW e \in AccessEntry, NEW f \in AccessEntry
    PROVE  /\ IndexLess(d, e) => ~IndexLess(e, d)
           /\ IndexLess(d, e) /\ IndexLess(e, f) => IndexLess(d, f)
<1> DEFINE s == Index(d)
           t == Index(e)
           u == Index(f)
           At(a, b, i) == a[i] < b[i] /\ \A j \in 1 .. (i - 1) : a[j] = b[j]
           Less(a, b) == \E i \in DOMAIN a \cap DOMAIN b : At(a, b, i)
<1>1. /\ s \in Seq(Nat) /\ t \in Seq(Nat) /\ u \in Seq(Nat)
      /\ IndexLess(d, e) = Less(s, t) /\ IndexLess(e, d) = Less(t, s)
      /\ IndexLess(e, f) = Less(t, u) /\ IndexLess(d, f) = Less(s, u)
  BY IndexElements DEF IndexLess
<1> HIDE DEF s, t, u
<1>0. Len(s) \in Nat /\ Len(t) \in Nat /\ Len(u) \in Nat
  BY <1>1, LenProperties
<1>2. /\ DOMAIN s = 1 .. Len(s) /\ \A i \in DOMAIN s : s[i] \in Nat
      /\ DOMAIN t = 1 .. Len(t) /\ \A i \in DOMAIN t : t[i] \in Nat
      /\ DOMAIN u = 1 .. Len(u) /\ \A i \in DOMAIN u : u[i] \in Nat
  BY <1>1, LenProperties
<1>3. /\ DOMAIN s \subseteq Nat \ {0} /\ DOMAIN t \subseteq Nat \ {0} /\ DOMAIN u \subseteq Nat \ {0}
      /\ \A i \in DOMAIN s, j \in Nat : j \in 1 .. i => j \in DOMAIN s
      /\ \A i \in DOMAIN t, j \in Nat : j \in 1 .. i => j \in DOMAIN t
      /\ \A i \in DOMAIN u, j \in Nat : j \in 1 .. i => j \in DOMAIN u
  BY <1>0, <1>2
<1>4. ASSUME Less(s, t), Less(t, s) PROVE FALSE
  <2>1. PICK i \in DOMAIN s \cap DOMAIN t : At(s, t, i)
    BY <1>4
  <2>2. PICK k \in DOMAIN s \cap DOMAIN t : At(t, s, k)
    BY <1>4
  <2>3. i \in Nat \ {0} /\ k \in Nat \ {0} /\ s[i] \in Nat /\ t[i] \in Nat /\ s[k] \in Nat /\ t[k] \in Nat
    BY <1>2, <1>3
  <2>4. i < k => i \in 1 .. (k - 1)
    BY <2>3
  <2>5. k < i => k \in 1 .. (i - 1)
    BY <2>3
  <2>6. i < k \/ k < i \/ i = k
    BY <2>3
  <2> QED
    BY <2>1, <2>2, <2>3, <2>4, <2>5, <2>6
<1>5. ASSUME Less(s, t), Less(t, u) PROVE Less(s, u)
  <2>1. PICK i \in DOMAIN s \cap DOMAIN t : At(s, t, i)
    BY <1>5
  <2>2. PICK k \in DOMAIN t \cap DOMAIN u : At(t, u, k)
    BY <1>5
  <2>3. i \in Nat \ {0} /\ k \in Nat \ {0}
    BY <1>3
  <2>4. CASE i < k
    <3>1. i \in 1 .. (k - 1) /\ i \in 1 .. k /\ \A j \in 1 .. (i - 1) : j \in 1 .. (k - 1)
      BY <2>3, <2>4
    <3>2. i \in DOMAIN u
      BY <1>3, <2>3, <3>1
    <3>3. At(s, u, i)
      BY <2>1, <2>2, <3>1
    <3> QED
      BY <3>2, <3>3
  <2>5. CASE k < i
    <3>1. k \in 1 .. (i - 1) /\ k \in 1 .. i /\ \A j \in 1 .. (k - 1) : j \in 1 .. (i - 1)
      BY <2>3, <2>5
    <3>2. k \in DOMAIN s
      BY <1>3, <2>3, <3>1
    <3>3. At(s, u, k)
      BY <2>1, <2>2, <3>1
    <3> QED
      BY <3>2, <3>3
  <2>6. CASE i = k
    <3>1. s[i] < t[i] /\ t[i] < u[i] /\ s[i] \in Nat /\ t[i] \in Nat /\ u[i] \in Nat
      BY <1>2, <2>1, <2>2, <2>6
    <3>2. s[i] < u[i]
      BY <3>1
    <3>3. At(s, u, i)
      BY <2>1, <2>2, <2>6, <3>2
    <3> QED
      BY <2>6, <3>3
  <2> QED
    BY <2>3, <2>4, <2>5, <2>6
<1> QED
  BY <1>1, <1>4, <1>5

\* Entries of a group and a context are in order of the model and the level.
LEMMA LevelsInOrder ==
    ASSUME AccessInv, NEW i \in 1 .. Len(access), NEW j \in 1 .. Len(access), i < j,
           access[i].group = access[j].group, access[i].context = access[j].context
    PROVE  \/ access[i].model < access[j].model
           \/ access[i].model = access[j].model /\ access[i].level <= access[j].level
<1> DEFINE d == access[j]
           e == access[i]
           L == Len(d.context)
<1>1. d \in AccessEntry /\ e \in AccessEntry /\ ~IndexLess(d, e)
  BY LenProperties DEF AccessInv
<1>2. e.context = d.context /\ e.group = d.group
  OBVIOUS
<1> HIDE DEF d, e
<1>3. e.model \in Nat /\ d.model \in Nat /\ e.level \in Nat /\ d.level \in Nat
  <2>1. e.model \in Model /\ d.model \in Model /\ e.level \in Level /\ d.level \in Level
    BY <1>1 DEF AccessEntry
  <2> QED
    BY <2>1, AccessAssumption
<1>4. /\ L \in Nat /\ DOMAIN Index(d) = 1 .. L + 4 /\ DOMAIN Index(e) = 1 .. L + 4
      /\ Index(d)[1] = Index(e)[1] /\ Index(d)[2] = Index(e)[2]
      /\ \A k \in 1 .. L : Index(d)[k + 2] = Index(e)[k + 2]
      /\ Index(d)[L + 3] = d.model /\ Index(e)[L + 3] = e.model
      /\ Index(d)[L + 4] = d.level /\ Index(e)[L + 4] = e.level
  <2>1. /\ L \in Nat /\ DOMAIN Index(d) = 1 .. L + 4
        /\ Index(d)[1] = d.group /\ Index(d)[2] = L
        /\ \A k \in 1 .. L : Index(d)[k + 2] = d.context[k]
        /\ Index(d)[L + 3] = d.model /\ Index(d)[L + 4] = d.level
    BY <1>1, IndexElements
  <2>2. Len(e.context) = L
    BY <1>2
  <2>3. /\ DOMAIN Index(e) = 1 .. L + 4
        /\ Index(e)[1] = e.group /\ Index(e)[2] = L
        /\ \A k \in 1 .. L : Index(e)[k + 2] = e.context[k]
        /\ Index(e)[L + 3] = e.model /\ Index(e)[L + 4] = e.level
    <3> HIDE DEF L
    <3> QED
      BY <1>1, <2>2, IndexElements
  <2> HIDE DEF L
  <2> QED
    BY <1>2, <2>1, <2>3
<1> HIDE DEF L
<1>5. \A k \in 1 .. (L + 3) - 1 : Index(d)[k] = Index(e)[k]
  <2> SUFFICES ASSUME NEW k \in 1 .. (L + 3) - 1 PROVE Index(d)[k] = Index(e)[k]
    OBVIOUS
  <2>1. k = 1 \/ k = 2 \/ (k - 2 \in 1 .. L /\ (k - 2) + 2 = k)
    BY <1>4
  <2> QED
    BY <1>4, <2>1
<1>6. ~(d.model < e.model)
  <2>1. L + 3 \in 1 .. L + 4
    BY <1>4
  <2> QED
    BY <1>1, <1>4, <1>5, <2>1 DEF IndexLess
<1>7. d.model = e.model => ~(d.level < e.level)
  <2> SUFFICES ASSUME d.model = e.model, d.level < e.level PROVE FALSE
    OBVIOUS
  <2>1. L + 4 \in 1 .. L + 4 /\ \A k \in 1 .. (L + 4) - 1 : k \in 1 .. (L + 3) - 1 \/ k = L + 3
    BY <1>4
  <2>2. \A k \in 1 .. (L + 4) - 1 : Index(d)[k] = Index(e)[k]
    BY <1>4, <1>5, <2>1
  <2>3. IndexLess(d, e)
    BY <1>4, <2>1, <2>2 DEF IndexLess
  <2> QED
    BY <1>1, <2>3
<1> QED
  BY <1>3, <1>6, <1>7 DEF d, e

-----------------------------------------------------------------------------

\* Of the first i entries, k is the last among those of the greatest model and then level
\* that apply.
Foremost(k, r, i) == /\ k \in 1 .. i /\ Applies(access[k], r)
                     /\ \A j \in 1 .. i : Applies(access[j], r) =>
                           \/ access[j].model < access[k].model
                           \/ access[j].model = access[k].model /\ access[j].level <= access[k].level

Chosen(b, r, i) == IF b = NoAccess THEN \A j \in 1 .. i : ~Applies(access[j], r)
                   ELSE \E k \in 1 .. i : b = access[k] /\ Foremost(k, r, i)

OneContext(r) == \A d, e \in Candidates(r) : d.context = e.context /\ d.match = e.match

LEMMA AccessTypes ==
    ASSUME AccessInv
    PROVE  /\ Len(access) \in Nat /\ DOMAIN access = 1 .. Len(access)
           /\ \A i \in 1 .. Len(access) :
                 /\ access[i] \in AccessEntry /\ access[i] # NoAccess /\ access[i] \in Range(access)
                 /\ access[i].model \in Nat /\ access[i].level \in Nat
                 /\ access[i].match \in {"exact", "prefix"}
                 /\ Len(access[i].context) \in Nat
<1>1. Len(access) \in Nat /\ DOMAIN access = 1 .. Len(access) /\ \A i \in 1 .. Len(access) : access[i] \in AccessEntry
  BY LenProperties DEF AccessInv
<1>2. ASSUME NEW e \in AccessEntry
      PROVE  /\ e # NoAccess /\ e.model \in Nat /\ e.level \in Nat /\ e.match \in {"exact", "prefix"}
             /\ Len(e.context) \in Nat
  <2>1. e.model \in Model /\ e.level \in Level /\ e.match \in {"exact", "prefix"}
    BY DEF AccessEntry
  <2> QED
    BY <2>1, AccessAssumption, IndexElements
<1>3. \A i \in 1 .. Len(access) : access[i] \in Range(access)
  BY <1>1 DEF Range
<1> QED
  BY <1>1, <1>2, <1>3

\* One more entry.
LEMMA ChosenNext ==
    ASSUME AccessInv, NEW r \in Request, OneContext(r),
           NEW i \in Nat, i + 1 <= Len(access), NEW b, Chosen(b, r, i)
    PROVE  Chosen(IF Applies(access[i + 1], r) THEN ChooseBest(b, access[i + 1]) ELSE b, r, i + 1)
<1> DEFINE e == access[i + 1]
           N == Len(access)
<1>1. /\ N \in Nat /\ i + 1 \in 1 .. N /\ i + 1 \in 1 .. i + 1
      /\ \A j \in 1 .. i + 1 : j \in 1 .. i \/ j = i + 1
      /\ \A j \in 1 .. i : j \in 1 .. i + 1 /\ j < i + 1 /\ j \in 1 .. N
  <2>1. N \in Nat
    BY AccessTypes
  <2> QED
    BY <2>1
<1>2. \A j \in 1 .. N : /\ access[j] # NoAccess /\ access[j] \in Range(access)
                        /\ access[j].model \in Nat /\ access[j].level \in Nat
                        /\ access[j].match \in {"exact", "prefix"}
                        /\ Len(access[j].context) \in Nat
  BY AccessTypes
<1>3. CASE Applies(e, r) /\ b = NoAccess
  <2>1. ChooseBest(b, e) = e
    BY <1>3 DEF ChooseBest
  <2>2. \A j \in 1 .. i : ~Applies(access[j], r)
    BY <1>3 DEF Chosen
  <2>3. e.model \in Nat /\ e.level \in Nat /\ e # NoAccess
    BY <1>1, <1>2
  <2>4. e.level <= e.level
    BY <2>3
  <2>5. Foremost(i + 1, r, i + 1)
    BY <1>1, <1>3, <2>2, <2>4 DEF Foremost
  <2> QED
    BY <1>1, <1>3, <2>1, <2>3, <2>5 DEF Chosen
<1>4. CASE Applies(e, r) /\ b # NoAccess
  <2>1. PICK k \in 1 .. i : b = access[k] /\ Foremost(k, r, i)
    BY <1>4 DEF Chosen
  <2>2. Applies(access[k], r)
    BY <2>1 DEF Foremost
  <2>3. access[k].group = e.group /\ access[k].context = e.context /\ access[k].match = e.match
    <3>1. access[k] \in Candidates(r) /\ e \in Candidates(r)
      BY <1>1, <1>2, <1>4, <2>1, <2>2 DEF Candidates
    <3>2. access[k].group = r.group /\ e.group = r.group
      BY <1>4, <2>2 DEF Applies
    <3> QED
      BY <3>1, <3>2 DEF OneContext
  <2>4. \/ access[k].model < e.model
        \/ access[k].model = e.model /\ access[k].level <= e.level
    BY <1>1, <2>1, <2>3, LevelsInOrder
  <2>5. access[k].model \in {r.model, 0} /\ e.model \in {r.model, 0}
    BY <1>4, <2>2 DEF Applies
  <2> DEFINE d == access[k]
  <2>6. /\ d.model \in Nat /\ d.level \in Nat /\ d.match \in {"exact", "prefix"} /\ d # NoAccess
        /\ e.model \in Nat /\ e.level \in Nat /\ e # NoAccess
        /\ Len(d.context) \in Nat
    BY <1>1, <1>2, <2>1
  <2>7. ChooseBest(b, e) = IF (d.model = 0 /\ e.model # 0) \/ d.level < e.level THEN e ELSE d
    <3>1. ~(d.match = "prefix" /\ e.match = "exact")
      BY <2>3
    <3>2. Len(d.context) = Len(e.context) /\ ~(Len(d.context) < Len(e.context))
      BY <2>3, <2>6
    <3> QED
      BY <2>1, <2>6, <3>1, <3>2 DEF ChooseBest
  <2>8. \A j \in 1 .. i : Applies(access[j], r) =>
            \/ access[j].model < d.model
            \/ access[j].model = d.model /\ access[j].level <= d.level
    BY <2>1 DEF Foremost
  <2>9. \A j \in 1 .. i : access[j].model \in Nat /\ access[j].level \in Nat
    BY <1>1, <1>2
  <2>10. CASE (d.model = 0 /\ e.model # 0) \/ d.level < e.level
    <3>1. ASSUME NEW j \in 1 .. i, Applies(access[j], r)
          PROVE  \/ access[j].model < e.model
                 \/ access[j].model = e.model /\ access[j].level <= e.level
      <4> DEFINE a == access[j]
      <4>0. d.model < e.model \/ (d.model = e.model /\ d.level <= e.level)
        BY <2>4
      <4> HIDE DEF d, e
      <4>1. a.model < d.model \/ (a.model = d.model /\ a.level <= d.level)
        BY <2>8, <3>1
      <4>2. a.model \in Nat /\ a.level \in Nat
        BY <2>9
      <4> HIDE DEF a
      <4>3. a.model < e.model \/ (a.model = e.model /\ a.level <= e.level)
        BY <2>6, <4>0, <4>1, <4>2
      <4> QED
        BY <4>3 DEF a
    <3>2. e.level <= e.level
      BY <2>6
    <3>3. Foremost(i + 1, r, i + 1)
      BY <1>1, <1>4, <3>1, <3>2 DEF Foremost
    <3> QED
      BY <1>1, <1>4, <2>6, <2>7, <2>10, <3>3 DEF Chosen
  <2>11. CASE ~((d.model = 0 /\ e.model # 0) \/ d.level < e.level)
    <3>1. e.model = d.model /\ e.level <= d.level
      <4> HIDE DEF d, e
      <4> QED
        BY <2>4, <2>5, <2>6, <2>11 DEF d, e
    <3>2. Foremost(k, r, i + 1)
      BY <1>1, <2>1, <2>2, <2>8, <3>1 DEF Foremost
    <3> QED
      BY <1>1, <1>4, <2>1, <2>6, <2>7, <2>11, <3>2 DEF Chosen
  <2> QED
    BY <2>10, <2>11
<1>5. CASE ~Applies(e, r)
  <2>1. CASE b = NoAccess
    BY <1>1, <1>5, <2>1 DEF Chosen
  <2>2. CASE b # NoAccess
    <3>1. PICK k \in 1 .. i : b = access[k] /\ Foremost(k, r, i)
      BY <2>2 DEF Chosen
    <3>2. Foremost(k, r, i + 1)
      BY <1>1, <1>5, <3>1 DEF Foremost
    <3> QED
      BY <1>1, <1>5, <2>2, <3>1, <3>2 DEF Chosen
  <2> QED
    BY <2>1, <2>2
<1> QED
  BY <1>3, <1>4, <1>5

\* The search over the whole list.
LEMMA GetAccessChosen ==
    ASSUME AccessInv, NEW r \in Request, OneContext(r)
    PROVE  Chosen(GetAccess(r), r, Len(access))
<1> DEFINE N == Len(access)
           V == AccessEntry \cup {NoAccess}
           Then(i, b) == IF Applies(access[i], r) THEN ChooseBest(b, access[i]) ELSE b
           upto[i \in 0 .. N] ==
               IF i = 0 THEN NoAccess
               ELSE IF Applies(access[i], r) THEN ChooseBest(upto[i - 1], access[i])
               ELSE upto[i - 1]
           step == [x \in (1 .. N) \X V |-> Then(x[1], x[2])]
<1>1. N \in Nat /\ \A i \in 1 .. N : access[i] \in V
  BY AccessTypes
<1>2. PICK g \in [0 .. N -> V] : Stepwise(g, step, NoAccess, N)
  <2>1. ASSUME NEW i \in 1 .. N, NEW b \in V PROVE Then(i, b) \in V
    BY <1>1 DEF ChooseBest
  <2>2. step \in [(1 .. N) \X V -> V]
    <3> HIDE DEF Then
    <3> QED
      BY <2>1
  <2>3. NoAccess \in V
    OBVIOUS
  <2> HIDE DEF step, V
  <2> QED
    BY <1>1, <2>2, <2>3, StepwiseExists
<1>3. ASSUME NEW i \in 1 .. N PROVE g[i] = Then(i, g[i - 1])
  <2>1. g[i - 1] \in V
    BY <1>1
  <2>2. g[i] = step[<<i, g[i - 1]>>]
    BY <1>2 DEF Stepwise
  <2>3. <<i, g[i - 1]>> \in (1 .. N) \X V
    BY <2>1
  <2> HIDE DEF Then
  <2> QED
    BY <2>2, <2>3
<1>4. g[0] = NoAccess
  BY <1>2 DEF Stepwise
<1> DEFINE Eqn(f) == [i \in 0 .. N |->
               IF i = 0 THEN NoAccess
               ELSE IF Applies(access[i], r) THEN ChooseBest(f[i - 1], access[i])
               ELSE f[i - 1]]
<1>5. g = Eqn(g)
  <2>1. ASSUME NEW i \in 0 .. N PROVE g[i] = IF i = 0 THEN NoAccess ELSE Then(i, g[i - 1])
    <3>1. i = 0 \/ i \in 1 .. N
      BY <1>1
    <3> HIDE DEF Then
    <3> QED
      BY <1>3, <1>4, <3>1
  <2> QED
    BY <2>1
<1>6. upto = Eqn(upto)
  BY <1>5
<1> HIDE DEF upto
<1>7. upto[0] = NoAccess /\ \A i \in 1 .. N : upto[i] = Then(i, upto[i - 1])
  <2>1. ASSUME NEW i \in 0 .. N PROVE upto[i] = IF i = 0 THEN NoAccess ELSE Then(i, upto[i - 1])
    BY <1>6
  <2>2. 0 \in 0 .. N /\ \A i \in 1 .. N : i \in 0 .. N /\ i # 0
    BY <1>1
  <2> HIDE DEF Then
  <2> QED
    BY <2>1, <2>2
<1> DEFINE Sought == {i \in Nat : i <= N => Chosen(upto[i], r, i)}
<1>8. 0 \in Sought
  BY <1>7 DEF Chosen
<1>9. ASSUME NEW i \in Nat, i \in Sought PROVE i + 1 \in Sought
  <2> SUFFICES ASSUME i + 1 <= N PROVE Chosen(upto[i + 1], r, i + 1)
    OBVIOUS
  <2>1. i + 1 \in 1 .. N /\ (i + 1) - 1 = i /\ Chosen(upto[i], r, i)
    BY <1>1, <1>9
  <2>2. Chosen(Then(i + 1, upto[i]), r, i + 1)
    BY <2>1, ChosenNext
  <2>3. upto[i + 1] = Then(i + 1, upto[i])
    BY <1>7, <2>1
  <2> QED
    BY <2>2, <2>3
<1> HIDE DEF Sought
<1>10. N \in Sought
  BY <1>1, <1>8, <1>9, SetInduction
<1>11. GetAccess(r) = upto[N]
  BY DEF GetAccess, upto
<1> QED
  BY <1>10, <1>11 DEF Sought

\* The last of the foremost is what RFC 3415 chooses.
LEMMA ChosenRightly == AccessInv => BestOfContext
<1> SUFFICES ASSUME AccessInv, NEW r \in Request, OneContext(r)
             PROVE  LET own == {e \in Candidates(r) : e.model = r.model}
                        of  == IF own # {} THEN own ELSE Candidates(r)
                    IN  of # {} => GetAccess(r) \in of /\ \A e \in of : e.level <= GetAccess(r).level
  BY DEF BestOfContext, OneContext
<1> DEFINE own == {e \in Candidates(r) : e.model = r.model}
           of  == IF own # {} THEN own ELSE Candidates(r)
           b   == GetAccess(r)
           N   == Len(access)
<1> SUFFICES ASSUME of # {} PROVE b \in of /\ \A e \in of : e.level <= b.level
  OBVIOUS
<1>1. /\ DOMAIN access = 1 .. N
      /\ \A i \in 1 .. N : /\ access[i] # NoAccess /\ access[i] \in Range(access)
                           /\ access[i].model \in Nat /\ access[i].level \in Nat
  BY AccessTypes
<1>2. \A e : e \in Candidates(r) => \E j \in 1 .. N : e = access[j] /\ Applies(access[j], r)
  BY <1>1 DEF Candidates, Range
<1>3. \A e : e \in of => e \in Candidates(r)
  OBVIOUS
<1>4. Chosen(b, r, N)
  BY GetAccessChosen
<1> HIDE DEF b
<1>5. b # NoAccess
  <2>1. PICK e : e \in of
    OBVIOUS
  <2>2. PICK j \in 1 .. N : Applies(access[j], r)
    BY <1>2, <1>3, <2>1
  <2> QED
    BY <1>4, <2>2 DEF Chosen
<1>6. PICK k \in 1 .. N : b = access[k] /\ Foremost(k, r, N)
  BY <1>4, <1>5 DEF Chosen
<1>7. b \in Candidates(r) /\ b.model \in {r.model, 0} /\ b.model \in Nat /\ b.level \in Nat
  BY <1>1, <1>6 DEF Candidates, Foremost, Applies
<1>8. ASSUME NEW e \in Candidates(r)
      PROVE  /\ e.model < b.model \/ (e.model = b.model /\ e.level <= b.level)
             /\ e.model \in Nat /\ e.level \in Nat /\ e.model \in {r.model, 0}
  <2>1. PICK j \in 1 .. N : e = access[j] /\ Applies(access[j], r)
    BY <1>2
  <2>2. e.model \in Nat /\ e.level \in Nat
    BY <1>1, <2>1
  <2>3. e.model \in {r.model, 0}
    BY <2>1 DEF Applies
  <2> QED
    BY <1>6, <2>1, <2>2, <2>3 DEF Foremost
<1>9. r.model \in Nat /\ r.model # 0
  <2>1. r.model \in Model \ {0}
    BY DEF Request
  <2> QED
    BY <2>1, AccessAssumption
<1>10. CASE own # {}
  <2>1. PICK e \in Candidates(r) : e.model = r.model
    BY <1>10
  <2>2. b.model = r.model
    BY <1>7, <1>8, <1>9, <2>1
  <2>3. ASSUME NEW f \in own PROVE f.level <= b.level
    <3>1. f \in Candidates(r) /\ f.model = b.model
      BY <2>2
    <3>2. f.model < b.model \/ f.level <= b.level
      BY <1>8, <3>1
    <3> QED
      BY <1>7, <3>1, <3>2
  <2> QED
    BY <1>7, <1>10, <2>2, <2>3
<1>11. CASE own = {}
  <2>1. \A e \in Candidates(r) : e.model = 0
    BY <1>8, <1>11
  <2>2. ASSUME NEW f \in Candidates(r) PROVE f.level <= b.level
    BY <1>7, <1>8, <2>1
  <2> QED
    BY <1>7, <1>11, <2>2
<1> QED
  BY <1>10, <1>11

LEMMA AccessStarts == AccessInit => AccessInv
BY DEF AccessInit, AccessInv

\* A new entry goes where the order is kept.
LEMMA CreateStep ==
    ASSUME AccessInv, NEW e \in AccessEntry, CreateAccess(e)
    PROVE  AccessInv'
<1> DEFINE N == Len(access)
           I == {i \in 1 .. N : IndexLess(e, access[i])}
           at == IF I = {} THEN N + 1 ELSE Min(I)
           t == InsertAt(access, at, e)
<1>1. N \in Nat /\ \A i \in 1 .. N : access[i] \in AccessEntry
  BY AccessTypes
<1>2. I \in SUBSET Nat
  BY <1>1
<1>3. I # {} => Min(I) \in I /\ \A i \in I : Min(I) <= i
  BY <1>2, LeastOf
<1>4. access' = t
  <2>1. SelectInSeq(access, LAMBDA d : IndexLess(e, d)) = IF I # {} THEN Min(I) ELSE 0
    BY DEF SelectInSeq
  <2>2. I # {} => Min(I) # 0
    BY <1>1, <1>3
  <2> HIDE DEF I
  <2> QED
    BY <2>1, <2>2 DEF CreateAccess
<1>5. /\ at \in 1 .. N + 1
      /\ \A i \in 1 .. N : i < at => ~IndexLess(e, access[i])
      /\ at \in 1 .. N => IndexLess(e, access[at])
  <2>1. CASE I = {}
    <3>1. at = N + 1 /\ at \notin 1 .. N
      BY <1>1, <2>1
    <3>2. \A i \in 1 .. N : ~IndexLess(e, access[i])
      BY <2>1
    <3> QED
      BY <1>1, <3>1, <3>2
  <2>2. CASE I # {}
    <3>1. at \in I /\ \A i \in I : at <= i
      <4> HIDE DEF I
      <4> QED
        BY <1>3, <2>2
    <3>2. at \in 1 .. N /\ IndexLess(e, access[at])
      BY <3>1
    <3> HIDE DEF at
    <3>3. ASSUME NEW i \in 1 .. N, i < at PROVE ~IndexLess(e, access[i])
      <4>1. ~(at <= i)
        BY <1>1, <3>2, <3>3
      <4> QED
        BY <3>1, <4>1
    <3>4. at \in 1 .. N + 1
      BY <1>1, <3>2
    <3> QED
      BY <3>2, <3>3, <3>4
  <2> QED
    BY <2>1, <2>2
<1> HIDE DEF at
<1>6. /\ t \in Seq(AccessEntry) /\ Len(t) = N + 1
      /\ \A j \in 1 .. N + 1 : t[j] = IF j < at THEN access[j] ELSE IF j = at THEN e ELSE access[j - 1]
  <2> DEFINE S == AccessEntry
  <2>1. access \in Seq(S) /\ e \in S
    BY DEF AccessInv
  <2> HIDE DEF S
  <2>2. at \in 1 .. Len(access) + 1
    BY <1>5
  <2>3. /\ InsertAt(access, at, e) \in Seq(S) /\ Len(InsertAt(access, at, e)) = Len(access) + 1
        /\ \A j \in 1 .. Len(access) + 1 : InsertAt(access, at, e)[j] =
              IF j < at THEN access[j] ELSE IF j = at THEN e ELSE access[j - 1]
    <3> HIDE DEF N
    <3>1. \A s \in Seq(S) : \A x \in S : \A i \in 1 .. Len(s) + 1 :
             /\ InsertAt(s, i, x) \in Seq(S)
             /\ Len(InsertAt(s, i, x)) = Len(s) + 1
             /\ \A j \in 1 .. Len(s) + 1 :
                  InsertAt(s, i, x)[j] = IF j < i THEN s[j] ELSE IF j = i THEN x ELSE s[j - 1]
      BY ONLY InsertAtElements
    <3> QED
      BY <2>1, <2>2, <3>1
  <2> QED
    BY <2>3 DEF S
<1> HIDE DEF t
<1>7. \A i, j \in 1 .. N : i < j => ~IndexLess(access[j], access[i])
  BY DEF AccessInv
<1>8. \A d, f \in AccessEntry : /\ IndexLess(d, e) => ~IndexLess(e, d)
                                /\ IndexLess(e, d) /\ IndexLess(d, f) => IndexLess(e, f)
                                /\ IndexLess(d, e) /\ IndexLess(e, f) => IndexLess(d, f)
  BY IndexOrder
<1>9. ASSUME NEW i \in 1 .. N + 1, NEW j \in 1 .. N + 1, i < j PROVE ~IndexLess(t[j], t[i])
  <2>1. CASE j < at
    <3>1. i \in 1 .. N /\ j \in 1 .. N /\ i < at /\ t[i] = access[i] /\ t[j] = access[j]
      BY <1>1, <1>5, <1>6, <1>9, <2>1
    <3> QED
      BY <1>7, <1>9, <3>1
  <2>2. CASE j = at
    <3>1. i \in 1 .. N /\ i < at /\ t[i] = access[i] /\ t[j] = e
      BY <1>1, <1>5, <1>6, <1>9, <2>2
    <3> QED
      BY <1>5, <3>1
  <2>3. CASE at < j
    <3>1. /\ at \in 1 .. N /\ j - 1 \in 1 .. N /\ at <= j - 1
      BY <1>1, <1>5, <1>6, <2>3
    <3>2. t[j] = access[j - 1]
      BY <1>1, <1>5, <1>6, <2>3
    <3>3. CASE i < at
      <4>1. i \in 1 .. N /\ i < j - 1 /\ t[i] = access[i]
        BY <1>1, <1>5, <1>6, <1>9, <3>1, <3>3
      <4> QED
        BY <1>7, <3>1, <3>2, <4>1
    <3>4. CASE i = at
      <4>1. t[i] = e
        BY <1>6, <3>4
      <4>2. ~IndexLess(access[j - 1], e)
        <5> SUFFICES ASSUME IndexLess(access[j - 1], e) PROVE FALSE
          OBVIOUS
        <5>1. IndexLess(e, access[at])
          BY <1>5, <3>1
        <5>2. IndexLess(access[j - 1], access[at])
          BY <1>1, <1>8, <3>1, <5>1
        <5>3. j - 1 = at \/ at < j - 1
          BY <1>1, <3>1
        <5>4. CASE j - 1 = at
          BY <1>1, <1>8, <3>1, <5>1, <5>4
        <5>5. CASE at < j - 1
          BY <1>7, <3>1, <5>2, <5>5
        <5> QED
          BY <5>3, <5>4, <5>5
      <4> QED
        BY <3>2, <4>1, <4>2
    <3>5. CASE at < i
      <4>1. i - 1 \in 1 .. N /\ i - 1 < j - 1
        BY <1>1, <1>5, <1>9, <3>5
      <4>2. t[i] = access[i - 1]
        BY <1>5, <1>6, <3>5
      <4> QED
        BY <1>7, <3>1, <3>2, <4>1, <4>2
    <3> QED
      BY <1>5, <3>3, <3>4, <3>5
  <2> QED
    BY <1>5, <2>1, <2>2, <2>3
<1> QED
  BY <1>4, <1>6, <1>9 DEF AccessInv

\* An entry that goes leaves the others in order.
LEMMA DestroyStep ==
    ASSUME AccessInv, NEW e, DestroyAccess(e)
    PROVE  AccessInv'
<1> DEFINE N == Len(access)
           I == {i \in 1 .. N : Index(access[i]) = Index(e)}
           m == Min(I)
           t == RemoveAt(access, m)
<1>1. N \in Nat
  BY AccessTypes
<1>2. I \in SUBSET Nat
  BY <1>1
<1>3. SelectInSeq(access, LAMBDA d : Index(d) = Index(e)) = IF I # {} THEN Min(I) ELSE 0
  BY DEF SelectInSeq
<1>4. I # {} /\ access' = t
  <2> HIDE DEF I
  <2> QED
    BY <1>3 DEF DestroyAccess
<1>5. m \in 1 .. N
  <2>1. m \in I
    <3> HIDE DEF I
    <3> QED
      BY <1>2, <1>4, LeastOf
  <2> QED
    BY <2>1
<1> HIDE DEF m
<1>6. /\ t \in Seq(AccessEntry) /\ Len(t) = N - 1
      /\ \A j \in 1 .. N - 1 : t[j] = IF j < m THEN access[j] ELSE access[j + 1]
  BY <1>5, RemoveAtElements DEF AccessInv
<1> HIDE DEF t
<1>7. ASSUME NEW i \in 1 .. N - 1, NEW j \in 1 .. N - 1, i < j PROVE ~IndexLess(t[j], t[i])
  <2> DEFINE a == IF i < m THEN i ELSE i + 1
             b == IF j < m THEN j ELSE j + 1
  <2>1. a \in 1 .. N /\ b \in 1 .. N /\ a < b
    BY <1>1, <1>5, <1>7
  <2>2. t[i] = access[a] /\ t[j] = access[b]
    BY <1>6
  <2> HIDE DEF a, b
  <2> QED
    BY <2>1, <2>2 DEF AccessInv
<1> QED
  BY <1>4, <1>6, <1>7 DEF AccessInv

\* The list stays in order of the index.
THEOREM AccessInvariance == AccessSpec => []AccessInv
<1>1. AccessInit => AccessInv
  BY AccessStarts
<1>2. AccessInv /\ [AccessNext]_access => AccessInv'
  <2> SUFFICES ASSUME AccessInv, [AccessNext]_access PROVE AccessInv'
    OBVIOUS
  <2>1. CASE DestroyAll
    BY <2>1 DEF DestroyAll, AccessInv
  <2>2. CASE UNCHANGED access
    BY <2>2 DEF AccessInv
  <2> QED
    BY <2>1, <2>2, CreateStep, DestroyStep DEF AccessNext
<1> QED
  BY <1>1, <1>2, PTL DEF AccessSpec

\* The entry that vacm_getAccessEntry chooses among those of one context is that of RFC 3415,
\* however many entries there are: the order in which they were created does not matter.
THEOREM BestAlwaysChosen == AccessSpec => []BestOfContext
BY AccessInvariance, ChosenRightly, PTL


-----------------------------------------------------------------------------
(* Log handlers                                                             *)

\* Entry i of a list, or the end.
Nth(c, i) == IF i \in 1 .. Len(c) THEN c[i] ELSE Null

\* The types of what is not told by the list.
LogTyped == /\ next \in [Handler -> Handler \cup {Null}]
            /\ prev \in [Handler -> Handler \cup {Null}]
            /\ priority \in [Handler -> Priorities]
            /\ logh_priorities \in [Priorities -> Handler \cup {Null}]
            /\ live \subseteq Handler
            /\ \A h \in Handler \ live : next[h] = Null /\ prev[h] = Null

\* Nothing that was freed is counted.
Counted == enabled \subseteq live /\ logh_enabled = Cardinality(enabled)

\* The list is c, in order of priority.  Not every handler knows what is in front of it.
HandlersAre(c) == /\ c \in Seq(Handler) /\ IsInjective(c)
                  /\ logh_head = Nth(c, 1)
                  /\ \A i \in 1 .. Len(c) : /\ next[c[i]] = Nth(c, i + 1)
                                            /\ prev[c[i]] \in {Null, Nth(c, i - 1)}
                  /\ \A i, j \in 1 .. Len(c) : i <= j => priority[c[i]] <= priority[c[j]]

\* Messages go to handlers of R, those that the list has lost among them, by increasing priority.
Reached(R) ==
    /\ R \subseteq live
    /\ \A k \in R : /\ next[k] \in R \cup {Null}
                    /\ next[k] # Null => priority[k] <= priority[next[k]]
    /\ \A p \in Priorities : logh_priorities[p] # Null =>
           logh_priorities[p] \in R /\ p <= priority[logh_priorities[p]]

\* The index leads to whom a message is for, or in front of it.
IndexFinds(c) == \A p \in Priorities, j \in 1 .. Len(c) :
    p <= priority[c[j]] => \E l \in 1 .. j : logh_priorities[p] = c[l]

LogIs(c, R) == /\ HandlersAre(c) /\ Reached(R) /\ Range(c) \subseteq R
               /\ removing = "no" /\ live = Range(c) => IndexFinds(c)
               /\ removing # "no" => enabled \cap Range(c) = {}

LogInv == LogTyped /\ Counted /\ \E c \in Seq(Handler), R \in SUBSET Handler : LogIs(c, R)

\* A list has room in Chain's walk.
LEMMA HandlersFit ==
    ASSUME NEW c \in Seq(Handler), IsInjective(c)
    PROVE  Cardinality(Handler) \in Nat /\ Len(c) \in Nat /\ Len(c) <= Cardinality(Handler) + 1
<1>1. IsFiniteSet(Handler)
  BY LogAssumption
<1>2. Range(c) \subseteq Handler
  BY LenProperties DEF Range
<1>3. Cardinality(Range(c)) <= Cardinality(Handler) /\ Cardinality(Handler) \in Nat
  BY <1>1, <1>2, FS_Subset, FS_CardinalityType
<1>4. Cardinality(Range(c)) = Len(c)
  BY InjectiveCount
<1>5. Len(c) \in Nat
  BY LenProperties
<1> QED
  BY <1>3, <1>4, <1>5

\* Chain is the walk that the library of lists knows.
LEMMA ChainWalks ==
    ASSUME NEW h
    PROVE  Chain(h) = Walked(next, h, Null, Cardinality(Handler))
BY DEF Chain, Walked

\* From handler l on, Chain finds the rest of the list.
LEMMA ChainIs ==
    ASSUME NEW c, HandlersAre(c), NEW l \in 1 .. Len(c) + 1
    PROVE  /\ Chain(Nth(c, l)) \in Seq(Handler)
           /\ Len(Chain(Nth(c, l))) = Len(c) - l + 1
           /\ \A i \in 1 .. Len(c) - l + 1 : Chain(Nth(c, l))[i] = c[l + i - 1]
<1> DEFINE L == Len(c)
           m == L - l + 1
           d == [i \in 1 .. m |-> c[l + i - 1]]
<1>1. c \in Seq(Handler) /\ L \in Nat /\ DOMAIN c = 1 .. L /\ \A i \in 1 .. L : c[i] \in Handler
  BY LenProperties DEF HandlersAre
<1>2. Cardinality(Handler) \in Nat /\ L <= Cardinality(Handler) + 1
  BY <1>1, HandlersFit DEF HandlersAre
<1>3. m \in Nat /\ m <= L /\ \A i \in 1 .. m : l + i - 1 \in 1 .. L
  BY <1>1
<1>4. d \in Seq(Handler) /\ Len(d) = m
  <2>1. d \in [1 .. m -> Handler]
    BY <1>1, <1>3
  <2> HIDE DEF d, m
  <2> QED
    BY <1>3, <2>1
<1>5. \A i \in 1 .. m : d[i] = c[l + i - 1]
  OBVIOUS
<1> HIDE DEF d
<1>6. \A i \in 1 .. Len(d) : next[d[i]] = IF i < Len(d) THEN d[i + 1] ELSE Null
  <2> SUFFICES ASSUME NEW i \in 1 .. m PROVE next[d[i]] = IF i < m THEN d[i + 1] ELSE Null
    BY <1>4
  <2>1. d[i] = c[l + i - 1] /\ l + i - 1 \in 1 .. L /\ (l + i - 1) + 1 = l + i
    BY <1>3, <1>5
  <2>2. next[d[i]] = Nth(c, l + i)
    BY <2>1 DEF HandlersAre
  <2>3. CASE i < m
    <3>1. i + 1 \in 1 .. m /\ l + (i + 1) - 1 = l + i /\ l + i \in 1 .. L
      BY <1>1, <1>3, <2>3
    <3>2. d[i + 1] = c[l + i]
      BY <1>5, <3>1
    <3> QED
      BY <2>2, <2>3, <3>1, <3>2 DEF Nth
  <2>4. CASE ~(i < m)
    <3>1. l + i \notin 1 .. L
      BY <1>1, <1>3, <2>4
    <3> QED
      BY <2>2, <2>4, <3>1 DEF Nth
  <2> QED
    BY <2>3, <2>4
<1>7. Nth(c, l) = IF Len(d) = 0 THEN Null ELSE d[1]
  <2>1. CASE l = L + 1
    <3>1. Len(d) = 0 /\ l \notin 1 .. L
      BY <1>1, <1>4, <2>1
    <3> QED
      BY <3>1 DEF Nth
  <2>2. CASE l # L + 1
    <3>1. Len(d) # 0 /\ l \in 1 .. L /\ 1 \in 1 .. m /\ l + 1 - 1 = l
      BY <1>1, <1>4, <2>2
    <3>2. d[1] = c[l]
      BY <1>5, <3>1
    <3> QED
      BY <3>1, <3>2 DEF Nth
  <2> QED
    BY <2>1, <2>2
<1>8. Len(d) <= Cardinality(Handler) + 1
  BY <1>2, <1>3, <1>4
<1>9. Chain(Nth(c, l)) = d
  <2>1. Null \notin Handler
    BY LogAssumption
  <2> DEFINE N == Cardinality(Handler)
  <2> HIDE DEF N, m, L
  <2>2. Walked(next, IF Len(d) = 0 THEN Null ELSE d[1], Null, N) = d
    <3>1. N \in Nat /\ Len(d) <= N + 1 /\ d \in Seq(Handler)
      BY <1>2, <1>4, <1>8 DEF N
    <3> QED
      BY ONLY <1>6, <2>1, <3>1, WalkIs
  <2> QED
    BY <1>7, <2>2, ChainWalks DEF N
<1> QED
  BY <1>4, <1>5, <1>9

\* The whole list.
LEMMA ListIsChain ==
    ASSUME NEW c, HandlersAre(c)
    PROVE  Chain(logh_head) = c /\ HandlersListed = Range(c)
<1> DEFINE d == Chain(logh_head)
           L == Len(c)
<1>1. c \in Seq(Handler) /\ L \in Nat /\ DOMAIN c = 1 .. L
  BY LenProperties DEF HandlersAre
<1>2. 1 \in 1 .. L + 1 /\ L - 1 + 1 = L /\ \A i \in 1 .. L : 1 + i - 1 = i
  BY <1>1
<1>3. logh_head = Nth(c, 1)
  BY DEF HandlersAre
<1>4. d \in Seq(Handler) /\ Len(d) = L /\ \A i \in 1 .. L : d[i] = c[i]
  <2>1. /\ Chain(Nth(c, 1)) \in Seq(Handler)
        /\ Len(Chain(Nth(c, 1))) = Len(c) - 1 + 1
        /\ \A i \in 1 .. Len(c) - 1 + 1 : Chain(Nth(c, 1))[i] = c[1 + i - 1]
    BY <1>2, ChainIs
  <2> QED
    BY <1>2, <1>3, <2>1
<1> HIDE DEF d
<1>5. d = c
  <2>1. d = [i \in 1 .. L |-> d[i]] /\ c = [i \in 1 .. L |-> c[i]]
    BY <1>1, <1>4
  <2> QED
    BY <1>4, <2>1
<1>6. ToSet(c) = Range(c)
  BY DEF ToSet, Range
<1> QED
  BY <1>5, <1>6 DEF d, HandlersListed

\* Where Chain can get to from a handler of priority q or less urgent.
LEMMA ChainReaches ==
    ASSUME LogTyped, NEW R, Reached(R), NEW h \in R \cup {Null}, NEW q \in Priorities,
           h # Null => q <= priority[h]
    PROVE  /\ Chain(h) \in Seq({k \in R : q <= priority[k]})
           /\ \A i \in 1 .. Len(Chain(h)) - 1 : priority[Chain(h)[i]] <= priority[Chain(h)[i + 1]]
<1> DEFINE S == {k \in R : q <= priority[k]}
           N == Cardinality(Handler)
           w == Walked(next, h, Null, N)
<1>1. N \in Nat
  BY LogAssumption, FS_CardinalityType
<1>2. R \subseteq Handler /\ Null \notin R /\ \A k \in Handler : priority[k] \in Nat
  BY LogAssumption DEF LogTyped, Reached, Priorities
<1>3. Null \notin S /\ h \in S \cup {Null}
  BY <1>2
<1>4. \A k \in S : next[k] \in S \cup {Null}
  <2> SUFFICES ASSUME NEW k \in S, next[k] # Null PROVE next[k] \in S
    OBVIOUS
  <2>1. next[k] \in R /\ priority[k] <= priority[next[k]]
    BY DEF Reached
  <2>2. priority[k] \in Nat /\ priority[next[k]] \in Nat /\ q \in Nat
    BY <1>2, <2>1, LogAssumption DEF Priorities
  <2> QED
    BY <2>1, <2>2
<1> HIDE DEF S, N
<1>5. w \in Seq(S) /\ WalksTo(w, next, h, Null, N + 1)
  BY <1>1, <1>3, <1>4, WalkFinds
<1> HIDE DEF w
<1>6. \A i \in 1 .. Len(w) - 1 : priority[w[i]] <= priority[w[i + 1]]
  <2> SUFFICES ASSUME NEW i \in 1 .. Len(w) - 1 PROVE priority[w[i]] <= priority[w[i + 1]]
    OBVIOUS
  <2>1. Len(w) \in Nat /\ i \in 1 .. Len(w) /\ i + 1 \in 1 .. Len(w)
    BY <1>5, LenProperties
  <2>2. w[i] \in S /\ w[i + 1] \in S
    BY <1>5, <2>1, LenProperties
  <2>3. w[i + 1] = next[w[i]] /\ w[i + 1] # Null
    BY <1>3, <1>5, <2>2 DEF WalksTo
  <2> QED
    BY <2>2, <2>3 DEF S, Reached
<1>7. Chain(h) = w
  BY ChainWalks DEF w, N
<1> QED
  BY <1>5, <1>6, <1>7 DEF S

-----------------------------------------------------------------------------
(* What the invariant says                                                  *)

LEMMA SoundByInvariant == LogInv => HandlersSound
<1> SUFFICES ASSUME LogInv PROVE HandlersSound
  OBVIOUS
<1>1. PICK c \in Seq(Handler), R \in SUBSET Handler : LogIs(c, R)
  BY DEF LogInv
<1>2. LogTyped /\ HandlersAre(c) /\ Reached(R) /\ Range(c) \subseteq R /\ R \subseteq live
  BY <1>1 DEF LogInv, LogIs, Reached
<1>3. Len(c) \in Nat /\ DOMAIN c = 1 .. Len(c) /\ \A i \in 1 .. Len(c) : c[i] \in Range(c)
  BY LenProperties DEF Range
<1>4. logh_head \in R \cup {Null}
  BY <1>2, <1>3 DEF HandlersAre, Nth
<1>5. \A p \in Priorities : logh_priorities[p] \in R \cup {Null}
  BY <1>2 DEF Reached
<1>6. \A k \in R : priority[k] \in Nat
  BY <1>2, LogAssumption DEF LogTyped, Priorities
<1>7. 0 \in Priorities
  BY LogAssumption DEF Priorities
<1>8. ReachesLive
  <2> SUFFICES ASSUME NEW h \in R \cup {Null} PROVE ToSet(Chain(h)) \subseteq live
    BY <1>4, <1>5 DEF ReachesLive
  <2>1. Chain(h) \in Seq({k \in R : 0 <= priority[k]})
    <3>1. h # Null => 0 <= priority[h]
      BY <1>6
    <3> QED
      BY <1>2, <1>7, <3>1, ChainReaches
  <2>2. ToSet(Chain(h)) \subseteq R
    BY <2>1, LenProperties DEF ToSet
  <2> QED
    BY <1>2, <2>2
<1>9. OnlyAddressed
  <2> SUFFICES ASSUME NEW p \in Priorities
               PROVE  LET w == Chain(logh_priorities[p])
                      IN  \A i \in DOMAIN w : /\ p <= priority[w[i]]
                                              /\ i > 1 => priority[w[i - 1]] <= priority[w[i]]
    BY DEF OnlyAddressed
  <2> DEFINE w == Chain(logh_priorities[p])
  <2>1. /\ w \in Seq({k \in R : p <= priority[k]})
        /\ \A i \in 1 .. Len(w) - 1 : priority[w[i]] <= priority[w[i + 1]]
    <3>1. logh_priorities[p] # Null => p <= priority[logh_priorities[p]]
      BY <1>2 DEF Reached
    <3> QED
      BY <1>2, <1>5, <3>1, ChainReaches
  <2> HIDE DEF w
  <2>2. DOMAIN w = 1 .. Len(w) /\ Len(w) \in Nat /\ \A i \in 1 .. Len(w) : w[i] \in {k \in R : p <= priority[k]}
    BY <2>1, LenProperties
  <2>3. ASSUME NEW i \in 1 .. Len(w), i > 1 PROVE priority[w[i - 1]] <= priority[w[i]]
    <3>1. i - 1 \in 1 .. Len(w) - 1 /\ (i - 1) + 1 = i
      BY <2>2, <2>3
    <3> QED
      BY <2>1, <3>1
  <2>4. \A i \in DOMAIN w : /\ p <= priority[w[i]]
                            /\ i > 1 => priority[w[i - 1]] <= priority[w[i]]
    BY <2>2, <2>3
  <2> QED
    BY <2>4 DEF w
<1>10. AllAddressed
  <2> SUFFICES ASSUME live = HandlersListed, removing = "no",
                      NEW p \in Priorities, NEW h \in live, priority[h] >= p
               PROVE  h \in ToSet(Chain(logh_priorities[p]))
    BY DEF AllAddressed
  <2>1. live = Range(c) /\ IndexFinds(c)
    BY <1>1, <1>2, ListIsChain DEF LogIs
  <2>2. PICK j \in 1 .. Len(c) : h = c[j]
    BY <1>3, <2>1 DEF Range
  <2>3. PICK l \in 1 .. j : logh_priorities[p] = c[l]
    <3>1. p \in Nat /\ priority[h] \in Nat
      BY <1>2, <1>6, LogAssumption, <2>1 DEF Priorities
    <3>2. p <= priority[c[j]]
      BY <2>2, <3>1
    <3> QED
      BY <2>1, <3>2 DEF IndexFinds
  <2>4. l \in 1 .. Len(c) /\ l \in 1 .. Len(c) + 1 /\ j - l + 1 \in 1 .. Len(c) - l + 1 /\ l + (j - l + 1) - 1 = j
    BY <1>3
  <2> DEFINE w == Chain(Nth(c, l))
             i == j - l + 1
  <2>5. w \in Seq(Handler) /\ Len(w) = Len(c) - l + 1 /\ w[i] = c[j]
    BY <1>2, <2>4, ChainIs
  <2>6. Nth(c, l) = logh_priorities[p]
    BY <2>3, <2>4 DEF Nth
  <2> HIDE DEF w
  <2>7. i \in DOMAIN w
    BY <2>4, <2>5, LenProperties
  <2>8. c[j] \in ToSet(w)
    BY <2>5, <2>7 DEF ToSet
  <2> QED
    BY <2>2, <2>6, <2>8 DEF w
<1>11. CountsAllocated
  <2>1. Counted
    BY DEF LogInv
  <2>2. enabled \cap live = enabled
    BY <2>1 DEF Counted
  <2> QED
    BY <2>1, <2>2 DEF Counted, CountsAllocated
<1> QED
  BY <1>8, <1>9, <1>10, <1>11 DEF HandlersSound

-----------------------------------------------------------------------------
(* Registering                                                              *)

\* Position i parts the more urgent handlers from the others.
Parts(c, i, p) == /\ i \in 1 .. Len(c) + 1
                  /\ \A j \in 1 .. Len(c) : /\ j < i => priority[c[j]] < p
                                            /\ i <= j => p <= priority[c[j]]

LEMMA FollowingParts ==
    ASSUME LogTyped, NEW c, HandlersAre(c), NEW p \in Priorities
    PROVE  \E i \in 1 .. Len(c) + 1 : Parts(c, i, p) /\ Following(p) = Nth(c, i)
<1> DEFINE L == Len(c)
           I == {i \in 1 .. L : priority[c[i]] >= p}
           f == SelectInSeq(c, LAMBDA h : priority[h] >= p)
<1>1. L \in Nat /\ \A j \in 1 .. L : c[j] \in Handler /\ priority[c[j]] \in Nat
  <2>1. c \in Seq(Handler)
    BY DEF HandlersAre
  <2>2. L \in Nat /\ \A j \in 1 .. L : c[j] \in Handler
    BY <2>1, LenProperties
  <2> QED
    BY <2>2, LogAssumption DEF LogTyped, Priorities
<1>2. p \in Nat
  BY LogAssumption DEF Priorities
<1>3. \A h \in Handler : h # Null
  BY LogAssumption
<1>4. Following(p) = IF f = 0 THEN Null ELSE c[f]
  BY ListIsChain DEF Following
<1>5. f = IF I # {} THEN Min(I) ELSE 0
  BY DEF SelectInSeq
<1> HIDE DEF f
<1>6. \A i, j \in 1 .. L : i <= j => priority[c[i]] <= priority[c[j]]
  BY DEF HandlersAre
<1>7. CASE I = {}
  <2>1. Following(p) = Null
    BY <1>4, <1>5, <1>7
  <2>2. L + 1 \notin 1 .. L /\ L + 1 \in 1 .. L + 1
    BY <1>1
  <2>3. ASSUME NEW j \in 1 .. L PROVE priority[c[j]] < p /\ ~(L + 1 <= j)
    <3>1. ~(priority[c[j]] >= p)
      BY <1>7
    <3> QED
      BY <1>1, <1>2, <3>1
  <2> HIDE DEF L, I
  <2>4. Parts(c, L + 1, p)
    BY <2>2, <2>3 DEF Parts, L
  <2>5. Nth(c, L + 1) = Null
    BY <2>2 DEF Nth, L
  <2> QED
    BY <2>1, <2>2, <2>4, <2>5 DEF L
<1>8. CASE I # {}
  <2>1. I \in SUBSET Nat
    OBVIOUS
  <2> DEFINE i == Min(I)
  <2>2. i \in I /\ \A j \in I : i <= j
    <3> HIDE DEF I
    <3> QED
      BY <1>8, <2>1, LeastOf
  <2> HIDE DEF i
  <2>3. i \in 1 .. L /\ priority[c[i]] >= p
    BY <2>2
  <2>4. ASSUME NEW j \in 1 .. L PROVE (j < i => priority[c[j]] < p) /\ (i <= j => p <= priority[c[j]])
    <3>1. ASSUME j < i PROVE priority[c[j]] < p
      <4>1. j \notin I
        <5> HIDE DEF I
        <5> QED
          BY <2>2, <2>3, <3>1
      <4> QED
        BY <1>1, <1>2, <4>1
    <3>2. ASSUME i <= j PROVE p <= priority[c[j]]
      <4>1. priority[c[i]] <= priority[c[j]]
        BY <1>6, <2>3, <3>2
      <4> QED
        BY <1>1, <1>2, <2>3, <4>1
    <3> QED
      BY <3>1, <3>2
  <2>5. i \in 1 .. L + 1 /\ i # 0
    BY <1>1, <2>3
  <2>6. Following(p) = c[i]
    <3>1. f = i
      BY <1>5, <1>8 DEF i
    <3> QED
      BY <1>4, <2>5, <3>1
  <2> HIDE DEF L, I
  <2>7. Parts(c, i, p)
    BY <2>4, <2>5 DEF Parts, L
  <2>8. Nth(c, i) = c[i]
    BY <2>3 DEF Nth, L
  <2> QED
    BY <2>5, <2>6, <2>7, <2>8 DEF L
<1> QED
  BY <1>7, <1>8

\* The list after a handler was put at i, and what is in front of i knows it.
LEMMA LinkedAt ==
    ASSUME LogTyped, NEW c, HandlersAre(c), Range(c) \subseteq live,
           NEW h \in Handler \ live, NEW p \in Priorities, NEW i, Parts(c, i, p),
           priority' = [priority EXCEPT ![h] = p],
           next' = [k \in Handler |-> IF k = h THEN Nth(c, i)
                                      ELSE IF i > 1 /\ k = Nth(c, i - 1) THEN h ELSE next[k]],
           prev' = [k \in Handler |-> IF k = Nth(c, i) THEN h ELSE prev[k]],
           logh_head' = IF i = 1 THEN h ELSE logh_head
    PROVE  HandlersAre(InsertAt(c, i, h))'
<1> DEFINE d == InsertAt(c, i, h)
           L == Len(c)
<1>1. /\ c \in Seq(Handler) /\ IsInjective(c) /\ L \in Nat /\ DOMAIN c = 1 .. L
      /\ \A j \in 1 .. L : c[j] \in Handler /\ c[j] # h /\ c[j] # Null
  <2>1. c \in Seq(Handler) /\ IsInjective(c)
    BY DEF HandlersAre
  <2>2. L \in Nat /\ DOMAIN c = 1 .. L /\ \A j \in 1 .. L : c[j] \in Handler
    BY <2>1, LenProperties
  <2>3. \A j \in 1 .. L : c[j] \in Range(c)
    BY <2>2 DEF Range
  <2> QED
    BY <2>1, <2>2, <2>3, LogAssumption
<1>2. i \in 1 .. L + 1 /\ \A j \in 1 .. L : (j < i => priority[c[j]] < p) /\ (i <= j => p <= priority[c[j]])
  BY DEF Parts
<1>3. /\ d \in Seq(Handler) /\ Len(d) = L + 1
      /\ \A j \in 1 .. L + 1 : d[j] = IF j < i THEN c[j] ELSE IF j = i THEN h ELSE c[j - 1]
  <2>1. c \in Seq(Handler) /\ h \in Handler /\ i \in 1 .. Len(c) + 1
    BY <1>1, <1>2
  <2>2. /\ InsertAt(c, i, h) \in Seq(Handler)
        /\ Len(InsertAt(c, i, h)) = Len(c) + 1
        /\ \A j \in 1 .. Len(c) + 1 :
              InsertAt(c, i, h)[j] = IF j < i THEN c[j] ELSE IF j = i THEN h ELSE c[j - 1]
    BY <2>1, InsertAtElements
  <2> QED
    BY <2>2
<1>4. IsInjective(d)
  <2>1. h \notin Range(c)
    OBVIOUS
  <2> QED
    BY <1>1, <1>2, <2>1, InsertAtRange
<1> HIDE DEF d
<1>5. h # Null /\ \A j, k \in 1 .. L : c[j] = c[k] => j = k
  BY <1>1, LogAssumption DEF IsInjective
<1>6. \A j \in 1 .. L : next[c[j]] = Nth(c, j + 1) /\ prev[c[j]] \in {Null, Nth(c, j - 1)}
  BY DEF HandlersAre
<1>7. logh_head' = Nth(d, 1)
  <2>1. 1 \in 1 .. L + 1
    BY <1>1
  <2>2. Nth(d, 1) = d[1]
    BY <1>3, <2>1 DEF Nth
  <2>3. CASE i = 1
    BY <1>3, <2>1, <2>2, <2>3
  <2>4. CASE i # 1
    <3>1. 1 < i /\ 1 \in 1 .. L
      BY <1>1, <1>2, <2>4
    <3>2. d[1] = c[1] /\ logh_head = c[1]
      BY <1>3, <2>1, <3>1 DEF HandlersAre, Nth
    <3> QED
      BY <2>2, <2>4, <3>2
  <2> QED
    BY <2>3, <2>4
<1>8. \A j \in 1 .. L : Nth(c, j) = c[j]
  BY DEF Nth
<1>9. \A j \in 1 .. L + 1 : Nth(d, j) = d[j]
  BY <1>3 DEF Nth
<1>10. Nth(c, 0) = Null /\ Nth(c, L + 1) = Null /\ Nth(d, 0) = Null /\ Nth(d, (L + 1) + 1) = Null
  <2>1. 0 \notin 1 .. L /\ L + 1 \notin 1 .. L /\ 0 \notin 1 .. L + 1 /\ (L + 1) + 1 \notin 1 .. L + 1
    BY <1>1
  <2> HIDE DEF L
  <2> QED
    BY <1>3, <2>1 DEF Nth, L
<1>11. ASSUME NEW j \in 1 .. L + 1 PROVE next'[d[j]] = Nth(d, j + 1)
  <2>1. CASE j < i - 1
    <3>1. j \in 1 .. L /\ j + 1 \in 1 .. L /\ j + 1 \in 1 .. L + 1 /\ j < i /\ j + 1 < i /\ i - 1 \in 1 .. L /\ j # i - 1
      BY <1>1, <1>2, <2>1
    <3>2. d[j] = c[j] /\ d[j + 1] = c[j + 1] /\ Nth(c, i - 1) = c[i - 1] /\ c[j] # c[i - 1]
      BY <1>3, <1>5, <1>8, <3>1
    <3>3. next'[c[j]] = next[c[j]]
      BY <1>1, <3>1, <3>2
    <3> QED
      BY <1>6, <1>8, <1>9, <3>1, <3>2, <3>3
  <2>2. CASE j = i - 1
    <3>1. j \in 1 .. L /\ j < i /\ i > 1 /\ j + 1 = i
      BY <1>1, <1>2, <2>2
    <3>2. d[j] = c[j] /\ d[i] = h /\ Nth(c, i - 1) = c[j]
      BY <1>2, <1>3, <1>8, <2>2, <3>1
    <3>3. next'[c[j]] = h
      BY <1>1, <3>1, <3>2
    <3> QED
      BY <1>2, <1>9, <3>1, <3>2, <3>3
  <2>3. CASE j = i
    <3>1. d[j] = h /\ next'[h] = Nth(c, i)
      BY <1>3, <2>3
    <3>2. CASE i = L + 1
      BY <1>10, <2>3, <3>1, <3>2
    <3>3. CASE i # L + 1
      <4>1. i \in 1 .. L /\ j + 1 \in 1 .. L + 1 /\ ~(j + 1 < i) /\ j + 1 # i /\ (j + 1) - 1 = i
        BY <1>1, <1>2, <2>3, <3>3
      <4>2. d[j + 1] = c[i]
        BY <1>3, <4>1
      <4> QED
        BY <1>8, <1>9, <3>1, <4>1, <4>2
    <3> QED
      BY <3>2, <3>3
  <2>4. CASE j > i
    <3>1. /\ j - 1 \in 1 .. L /\ ~(j < i) /\ j # i /\ (j - 1) + 1 = j
          /\ i > 1 => i - 1 \in 1 .. L /\ j - 1 # i - 1
      BY <1>1, <1>2, <2>4
    <3>2. d[j] = c[j - 1] /\ (i > 1 => Nth(c, i - 1) = c[i - 1] /\ c[j - 1] # c[i - 1])
      BY <1>3, <1>5, <1>8, <3>1
    <3>3. next'[c[j - 1]] = next[c[j - 1]]
      BY <1>1, <3>1, <3>2
    <3>4. next'[d[j]] = Nth(c, j)
      BY <1>6, <3>1, <3>2, <3>3
    <3>5. CASE j = L + 1
      BY <1>10, <3>4, <3>5
    <3>6. CASE j # L + 1
      <4>1. j \in 1 .. L /\ j + 1 \in 1 .. L + 1 /\ ~(j + 1 < i) /\ j + 1 # i /\ (j + 1) - 1 = j
        BY <1>1, <1>2, <2>4, <3>6
      <4>2. d[j + 1] = c[j]
        BY <1>3, <4>1
      <4> QED
        BY <1>8, <1>9, <3>4, <4>1, <4>2
    <3> QED
      BY <3>5, <3>6
  <2>5. j < i - 1 \/ j = i - 1 \/ j = i \/ j > i
    BY <1>1, <1>2
  <2> QED
    BY <2>1, <2>2, <2>3, <2>4, <2>5
<1>12. ASSUME NEW j \in 1 .. L + 1 PROVE prev'[d[j]] \in {Null, Nth(d, j - 1)}
  <2>0. i = L + 1 => Nth(c, i) = Null
    BY <1>10
  <2>1. CASE j < i
    <3>0. L \in Nat /\ i \in 1 .. L + 1
      BY <1>1, <1>2
    <3>1. j \in 1 .. L /\ (i # L + 1 => i \in 1 .. L) /\ j # i
      BY <2>1, <3>0
    <3>2. d[j] = c[j]
      <4>1. d[j] = IF j < i THEN c[j] ELSE IF j = i THEN h ELSE c[j - 1]
        BY <1>3
      <4> QED
        BY <2>1, <4>1
    <3>5. c[j] # Nth(c, i)
      <4>1. c[j] # Null
        BY <1>1, <3>1
      <4>2. CASE i = L + 1
        BY <2>0, <4>1, <4>2
      <4>3. CASE i # L + 1
        <5>1. i \in 1 .. L
          BY <3>1, <4>3
        <5>2. Nth(c, i) = c[i]
          BY <1>8, <5>1
        <5>3. c[j] # c[i]
          BY <1>5, <3>1, <5>1
        <5> QED
          BY <5>2, <5>3
      <4> QED
        BY <4>2, <4>3
    <3>3. prev'[d[j]] \in {Null, Nth(c, j - 1)}
      <4>1. c[j] \in Handler /\ prev[c[j]] \in {Null, Nth(c, j - 1)}
        BY <1>1, <1>6, <3>1
      <4> QED
        BY <3>2, <3>5, <4>1
    <3>4. Nth(c, j - 1) = Nth(d, j - 1)
      <4>1. CASE j = 1
        BY <1>10, <4>1
      <4>2. CASE j # 1
        <5>1. j - 1 \in 1 .. L /\ j - 1 \in 1 .. L + 1 /\ j - 1 < i
          BY <1>1, <1>2, <2>1, <4>2
        <5> QED
          BY <1>3, <1>8, <1>9, <5>1
      <4> QED
        BY <4>1, <4>2
    <3> QED
      BY <3>3, <3>4
  <2>2. CASE j = i
    <3>1. d[j] = h /\ h # Nth(c, i)
      BY <1>1, <1>2, <1>3, <1>5, <2>2 DEF Nth
    <3> QED
      BY <3>1 DEF LogTyped
  <2>3. CASE j = i + 1
    <3>1. i \in 1 .. L /\ ~(j < i) /\ j # i /\ j - 1 = i
      BY <1>1, <1>2, <2>3
    <3>2. d[j] = c[i] /\ Nth(c, i) = c[i] /\ Nth(d, j - 1) = h
      BY <1>2, <1>3, <1>8, <1>9, <3>1
    <3> QED
      BY <1>1, <3>1, <3>2
  <2>4. CASE j > i + 1
    <3>1. /\ j - 1 \in 1 .. L /\ ~(j < i) /\ j # i /\ j - 1 # i /\ i \in 1 .. L
          /\ (j - 1) - 1 \in 1 .. L /\ j - 1 \in 1 .. L + 1 /\ ~(j - 1 < i)
      BY <1>1, <1>2, <2>4
    <3>2. d[j] = c[j - 1] /\ Nth(c, i) = c[i] /\ c[j - 1] # c[i]
      BY <1>3, <1>5, <1>8, <3>1
    <3>3. prev'[d[j]] \in {Null, Nth(c, (j - 1) - 1)}
      BY <1>1, <1>6, <3>1, <3>2
    <3>4. Nth(d, j - 1) = c[(j - 1) - 1]
      BY <1>3, <1>9, <3>1
    <3> QED
      BY <1>8, <3>1, <3>3, <3>4
  <2>5. j < i \/ j = i \/ j = i + 1 \/ j > i + 1
    BY <1>1, <1>2
  <2> QED
    BY <2>1, <2>2, <2>3, <2>4, <2>5
<1>13. ASSUME NEW j \in 1 .. L + 1, NEW k \in 1 .. L + 1, j <= k
       PROVE  priority'[d[j]] <= priority'[d[k]]
  <2>1. priority'[h] = p /\ \A m \in 1 .. L : priority'[c[m]] = priority[c[m]] /\ priority[c[m]] \in Nat
    BY <1>1, LogAssumption DEF LogTyped, Priorities
  <2>2. p \in Nat
    BY LogAssumption DEF Priorities
  <2>3. \A m, n \in 1 .. L : m <= n => priority[c[m]] <= priority[c[n]]
    BY DEF HandlersAre
  <2>4. /\ j < i => j \in 1 .. L
        /\ j > i => j - 1 \in 1 .. L
        /\ k < i => k \in 1 .. L
        /\ k > i => k - 1 \in 1 .. L
        /\ i \in Nat
    BY <1>1, <1>2
  <2>5. CASE j < i /\ k < i
    BY <1>3, <1>13, <2>1, <2>3, <2>4, <2>5
  <2>6. CASE j < i /\ k = i
    <3>1. d[j] = c[j] /\ d[k] = h /\ priority[c[j]] < p
      BY <1>2, <1>3, <2>4, <2>6
    <3> QED
      BY <2>1, <2>2, <2>4, <2>6, <3>1
  <2>7. CASE j < i /\ k > i
    <3>1. d[j] = c[j] /\ d[k] = c[k - 1] /\ j <= k - 1
      BY <1>3, <2>4, <2>7
    <3> QED
      BY <2>1, <2>3, <2>4, <2>7, <3>1
  <2>8. CASE j = i /\ k = i
    BY <1>3, <2>1, <2>2, <2>8
  <2>9. CASE j = i /\ k > i
    <3>1. d[j] = h /\ d[k] = c[k - 1] /\ i <= k - 1
      BY <1>3, <2>4, <2>9
    <3>2. p <= priority[c[k - 1]]
      BY <1>2, <2>4, <2>9, <3>1
    <3> QED
      BY <2>1, <2>4, <2>9, <3>1, <3>2
  <2>10. CASE j > i /\ k > i
    <3>1. d[j] = c[j - 1] /\ d[k] = c[k - 1] /\ j - 1 <= k - 1
      BY <1>3, <1>13, <2>4, <2>10
    <3> QED
      BY <2>1, <2>3, <2>4, <2>10, <3>1
  <2> QED
    BY <1>13, <2>4, <2>5, <2>6, <2>7, <2>8, <2>9, <2>10
<1> HIDE DEF L
<1>14. (HandlersAre(d))'
  BY <1>3, <1>4, <1>7, <1>11, <1>12, <1>13 DEF HandlersAre
<1> QED
  BY <1>14 DEF d

\* A handler put in front of one that does not know what is before it becomes the
\* first, and those before are lost.
PutFirst(c, i, h) == [j \in 1 .. Len(c) - i + 2 |-> IF j = 1 THEN h ELSE c[i + j - 2]]

LEMMA PutFirstElements ==
    ASSUME NEW c \in Seq(Handler), NEW h \in Handler, NEW i \in 1 .. Len(c)
    PROVE  /\ PutFirst(c, i, h) \in Seq(Handler)
           /\ Len(PutFirst(c, i, h)) = Len(c) - i + 2
           /\ PutFirst(c, i, h)[1] = h
           /\ \A j \in 2 .. Len(c) - i + 2 : /\ i + j - 2 \in i .. Len(c)
                                             /\ PutFirst(c, i, h)[j] = c[i + j - 2]
           /\ Range(PutFirst(c, i, h)) \subseteq Range(c) \cup {h}
<1> DEFINE L == Len(c)
           m == L - i + 2
           d == PutFirst(c, i, h)
<1>1. L \in Nat /\ DOMAIN c = 1 .. L /\ \A j \in 1 .. L : c[j] \in Handler
  BY LenProperties
<1>2. m \in Nat /\ 1 \in 1 .. m /\ \A j \in 2 .. m : j \in 1 .. m /\ j # 1 /\ i + j - 2 \in i .. L
  BY <1>1
<1>3. \A j \in 1 .. m : j = 1 \/ j \in 2 .. m
  BY <1>2
<1>4. d = [j \in 1 .. m |-> IF j = 1 THEN h ELSE c[i + j - 2]]
  BY DEF PutFirst
<1>5. i .. L \subseteq 1 .. L
  BY <1>1
<1> HIDE DEF m, d, L
<1>6. d[1] = h /\ \A j \in 2 .. m : i + j - 2 \in 1 .. L /\ d[j] = c[i + j - 2]
  <2>1. \A j \in 2 .. m : i + j - 2 \in 1 .. L
    BY <1>2, <1>5
  <2> QED
    BY <1>2, <1>4, <2>1
<1>7. \A j \in 1 .. m : d[j] \in Handler /\ d[j] \in Range(c) \cup {h}
  <2> SUFFICES ASSUME NEW j \in 1 .. m PROVE d[j] \in Handler /\ d[j] \in Range(c) \cup {h}
    OBVIOUS
  <2>1. CASE j = 1
    BY <1>6, <2>1
  <2>2. CASE j # 1
    <3>1. j \in 2 .. m
      BY <1>3, <2>2
    <3>2. d[j] = c[i + j - 2] /\ i + j - 2 \in 1 .. L
      BY <1>6, <3>1
    <3> QED
      BY <1>1, <3>2 DEF Range
  <2> QED
    BY <2>1, <2>2
<1>8. d \in [1 .. m -> Handler]
  <2>1. d = [j \in 1 .. m |-> d[j]]
    BY <1>4
  <2> QED
    BY <1>7, <2>1
<1>9. d \in Seq(Handler) /\ Len(d) = m
  BY <1>2, <1>8
<1>10. Range(d) \subseteq Range(c) \cup {h}
  BY <1>7, <1>8 DEF Range
<1> QED
  BY <1>2, <1>6, <1>9, <1>10 DEF m, d, L

LEMMA LostInFront ==
    ASSUME LogTyped, NEW c, HandlersAre(c), Range(c) \subseteq live,
           NEW h \in Handler \ live, NEW p \in Priorities, NEW i \in 1 .. Len(c), Parts(c, i, p),
           priority' = [priority EXCEPT ![h] = p],
           next' = [k \in Handler |-> IF k = h THEN c[i] ELSE next[k]],
           prev' = [k \in Handler |-> IF k = c[i] THEN h ELSE prev[k]],
           logh_head' = h
    PROVE  HandlersAre(PutFirst(c, i, h))'
<1> DEFINE d == PutFirst(c, i, h)
           L == Len(c)
           m == L - i + 2
<1>1. /\ c \in Seq(Handler) /\ L \in Nat /\ DOMAIN c = 1 .. L
      /\ \A j \in 1 .. L : c[j] \in Handler /\ c[j] # h /\ c[j] # Null
  <2>1. c \in Seq(Handler)
    BY DEF HandlersAre
  <2>2. L \in Nat /\ DOMAIN c = 1 .. L /\ \A j \in 1 .. L : c[j] \in Handler
    BY <2>1, LenProperties
  <2>3. \A j \in 1 .. L : c[j] \in Range(c)
    BY <2>2 DEF Range
  <2> QED
    BY <2>1, <2>2, <2>3, LogAssumption
<1>2. \A j \in 1 .. L : i <= j => p <= priority[c[j]]
  BY DEF Parts
<1>3. /\ d \in Seq(Handler) /\ Len(d) = m /\ d[1] = h
      /\ \A j \in 2 .. m : i + j - 2 \in i .. L /\ d[j] = c[i + j - 2]
  <2>1. h \in Handler /\ c \in Seq(Handler) /\ i \in 1 .. Len(c)
    BY <1>1
  <2>2. /\ PutFirst(c, i, h) \in Seq(Handler)
        /\ Len(PutFirst(c, i, h)) = Len(c) - i + 2
        /\ PutFirst(c, i, h)[1] = h
        /\ \A j \in 2 .. Len(c) - i + 2 : /\ i + j - 2 \in i .. Len(c)
                                          /\ PutFirst(c, i, h)[j] = c[i + j - 2]
    BY ONLY <2>1, PutFirstElements
  <2> QED
    BY <2>2
<1> HIDE DEF d
<1>4. h # Null /\ \A j, k \in 1 .. L : c[j] = c[k] => j = k
  BY <1>1, LogAssumption DEF HandlersAre, IsInjective
<1>5. \A j \in 1 .. L : next[c[j]] = Nth(c, j + 1) /\ prev[c[j]] \in {Null, Nth(c, j - 1)}
  BY DEF HandlersAre
<1>6. m \in Nat /\ 1 \in 1 .. m /\ 2 \in 2 .. m /\ i + 2 - 2 = i /\ \A j \in 1 .. m : j = 1 \/ j \in 2 .. m
  BY <1>1
<1>7. \A j \in 1 .. m : Nth(d, j) = d[j]
  BY <1>3 DEF Nth
<1>8. DOMAIN d = 1 .. m
  BY <1>3, LenProperties
<1>9. IsInjective(d)
  <2> SUFFICES ASSUME NEW j \in 1 .. m, NEW k \in 1 .. m, d[j] = d[k] PROVE j = k
    BY <1>8 DEF IsInjective
  <2>1. CASE j = 1 /\ k # 1
    <3>1. k \in 2 .. m /\ i + k - 2 \in 1 .. L
      BY <1>1, <1>6, <2>1
    <3> QED
      BY <1>1, <1>3, <2>1, <3>1
  <2>2. CASE j # 1 /\ k = 1
    <3>1. j \in 2 .. m /\ i + j - 2 \in 1 .. L
      BY <1>1, <1>6, <2>2
    <3> QED
      BY <1>1, <1>3, <2>2, <3>1
  <2>3. CASE j # 1 /\ k # 1
    <3>1. j \in 2 .. m /\ i + j - 2 \in 1 .. L /\ k \in 2 .. m /\ i + k - 2 \in 1 .. L
      BY <1>1, <1>6, <2>3
    <3>2. i + j - 2 = i + k - 2
      BY <1>3, <1>4, <3>1
    <3> QED
      BY <1>1, <3>1, <3>2
  <2> QED
    BY <2>1, <2>2, <2>3
<1>10. logh_head' = Nth(d, 1)
  BY <1>3, <1>6, <1>7
<1>11. ASSUME NEW j \in 1 .. m PROVE next'[d[j]] = Nth(d, j + 1)
  <2>1. CASE j = 1
    <3>1. d[j + 1] = c[i] /\ j + 1 \in 1 .. m
      BY <1>3, <1>6, <2>1
    <3> QED
      BY <1>3, <1>7, <2>1, <3>1
  <2>2. CASE j # 1
    <3> DEFINE x == i + j - 2
    <3>1. /\ j \in 2 .. m /\ x \in 1 .. L
          /\ j < m => j + 1 \in 2 .. m /\ j + 1 \in 1 .. m /\ i + (j + 1) - 2 = x + 1 /\ x + 1 \in 1 .. L
          /\ ~(j < m) => j + 1 \notin 1 .. m /\ x + 1 \notin 1 .. L
      BY <1>1, <1>6, <2>2
    <3>2. d[j] = c[x]
      BY <1>3, <3>1
    <3> HIDE DEF x
    <3>3. next'[d[j]] = Nth(c, x + 1)
      BY <1>1, <1>5, <3>1, <3>2
    <3>4. CASE j < m
      <4>1. d[j + 1] = c[x + 1]
        BY <1>3, <3>1, <3>4
      <4> QED
        BY <1>7, <3>1, <3>3, <3>4, <4>1 DEF Nth
    <3>5. CASE ~(j < m)
      <4> HIDE DEF L, m
      <4>1. Nth(c, x + 1) = Null /\ Nth(d, j + 1) = Null
        BY <1>3, <3>1, <3>5 DEF Nth, L
      <4> QED
        BY <3>3, <4>1
    <3> QED
      BY <3>4, <3>5
  <2> QED
    BY <2>1, <2>2
<1>12. ASSUME NEW j \in 1 .. m PROVE prev'[d[j]] \in {Null, Nth(d, j - 1)}
  <2>1. CASE j = 1
    <3>1. h # c[i]
      BY <1>1
    <3>2. prev[h] = Null
      BY DEF LogTyped
    <3> QED
      BY <1>3, <2>1, <3>1, <3>2
  <2>2. CASE j = 2
    <3>1. d[j] = c[i] /\ Nth(d, j - 1) = h
      BY <1>3, <1>6, <1>7, <2>2
    <3> QED
      BY <1>1, <3>1
  <2>3. CASE j > 2
    <3> DEFINE x == i + j - 2
    <3>1. j \in 2 .. m /\ x \in 1 .. L /\ x # i /\ x - 1 \in 1 .. L /\ j - 1 \in 2 .. m /\ j - 1 \in 1 .. m
          /\ i + (j - 1) - 2 = x - 1
      BY <1>1, <2>3
    <3>2. d[j] = c[x] /\ d[j - 1] = c[x - 1]
      BY <1>3, <3>1
    <3> HIDE DEF x
    <3>3. prev'[d[j]] \in {Null, Nth(c, x - 1)}
      BY <1>1, <1>4, <1>5, <3>1, <3>2
    <3>4. Nth(c, x - 1) = c[x - 1]
      BY <3>1 DEF Nth
    <3> QED
      BY <1>7, <3>1, <3>2, <3>3, <3>4
  <2>4. j = 1 \/ j = 2 \/ j > 2
    BY <1>6
  <2> QED
    BY <2>1, <2>2, <2>3, <2>4
<1>13. ASSUME NEW j \in 1 .. m, NEW k \in 1 .. m, j <= k
       PROVE  priority'[d[j]] <= priority'[d[k]]
  <2>1. priority'[h] = p /\ \A x \in 1 .. L : priority'[c[x]] = priority[c[x]] /\ priority[c[x]] \in Nat
    BY <1>1, LogAssumption DEF LogTyped, Priorities
  <2>2. p \in Nat
    BY LogAssumption DEF Priorities
  <2>3. \A x, y \in 1 .. L : x <= y => priority[c[x]] <= priority[c[y]]
    BY DEF HandlersAre
  <2>4. CASE j = 1 /\ k = 1
    BY <1>3, <2>1, <2>2, <2>4
  <2>5. CASE j = 1 /\ k # 1
    <3>1. k \in 2 .. m /\ i + k - 2 \in 1 .. L /\ i <= i + k - 2
      BY <1>1, <1>6, <2>5
    <3>2. p <= priority[c[i + k - 2]]
      BY <1>2, <3>1
    <3> QED
      BY <1>3, <2>1, <2>5, <3>1, <3>2
  <2>6. CASE j # 1
    <3>1. j \in 2 .. m /\ i + j - 2 \in 1 .. L /\ k \in 2 .. m /\ i + k - 2 \in 1 .. L /\ i + j - 2 <= i + k - 2
      BY <1>1, <1>6, <1>13, <2>6
    <3>2. d[j] = c[i + j - 2] /\ d[k] = c[i + k - 2]
      BY <1>3, <3>1
    <3> HIDE DEF L, m
    <3> QED
      BY <2>1, <2>3, <3>1, <3>2
  <2> QED
    BY <2>4, <2>5, <2>6
<1> HIDE DEF L, m
<1>14. (HandlersAre(d))'
  BY <1>3, <1>9, <1>10, <1>11, <1>12, <1>13 DEF HandlersAre
<1> QED
  BY <1>14 DEF d

\* What a new handler leads to, and what leads to it, is in order.
LEMMA StillReached ==
    ASSUME LogTyped, NEW R, Reached(R),
           NEW h \in Handler \ live, NEW p \in Priorities,
           live' = live \cup {h},
           priority' = [priority EXCEPT ![h] = p],
           logh_priorities' = Indexed(h, p),
           next'[h] \in R \cup {Null}, next'[h] # Null => p <= priority[next'[h]],
           \A k \in R : next'[k] = next[k] \/ (next'[k] = h /\ priority[k] <= p)
    PROVE  Reached(R \cup {h})'
<1>1. \A k \in R : k \in Handler /\ k # h /\ priority'[k] = priority[k] /\ priority[k] \in Nat
  BY LogAssumption DEF Reached, LogTyped, Priorities
<1>2. priority'[h] = p /\ h # Null
  BY LogAssumption DEF LogTyped
<1>3. \A k \in R : next[k] \in R \cup {Null} /\ (next[k] # Null => priority[k] <= priority[next[k]])
  BY DEF Reached
<1>4. R \cup {h} \subseteq live'
  BY DEF Reached
<1>5. ASSUME NEW k \in R PROVE /\ next'[k] \in (R \cup {h}) \cup {Null}
                               /\ next'[k] # Null => priority'[k] <= priority'[next'[k]]
  <2>1. CASE next'[k] = next[k]
    BY <1>1, <1>3, <2>1
  <2>2. CASE next'[k] = h /\ priority[k] <= p
    BY <1>1, <1>2, <2>2
  <2> QED
    BY <2>1, <2>2
<1>6. /\ next'[h] \in (R \cup {h}) \cup {Null}
      /\ next'[h] # Null => priority'[h] <= priority'[next'[h]]
  BY <1>1, <1>2
<1>7. ASSUME NEW q \in Priorities, logh_priorities'[q] # Null
      PROVE  logh_priorities'[q] \in R \cup {h} /\ q <= priority'[logh_priorities'[q]]
  <2>1. logh_priorities'[q] = IF q <= p /\ (logh_priorities[q] = Null \/ priority[logh_priorities[q]] >= p)
                              THEN h ELSE logh_priorities[q]
    BY DEF Indexed
  <2>2. logh_priorities[q] # Null => logh_priorities[q] \in R /\ q <= priority[logh_priorities[q]]
    BY DEF Reached
  <2> QED
    BY <1>1, <1>2, <1>7, <2>1, <2>2
<1> QED
  BY <1>4, <1>5, <1>6, <1>7 DEF Reached

\* As long as none is lost, the index goes on finding everybody.
LEMMA StillFinds ==
    ASSUME LogTyped, NEW c, HandlersAre(c), NEW R, Reached(R), R \subseteq Range(c), Range(c) \subseteq live,
           IndexFinds(c), NEW h \in Handler \ live, NEW p \in Priorities, NEW i, Parts(c, i, p),
           priority' = [priority EXCEPT ![h] = p],
           logh_priorities' = Indexed(h, p)
    PROVE  IndexFinds(InsertAt(c, i, h))'
<1> DEFINE d == InsertAt(c, i, h)
           L == Len(c)
<1>1. /\ c \in Seq(Handler) /\ L \in Nat /\ DOMAIN c = 1 .. L
      /\ \A j \in 1 .. L : c[j] \in Handler /\ c[j] # h /\ c[j] # Null
  <2>1. c \in Seq(Handler)
    BY DEF HandlersAre
  <2>2. L \in Nat /\ DOMAIN c = 1 .. L /\ \A j \in 1 .. L : c[j] \in Handler
    BY <2>1, LenProperties
  <2>3. \A j \in 1 .. L : c[j] \in Range(c)
    BY <2>2 DEF Range
  <2> QED
    BY <2>1, <2>2, <2>3, LogAssumption
<1>2. i \in 1 .. L + 1 /\ \A j \in 1 .. L : (j < i => priority[c[j]] < p) /\ (i <= j => p <= priority[c[j]])
  BY DEF Parts
<1>3. /\ d \in Seq(Handler) /\ Len(d) = L + 1
      /\ \A j \in 1 .. L + 1 : d[j] = IF j < i THEN c[j] ELSE IF j = i THEN h ELSE c[j - 1]
  <2>1. c \in Seq(Handler) /\ h \in Handler /\ i \in 1 .. Len(c) + 1
    BY <1>1, <1>2
  <2>2. /\ InsertAt(c, i, h) \in Seq(Handler)
        /\ Len(InsertAt(c, i, h)) = Len(c) + 1
        /\ \A j \in 1 .. Len(c) + 1 :
              InsertAt(c, i, h)[j] = IF j < i THEN c[j] ELSE IF j = i THEN h ELSE c[j - 1]
    BY <2>1, InsertAtElements
  <2> QED
    BY <2>2
<1> HIDE DEF d
<1>4. priority'[h] = p /\ p \in Nat /\ \A j \in 1 .. L : priority'[c[j]] = priority[c[j]] /\ priority[c[j]] \in Nat
  BY <1>1, LogAssumption DEF LogTyped, Priorities
<1>5. ASSUME NEW q \in Priorities, NEW j \in 1 .. L + 1, q <= priority'[d[j]]
      PROVE  \E l \in 1 .. j : logh_priorities'[q] = d[l]
  <2> DEFINE f == logh_priorities[q]
  <2>1. logh_priorities'[q] = IF q <= p /\ (f = Null \/ priority[f] >= p) THEN h ELSE f
    BY DEF Indexed
  <2>2. q \in Nat
    BY LogAssumption DEF Priorities
  <2>3. \A x \in 1 .. L : q <= priority[c[x]] => \E l \in 1 .. x : f = c[l]
    BY DEF IndexFinds
  <2>4. f # Null => \E x \in 1 .. L : f = c[x]
    <3>1. f # Null => f \in Range(c)
      BY DEF Reached
    <3> QED
      BY <1>1, <3>1 DEF Range
  <2> HIDE DEF f
  <2>5. \A l \in 1 .. L : /\ l < i => d[l] = c[l] /\ l \in 1 .. L + 1
                          /\ i <= l => d[l + 1] = c[l] /\ l + 1 \in 1 .. L + 1
    <3> SUFFICES ASSUME NEW l \in 1 .. L PROVE /\ l < i => d[l] = c[l] /\ l \in 1 .. L + 1
                                               /\ i <= l => d[l + 1] = c[l] /\ l + 1 \in 1 .. L + 1
      OBVIOUS
    <3>1. l \in 1 .. L + 1 /\ l + 1 \in 1 .. L + 1 /\ (l + 1) - 1 = l
          /\ (i <= l => ~(l + 1 < i) /\ l + 1 # i)
      BY <1>1, <1>2
    <3> QED
      BY <1>3, <3>1
  \* What was found in front of an old handler still is.
  <2>6. ASSUME NEW x \in 1 .. L, q <= priority[c[x]], x < i => j = x, i <= x => j = x + 1
        PROVE  \E l \in 1 .. j : f = d[l]
    <3>1. PICK l \in 1 .. x : f = c[l]
      BY <2>3, <2>6
    <3>2. CASE l < i
      <4>1. l \in 1 .. L /\ l \in 1 .. j
        BY <1>1, <1>2, <2>6, <3>2
      <4> QED
        BY <2>5, <3>1, <3>2, <4>1
    <3>3. CASE ~(l < i)
      <4>1. l \in 1 .. L /\ i <= l /\ l + 1 \in 1 .. j
        BY <1>1, <1>2, <2>6, <3>3
      <4> QED
        BY <2>5, <3>1, <4>1
    <3> QED
      BY <3>2, <3>3
  <2>7. CASE q <= p /\ (f = Null \/ priority[f] >= p)
    <3>1. logh_priorities'[q] = h
      BY <2>1, <2>7
    <3>2. i \in 1 .. L + 1 /\ d[i] = h
      BY <1>2, <1>3
    <3>3. CASE i <= j
      <4>1. i \in 1 .. j
        BY <1>2, <3>3
      <4> QED
        BY <3>1, <3>2, <4>1
    <3>4. CASE ~(i <= j)
      <4>1. j \in 1 .. L /\ j < i
        BY <1>1, <1>2, <3>4
      <4>2. d[j] = c[j]
        BY <1>3, <4>1
      <4>3. PICK l \in 1 .. j : f = c[l]
        BY <1>4, <1>5, <2>3, <4>1, <4>2
      <4>4. l \in 1 .. L /\ l < i
        BY <1>1, <1>2, <4>1
      <4>5. priority[f] < p /\ f # Null /\ priority[f] \in Nat
        BY <1>1, <1>2, <1>4, <4>3, <4>4
      <4> QED
        BY <1>4, <2>7, <4>5
    <3> QED
      BY <3>3, <3>4
  <2>8. CASE ~(q <= p /\ (f = Null \/ priority[f] >= p))
    <3>1. logh_priorities'[q] = f
      BY <2>1, <2>8
    <3>2. CASE j < i
      <4>1. j \in 1 .. L /\ ~(i <= j)
        BY <1>1, <1>2, <3>2
      <4>2. d[j] = c[j]
        BY <1>3, <3>2
      <4> QED
        BY <1>4, <1>5, <2>6, <3>1, <3>2, <4>1, <4>2
    <3>3. CASE j = i
      <4>1. q <= p
        BY <1>3, <1>4, <1>5, <3>3
      <4>2. f # Null /\ ~(priority[f] >= p)
        BY <2>8, <4>1
      <4>3. PICK x \in 1 .. L : f = c[x]
        BY <2>4, <4>2
      <4>4. x < i
        BY <1>1, <1>2, <1>4, <4>2, <4>3
      <4>5. x \in 1 .. j
        BY <1>1, <1>2, <3>3, <4>4
      <4> QED
        BY <2>5, <3>1, <4>3, <4>4, <4>5
    <3>4. CASE j > i
      <4>1. j - 1 \in 1 .. L /\ i <= j - 1 /\ (j - 1) + 1 = j /\ ~(j - 1 < i) /\ ~(j < i) /\ j # i
        BY <1>1, <1>2, <3>4
      <4>2. d[j] = c[j - 1]
        BY <1>3, <4>1
      <4> QED
        BY <1>4, <1>5, <2>6, <3>1, <4>1, <4>2
    <3> QED
      BY <1>2, <3>2, <3>3, <3>4
  <2> QED
    BY <2>7, <2>8
<1> HIDE DEF L
<1>6. (IndexFinds(d))'
  BY <1>3, <1>5 DEF IndexFinds
<1> QED
  BY <1>6 DEF d

\* The links that LinkIn makes: at i, or with what is before i lost.
LinkedIn(c, i, h) == /\ next' = [k \in Handler |-> IF k = h THEN Nth(c, i)
                                                   ELSE IF i > 1 /\ k = Nth(c, i - 1) THEN h ELSE next[k]]
                     /\ prev' = [k \in Handler |-> IF k = Nth(c, i) THEN h ELSE prev[k]]
                     /\ logh_head' = IF i = 1 THEN h ELSE logh_head

LinkedFirst(c, i, h) == /\ i \in 2 .. Len(c)
                        /\ next' = [k \in Handler |-> IF k = h THEN c[i] ELSE next[k]]
                        /\ prev' = [k \in Handler |-> IF k = c[i] THEN h ELSE prev[k]]
                        /\ logh_head' = h

LEMMA LinkInLinks ==
    ASSUME LogTyped, NEW c, HandlersAre(c), Range(c) \subseteq live,
           NEW h \in Handler \ live, NEW p \in Priorities, LinkIn(h, p),
           NEW i \in 1 .. Len(c) + 1, Following(p) = Nth(c, i)
    PROVE  LinkedIn(c, i, h) \/ LinkedFirst(c, i, h)
<1> DEFINE L == Len(c)
<1>1. /\ c \in Seq(Handler) /\ L \in Nat
      /\ \A j \in 1 .. L : c[j] \in Handler /\ c[j] # h /\ c[j] # Null /\ Nth(c, j) = c[j]
  <2>1. c \in Seq(Handler)
    BY DEF HandlersAre
  <2>2. L \in Nat /\ DOMAIN c = 1 .. L /\ \A j \in 1 .. L : c[j] \in Handler
    BY <2>1, LenProperties
  <2>3. \A j \in 1 .. L : c[j] \in Range(c)
    BY <2>2 DEF Range
  <2> QED
    BY <2>1, <2>2, <2>3, LogAssumption DEF Nth
<1>2. next \in [Handler -> Handler \cup {Null}] /\ prev \in [Handler -> Handler \cup {Null}]
  BY DEF LogTyped
<1>3. h \in Handler /\ h # Null /\ next[h] = Null /\ \A k \in Handler : k # Null
  BY LogAssumption DEF LogTyped
<1>4. logh_head = Nth(c, 1) /\ \A j \in 1 .. L : prev[c[j]] \in {Null, Nth(c, j - 1)}
  BY DEF HandlersAre
<1>5. CASE i \in 1 .. L
  <2>1. Following(p) = c[i] /\ c[i] \in Handler /\ c[i] # Null /\ c[i] # h
    BY <1>1, <1>5
  <2>2. /\ IF prev[c[i]] # Null
           THEN next' = [next EXCEPT ![prev[c[i]]] = h, ![h] = c[i]] /\ logh_head' = logh_head
           ELSE next' = [next EXCEPT ![h] = c[i]] /\ logh_head' = h
        /\ prev' = [prev EXCEPT ![c[i]] = h]
    BY <2>1 DEF LinkIn
  <2>3. prev' = [k \in Handler |-> IF k = c[i] THEN h ELSE prev[k]]
    BY <1>2, <2>2
  <2>4. CASE prev[c[i]] # Null
    <3>1. i > 1 /\ i - 1 \in 1 .. L /\ prev[c[i]] = c[i - 1]
      <4>1. prev[c[i]] = Nth(c, i - 1)
        BY <1>4, <1>5, <2>4
      <4>2. i - 1 \in 1 .. L
        BY <2>4, <4>1 DEF Nth
      <4> QED
        BY <1>1, <1>5, <4>1, <4>2
    <3>2. c[i - 1] \in Handler /\ c[i - 1] # h /\ Nth(c, i - 1) = c[i - 1]
      BY <1>1, <3>1
    <3>3. next' = [next EXCEPT ![c[i - 1]] = h, ![h] = c[i]]
      BY <2>2, <2>4, <3>1
    <3>4. next' = [k \in Handler |-> IF k = h THEN c[i] ELSE IF k = c[i - 1] THEN h ELSE next[k]]
      BY <1>2, <1>3, <3>2, <3>3
    <3>5. Nth(c, i) = c[i]
      BY <1>1, <1>5
    <3>6. logh_head' = IF i = 1 THEN h ELSE logh_head
      BY <2>2, <2>4, <3>1
    <3>7. next' = [k \in Handler |-> IF k = h THEN Nth(c, i)
                                     ELSE IF i > 1 /\ k = Nth(c, i - 1) THEN h ELSE next[k]]
      BY <3>1, <3>2, <3>4, <3>5
    <3> QED
      BY <2>3, <3>5, <3>6, <3>7 DEF LinkedIn
  <2>5. CASE prev[c[i]] = Null
    <3>1. next' = [next EXCEPT ![h] = c[i]] /\ logh_head' = h
      BY <2>2, <2>5
    <3>2. next' = [k \in Handler |-> IF k = h THEN c[i] ELSE next[k]]
      BY <1>2, <1>3, <3>1
    <3>3. CASE i = 1
      <4>1. Nth(c, i) = c[i] /\ ~(i > 1)
        BY <1>1, <1>5, <3>3
      <4> QED
        BY <2>3, <3>1, <3>2, <3>3, <4>1 DEF LinkedIn
    <3>4. CASE i # 1
      <4>1. i \in 2 .. Len(c)
        BY <1>1, <1>5, <3>4
      <4> QED
        BY <2>3, <3>1, <3>2, <4>1 DEF LinkedFirst
    <3> QED
      BY <3>3, <3>4
  <2> QED
    BY <2>4, <2>5
<1>6. CASE i = L + 1
  <2>1. Nth(c, i) = Null /\ Following(p) = Null
    <3>1. i \notin 1 .. L
      BY <1>1, <1>6
    <3> QED
      BY <3>1 DEF Nth
  <2>2. prev = [k \in Handler |-> IF k = Nth(c, i) THEN h ELSE prev[k]]
    BY <1>2, <1>3, <2>1
  <2>3. CASE L = 0
    <3>1. logh_head = Null
      <4>1. 1 \notin 1 .. L
        BY <2>3
      <4> QED
        BY <1>4, <4>1 DEF Nth
    <3>2. logh_head' = h /\ next' = next /\ prev' = prev
      BY <2>1, <3>1 DEF LinkIn
    <3>3. i = 1 /\ ~(i > 1)
      BY <1>6, <2>3
    <3>4. next = [k \in Handler |-> IF k = h THEN Null ELSE next[k]]
      BY <1>2, <1>3
    <3> QED
      BY <2>1, <2>2, <3>2, <3>3, <3>4 DEF LinkedIn
  <2>4. CASE L # 0
    <3>1. L \in 1 .. L /\ 1 \in 1 .. L /\ i > 1 /\ i - 1 = L /\ i # 1
      BY <1>1, <1>6, <2>4
    <3>2. logh_head # Null
      BY <1>1, <1>4, <3>1
    <3>3. Last(Chain(logh_head)) = c[L]
      BY ListIsChain DEF Last
    <3>4. next' = [next EXCEPT ![c[L]] = h] /\ logh_head' = logh_head /\ prev' = prev
      BY <2>1, <3>2, <3>3 DEF LinkIn
    <3>5. c[L] \in Handler /\ c[L] # h /\ Nth(c, i - 1) = c[L]
      BY <1>1, <3>1
    <3>6. next' = [k \in Handler |-> IF k = h THEN Null ELSE IF k = c[L] THEN h ELSE next[k]]
      BY <1>2, <1>3, <3>4, <3>5
    <3>7. next' = [k \in Handler |-> IF k = h THEN Nth(c, i)
                                     ELSE IF i > 1 /\ k = Nth(c, i - 1) THEN h ELSE next[k]]
      BY <2>1, <3>1, <3>5, <3>6
    <3> QED
      BY <2>2, <3>1, <3>4, <3>7 DEF LinkedIn
  <2> QED
    BY <2>3, <2>4
<1> QED
  BY <1>1, <1>5, <1>6

\* After a registration list and index are those of some list again.
LEMMA RegisterKeeps ==
    ASSUME LogTyped, NEW c \in Seq(Handler), NEW R \in SUBSET Handler,
           HandlersAre(c), Reached(R), Range(c) \subseteq R, live = Range(c) => IndexFinds(c),
           NEW h \in Handler, NEW t, NEW p \in Priorities, NEW max, Register(h, t, p, max)
    PROVE  LogTyped' /\ \E d \in Seq(Handler), Q \in SUBSET Handler :
               /\ HandlersAre(d)' /\ Reached(Q)' /\ Range(d) \subseteq Q
               /\ live' = Range(d) => IndexFinds(d)'
<1> DEFINE L == Len(c)
<1>1. /\ h \in Handler \ live /\ live' = live \cup {h} /\ priority' = [priority EXCEPT ![h] = p]
      /\ LinkIn(h, p) /\ logh_priorities' = Indexed(h, p)
  BY DEF Register
<1>2. Range(c) \subseteq live /\ R \subseteq live /\ live \subseteq Handler
  BY DEF Reached, LogTyped
<1>3. /\ L \in Nat /\ DOMAIN c = 1 .. L /\ IsInjective(c)
      /\ \A j \in 1 .. L : c[j] \in Handler /\ c[j] \in Range(c) /\ Nth(c, j) = c[j] /\ c[j] # Null
  <2>1. L \in Nat /\ DOMAIN c = 1 .. L /\ \A j \in 1 .. L : c[j] \in Handler
    BY LenProperties
  <2> QED
    BY <2>1, LogAssumption DEF Range, Nth, HandlersAre
<1>4. PICK i \in 1 .. L + 1 : Parts(c, i, p) /\ Following(p) = Nth(c, i)
  BY FollowingParts
<1>5. LinkedIn(c, i, h) \/ LinkedFirst(c, i, h)
  BY <1>1, <1>2, <1>4, LinkInLinks
<1>6. h # Null /\ next[h] = Null /\ prev[h] = Null
  BY <1>1, LogAssumption DEF LogTyped
<1>7. Nth(c, i) \in R \cup {Null} /\ (Nth(c, i) # Null => i \in 1 .. L /\ p <= priority[Nth(c, i)])
  BY <1>3, <1>4 DEF Nth, Parts
<1>8. /\ priority' \in [Handler -> Priorities]
      /\ logh_priorities' \in [Priorities -> Handler \cup {Null}]
      /\ live' \subseteq Handler
  <2>1. Indexed(h, p) \in [Priorities -> Handler \cup {Null}]
    BY DEF Indexed, LogTyped
  <2> QED
    BY <1>1, <1>2, <2>1 DEF LogTyped
<1>9. CASE LinkedIn(c, i, h)
  <2> DEFINE d == InsertAt(c, i, h)
  <2>1. HandlersAre(d)'
    BY <1>1, <1>2, <1>4, <1>9, LinkedAt DEF LinkedIn
  <2>2. d \in Seq(Handler) /\ Range(d) = Range(c) \cup {h}
    BY <1>4, InsertAtElements, InsertAtRange
  <2>3. Reached(R \cup {h})'
    <3>1. next'[h] = Nth(c, i)
      BY <1>1, <1>9 DEF LinkedIn
    <3>2. ASSUME NEW k \in R PROVE next'[k] = next[k] \/ (next'[k] = h /\ priority[k] <= p)
      <4>1. k \in Handler /\ k # h
        BY <1>1, <1>2
      <4>2. CASE i > 1 /\ k = Nth(c, i - 1)
        <5>1. next'[k] = h
          BY <1>9, <4>1, <4>2 DEF LinkedIn
        <5>2. i - 1 \in 1 .. L /\ i - 1 < i
          BY <1>3, <1>4, <4>2
        <5>3. k = c[i - 1]
          BY <1>3, <4>2, <5>2
        <5>4. priority[k] < p
          BY <1>4, <5>2, <5>3 DEF Parts
        <5>5. priority[k] \in Nat /\ p \in Nat
          BY <4>1, LogAssumption DEF LogTyped, Priorities
        <5> QED
          BY <5>1, <5>4, <5>5
      <4>3. CASE ~(i > 1 /\ k = Nth(c, i - 1))
        BY <1>9, <4>1, <4>3 DEF LinkedIn
      <4> QED
        BY <4>2, <4>3
    <3> QED
      BY <1>1, <1>7, <3>1, <3>2, StillReached
  <2>4. ASSUME live' = Range(d) PROVE IndexFinds(d)'
    <3>1. live = Range(c)
      BY <1>1, <1>2, <2>2, <2>4
    <3>2. IndexFinds(c) /\ R \subseteq Range(c)
      BY <1>2, <3>1
    <3> QED
      BY <1>1, <1>2, <1>4, <3>2, StillFinds
  <2>5. LogTyped'
    <3>1. next' \in [Handler -> Handler \cup {Null}] /\ prev' \in [Handler -> Handler \cup {Null}]
      <4>1. \A k \in Handler : next[k] \in Handler \cup {Null} /\ prev[k] \in Handler \cup {Null}
        BY DEF LogTyped
      <4>2. Nth(c, i) \in Handler \cup {Null}
        BY <1>7
      <4> QED
        BY <1>9, <4>1, <4>2 DEF LinkedIn
    <3>2. ASSUME NEW k \in Handler \ live' PROVE next'[k] = Null /\ prev'[k] = Null
      <4>1. k \in Handler \ live /\ k # h /\ next[k] = Null /\ prev[k] = Null
        BY <1>1, <1>2 DEF LogTyped
      <4>2. k # Nth(c, i) /\ ~(i > 1 /\ k = Nth(c, i - 1))
        <5>1. \A j \in 1 .. L : k # c[j]
          BY <1>2, <1>3, <4>1
        <5>2. k # Null
          BY <4>1, LogAssumption
        <5> QED
          BY <5>1, <5>2 DEF Nth
      <4> QED
        BY <1>9, <4>1, <4>2 DEF LinkedIn
    <3> QED
      BY <1>8, <3>1, <3>2 DEF LogTyped
  <2> HIDE DEF d
  <2>6. Range(d) \subseteq R \cup {h} /\ R \cup {h} \in SUBSET Handler
    BY <2>2
  <2> QED
    BY <2>1, <2>2, <2>3, <2>4, <2>5, <2>6
<1>10. CASE LinkedFirst(c, i, h)
  <2> DEFINE d == PutFirst(c, i, h)
  <2>0. i \in 1 .. Len(c) /\ i # 1 /\ Nth(c, i) = c[i] /\ 1 \in 1 .. L
    BY <1>3, <1>10 DEF LinkedFirst
  <2>1. HandlersAre(d)'
    BY <1>1, <1>2, <1>4, <1>10, <2>0, LostInFront DEF LinkedFirst
  <2>2. /\ d \in Seq(Handler) /\ Len(d) = Len(c) - i + 2 /\ d[1] = h
        /\ \A j \in 2 .. Len(c) - i + 2 : /\ i + j - 2 \in i .. Len(c) /\ d[j] = c[i + j - 2]
        /\ Range(d) \subseteq Range(c) \cup {h}
    BY <2>0, PutFirstElements
  <2> HIDE DEF d
  <2>3. Reached(R \cup {h})'
    <3>1. next'[h] = Nth(c, i)
      BY <1>1, <1>10, <2>0 DEF LinkedFirst
    <3>2. ASSUME NEW k \in R PROVE next'[k] = next[k]
      BY <1>1, <1>2, <1>10 DEF LinkedFirst
    <3> QED
      BY <1>1, <1>7, <3>1, <3>2, StillReached
  <2>4. live' # Range(d)
    <3>1. c[1] \in live'
      BY <1>1, <1>2, <1>3, <2>0
    <3>2. c[1] # h
      BY <1>1, <1>2, <1>3, <2>0
    <3>3. ASSUME NEW j \in 1 .. Len(d) PROVE d[j] # c[1]
      <4>1. CASE j = 1
        BY <2>2, <3>2, <4>1
      <4>2. CASE j # 1
        <5>1. j \in 2 .. L - i + 2 /\ i + j - 2 \in 1 .. L /\ i + j - 2 # 1
          BY <1>3, <2>0, <2>2, <4>2
        <5>2. c[i + j - 2] # c[1]
          BY <1>3, <2>0, <5>1 DEF IsInjective
        <5> QED
          BY <2>2, <5>1, <5>2
      <4> QED
        BY <4>1, <4>2
    <3>4. c[1] \notin Range(d)
      <4>1. DOMAIN d = 1 .. Len(d)
        BY <2>2, LenProperties
      <4> QED
        BY <3>3, <4>1 DEF Range
    <3> QED
      BY <3>1, <3>4
  <2>5. LogTyped'
    <3>1. next' \in [Handler -> Handler \cup {Null}] /\ prev' \in [Handler -> Handler \cup {Null}]
      <4>1. \A k \in Handler : next[k] \in Handler \cup {Null} /\ prev[k] \in Handler \cup {Null}
        BY DEF LogTyped
      <4>2. c[i] \in Handler
        BY <1>3, <2>0
      <4> QED
        BY <1>10, <4>1, <4>2 DEF LinkedFirst
    <3>2. ASSUME NEW k \in Handler \ live' PROVE next'[k] = Null /\ prev'[k] = Null
      <4>1. k \in Handler \ live /\ k # h /\ next[k] = Null /\ prev[k] = Null
        BY <1>1, <1>2 DEF LogTyped
      <4>2. k # c[i]
        BY <1>2, <1>3, <2>0, <4>1
      <4> QED
        BY <1>10, <4>1, <4>2 DEF LinkedFirst
    <3> QED
      BY <1>8, <3>1, <3>2 DEF LogTyped
  <2>6. Range(d) \subseteq R \cup {h} /\ R \cup {h} \in SUBSET Handler
    BY <2>2
  <2> QED
    BY <2>1, <2>2, <2>3, <2>4, <2>5, <2>6
<1> QED
  BY <1>5, <1>9, <1>10

-----------------------------------------------------------------------------
(* Counting and removing                                                    *)

LEMMA CountKept ==
    ASSUME live \subseteq Handler, Counted, live' \subseteq Handler,
           NEW on, on \subseteq live', SetEnabled(on)
    PROVE  Counted'
<1>1. IsFiniteSet(enabled) /\ IsFiniteSet(on)
  BY LogAssumption, FS_Subset DEF Counted
<1>2. Cardinality(on \ enabled) = Cardinality(on) - Cardinality(on \cap enabled)
  BY <1>1, FS_Difference
<1>3. Cardinality(enabled \ on) = Cardinality(enabled) - Cardinality(on \cap enabled)
  <2>1. enabled \cap on = on \cap enabled
    OBVIOUS
  <2>2. Cardinality(enabled \ on) = Cardinality(enabled) - Cardinality(enabled \cap on)
    BY <1>1, FS_Difference
  <2> QED
    BY <2>1, <2>2
<1>4. Cardinality(on) \in Int /\ Cardinality(enabled) \in Int /\ Cardinality(on \cap enabled) \in Int
  <2>1. IsFiniteSet(on \cap enabled)
    BY <1>1, FS_Intersection
  <2> QED
    BY <1>1, <2>1, FS_CardinalityType
<1>5. logh_enabled' = Cardinality(on) /\ enabled' = on
  <2> DEFINE a == Cardinality(on \ enabled)
             b == Cardinality(enabled \ on)
             x == Cardinality(on)
             y == Cardinality(enabled)
             z == Cardinality(on \cap enabled)
  <2>1. logh_enabled' = y + a - b /\ enabled' = on
    BY DEF SetEnabled, Counted
  <2>2. a = x - z /\ b = y - z /\ x \in Int /\ y \in Int /\ z \in Int
    BY <1>2, <1>3, <1>4
  <2> HIDE DEF a, b, x, y, z
  <2>3. y + a - b = x
    BY <2>2
  <2> QED
    BY <2>1, <2>3 DEF x
<1> QED
  BY <1>5 DEF Counted

\* Only listed handlers are enabled or disabled by kind.
LEMMA ListedAllocated ==
    ASSUME LogInv
    PROVE  HandlersListed \subseteq live /\ live \subseteq Handler /\ \A t : OfType(t) \subseteq live
<1>1. PICK c \in Seq(Handler), R \in SUBSET Handler : LogIs(c, R)
  BY DEF LogInv
<1>2. HandlersListed = Range(c)
  BY <1>1, ListIsChain DEF LogIs
<1>3. HandlersListed \subseteq live /\ live \subseteq Handler
  BY <1>1, <1>2 DEF LogIs, Reached, LogInv, LogTyped
<1> QED
  BY <1>3 DEF OfType

LEMMA OnlyEnabled ==
    ASSUME LogInv, removing = "no",
           UNCHANGED <<links, live, fields, logh_priorities, removing>>,
           NEW on, on \subseteq live, SetEnabled(on)
    PROVE  LogInv'
<1>1. PICK c \in Seq(Handler), R \in SUBSET Handler : LogIs(c, R)
  BY DEF LogInv
<1>2. /\ logh_head' = logh_head /\ next' = next /\ prev' = prev /\ live' = live /\ priority' = priority
      /\ logh_priorities' = logh_priorities /\ removing' = removing
  BY DEF links, fields
<1>3. LogTyped'
  BY <1>2 DEF LogInv, LogTyped
<1>4. Counted'
  BY <1>2, CountKept DEF LogInv, LogTyped
<1>5. HandlersAre(c)'
  BY <1>1, <1>2 DEF LogIs, HandlersAre
<1>6. Reached(R)'
  BY <1>1, <1>2 DEF LogIs, Reached
<1>7. live' = Range(c) => IndexFinds(c)'
  BY <1>1, <1>2 DEF LogIs, IndexFinds
<1>8. LogIs(c, R)'
  BY <1>1, <1>2, <1>5, <1>6, <1>7 DEF LogIs
<1> QED
  BY <1>3, <1>4, <1>8 DEF LogInv

LEMMA RegisterInv ==
    ASSUME LogTyped, Counted, NEW c \in Seq(Handler), NEW R \in SUBSET Handler,
           HandlersAre(c), Reached(R), Range(c) \subseteq R, live = Range(c) => IndexFinds(c),
           NEW h \in Handler, NEW t, NEW p \in Priorities, NEW max, Register(h, t, p, max),
           NEW on, on \subseteq live \cup {h}, SetEnabled(on), removing' = "no"
    PROVE  LogInv'
<1>1. /\ LogTyped'
      /\ \E d \in Seq(Handler), Q \in SUBSET Handler :
             /\ HandlersAre(d)' /\ Reached(Q)' /\ Range(d) \subseteq Q
             /\ live' = Range(d) => IndexFinds(d)'
  BY RegisterKeeps
<1>2. PICK d \in Seq(Handler), Q \in SUBSET Handler :
             /\ HandlersAre(d)' /\ Reached(Q)' /\ Range(d) \subseteq Q
             /\ live' = Range(d) => IndexFinds(d)'
  BY <1>1
<1>3. Counted'
  <2>1. live' = live \cup {h} /\ live \subseteq Handler
    BY DEF Register, LogTyped
  <2> QED
    BY <2>1, CountKept
<1>4. LogIs(d, Q)'
  BY <1>2 DEF LogIs
<1> QED
  BY <1>1, <1>3, <1>4 DEF LogInv

LEMMA RegisterEnables ==
    ASSUME LogInv, removing = "no", removing' = "no",
           NEW h \in Handler, NEW t, NEW p \in Priorities, NEW max, Register(h, t, p, max),
           NEW on, on \subseteq live \cup {h}, SetEnabled(on)
    PROVE  LogInv'
<1>1. PICK c \in Seq(Handler), R \in SUBSET Handler : LogIs(c, R)
  BY DEF LogInv
<1>2. /\ LogTyped /\ Counted /\ HandlersAre(c) /\ Reached(R) /\ Range(c) \subseteq R
      /\ live = Range(c) => IndexFinds(c)
  BY <1>1 DEF LogInv, LogIs
<1> QED
  BY <1>2, RegisterInv

\* What is listed is allocated, whatever the index leads to.
Linked == LogTyped /\ \E c \in Seq(Handler), R \in SUBSET Handler :
                         HandlersAre(c) /\ Reached(R) /\ Range(c) \subseteq R

LEMMA LinkedAllocated == Linked => HandlersListed \subseteq live
<1> SUFFICES ASSUME Linked PROVE HandlersListed \subseteq live
  OBVIOUS
<1>1. PICK c \in Seq(Handler), R \in SUBSET Handler :
             HandlersAre(c) /\ Reached(R) /\ Range(c) \subseteq R
  BY DEF Linked
<1>2. HandlersListed = Range(c)
  BY <1>1, ListIsChain
<1> QED
  BY <1>1, <1>2 DEF Reached

LEMMA LinkedAllocatedNext == Linked' => (HandlersListed \subseteq live)'
BY LinkedAllocated, PTL

\* So it is after a registration, for handlers of each kind.
LEMMA RegisterListed ==
    ASSUME LogInv, NEW h \in Handler, NEW t, NEW p \in Priorities, NEW max, Register(h, t, p, max),
           removing = "no", NEW u
    PROVE  OfType(u)' \subseteq live \cup {h}
<1>1. PICK c \in Seq(Handler), R \in SUBSET Handler : LogIs(c, R)
  BY DEF LogInv
<1>2. /\ LogTyped /\ HandlersAre(c) /\ Reached(R) /\ Range(c) \subseteq R
      /\ live = Range(c) => IndexFinds(c)
  BY <1>1 DEF LogInv, LogIs
<1>3. Linked'
  BY <1>2, RegisterKeeps DEF Linked
<1>4. (HandlersListed \subseteq live)'
  BY <1>3, LinkedAllocatedNext
<1>5. live' = live \cup {h}
  BY DEF Register
<1> QED
  BY <1>4, <1>5 DEF OfType

LEMMA RemoveHeadInv ==
    ASSUME LogInv, RemoveHead
    PROVE  LogInv'
<1>1. PICK c \in Seq(Handler), R \in SUBSET Handler : LogIs(c, R)
  BY DEF LogInv
<1>2. /\ LogTyped /\ Counted /\ HandlersAre(c) /\ Reached(R) /\ Range(c) \subseteq R
      /\ R \subseteq live /\ removing # "no" /\ enabled \cap Range(c) = {}
  BY <1>1 DEF LogInv, LogIs, RemoveHead, Reached
<1> DEFINE h == logh_head
           after == next[h]
           L == Len(c)
           d == RemoveAt(c, 1)
<1>3. L \in Nat /\ DOMAIN c = 1 .. L /\ \A j \in 1 .. L : c[j] \in Handler /\ c[j] \in Range(c) /\ Nth(c, j) = c[j]
  BY LenProperties DEF Range, Nth
<1>4. L # 0 /\ 1 \in 1 .. L /\ h = c[1] /\ h \in Handler
  <2>1. h = Nth(c, 1) /\ h # Null
    BY <1>2 DEF HandlersAre, RemoveHead
  <2>2. 1 \in 1 .. L
    BY <2>1 DEF Nth
  <2> QED
    BY <1>3, <2>1, <2>2
<1>5. prev[h] = Null /\ after = Nth(c, 2)
  <2>1. prev[c[1]] \in {Null, Nth(c, 1 - 1)} /\ next[c[1]] = Nth(c, 1 + 1)
    BY <1>2, <1>4 DEF HandlersAre
  <2>2. 1 - 1 \notin 1 .. L
    OBVIOUS
  <2> QED
    BY <1>4, <2>1, <2>2 DEF Nth
<1>6. /\ d \in Seq(Handler) /\ Len(d) = L - 1
      /\ \A j \in 1 .. L - 1 : d[j] = c[j + 1] /\ j + 1 \in 1 .. L
      /\ Range(d) = Range(c) \ {h} /\ IsInjective(d)
  <2>1. /\ d \in Seq(Handler) /\ Len(d) = L - 1
        /\ \A j \in 1 .. L - 1 : d[j] = IF j < 1 THEN c[j] ELSE c[j + 1]
    BY <1>4, RemoveAtElements
  <2>2. Range(d) = Range(c) \ {c[1]} /\ IsInjective(d)
    <3>1. IsInjective(c)
      BY <1>2 DEF HandlersAre
    <3> QED
      BY <1>4, <3>1, RemoveAtRange
  <2>3. \A j \in 1 .. L - 1 : ~(j < 1) /\ j + 1 \in 1 .. L
    BY <1>3
  <2> HIDE DEF d, L
  <2> QED
    BY <1>4, <2>1, <2>2, <2>3
<1>7. /\ logh_head' = after
      /\ \A k \in Handler : k # h => next'[k] = next[k] /\ priority'[k] = priority[k]
      /\ \A k \in Handler : prev'[k] = IF k = h THEN Null ELSE IF k = after THEN Null ELSE prev[k]
      /\ live' = live \ {h}
      /\ logh_priorities' = Unindexed(h)
      /\ removing' = removing /\ enabled' = enabled /\ logh_enabled' = logh_enabled
  BY <1>2, <1>4, <1>5 DEF RemoveHead, LogTyped
<1>8. LogTyped'
  <2>1. next' = [next EXCEPT ![h] = Null]
    BY <1>5 DEF RemoveHead
  <2>2. next' \in [Handler -> Handler \cup {Null}]
    BY <1>2, <2>1 DEF LogTyped
  <2>3. prev' \in [Handler -> Handler \cup {Null}]
    <3>1. prev' = [k \in Handler |-> IF k = h THEN Null ELSE IF k = after THEN prev[h] ELSE prev[k]]
      BY DEF RemoveHead
    <3>2. \A k \in Handler : prev[k] \in Handler \cup {Null}
      BY <1>2 DEF LogTyped
    <3> HIDE DEF h, after
    <3> QED
      BY <1>5, <3>1, <3>2
  <2>4. priority' \in [Handler -> Priorities]
    <3>1. 0 \in Priorities
      BY LogAssumption DEF Priorities
    <3>2. priority' = [priority EXCEPT ![h] = 0]
      BY DEF RemoveHead
    <3> QED
      BY <1>2, <3>1, <3>2 DEF LogTyped
  <2>5. logh_priorities' \in [Priorities -> Handler \cup {Null}]
    BY <1>2, <1>7 DEF LogTyped, Unindexed
  <2>6. live' \subseteq Handler
    BY <1>2, <1>7 DEF LogTyped
  <2>7. ASSUME NEW k \in Handler \ live' PROVE next'[k] = Null /\ prev'[k] = Null
    <3>1. CASE k = h
      BY <1>2, <1>4, <1>7, <2>1, <3>1 DEF LogTyped
    <3>2. CASE k # h
      <4>1. k \in Handler \ live /\ next[k] = Null /\ prev[k] = Null
        BY <1>2, <1>7, <3>2 DEF LogTyped
      <4> QED
        BY <1>7, <3>2, <4>1
    <3> QED
      BY <3>1, <3>2
  <2> QED
    BY <2>2, <2>3, <2>4, <2>5, <2>6, <2>7 DEF LogTyped
<1>9. Counted'
  <2>1. h \notin enabled
    BY <1>2, <1>3, <1>4
  <2> QED
    BY <1>2, <1>7, <2>1 DEF Counted
<1> HIDE DEF d
<1>10. \A j \in 1 .. L - 1 : d[j] \in Handler /\ d[j] # h /\ Nth(d, j) = d[j]
  <2> SUFFICES ASSUME NEW j \in 1 .. L - 1 PROVE d[j] \in Handler /\ d[j] # h /\ Nth(d, j) = d[j]
    OBVIOUS
  <2>1. DOMAIN d = 1 .. L - 1 /\ d[j] \in Range(d)
    BY <1>6, LenProperties DEF Range
  <2>2. j \in 1 .. Len(d)
    BY <1>6
  <2> QED
    BY <1>3, <1>6, <2>1, <2>2 DEF Nth
<1>11. \A j \in 1 .. L : Nth(d, j) = Nth(c, j + 1)
  <2> SUFFICES ASSUME NEW j \in 1 .. L PROVE Nth(d, j) = Nth(c, j + 1)
    OBVIOUS
  <2>1. CASE j = L
    <3>1. j \notin 1 .. L - 1 /\ j + 1 \notin 1 .. L
      BY <1>3, <2>1
    <3> QED
      BY <1>6, <3>1 DEF Nth
  <2>2. CASE j # L
    <3>1. j \in 1 .. L - 1 /\ j + 1 \in 1 .. L
      <4>1. L \in Nat
        BY <1>3
      <4> HIDE DEF L
      <4> QED
        BY <2>2, <4>1
    <3> QED
      BY <1>3, <1>6, <1>10, <3>1
  <2> QED
    BY <2>1, <2>2
<1>12. \A j \in 1 .. L : /\ next[c[j]] = Nth(c, j + 1)
                         /\ prev[c[j]] \in {Null, Nth(c, j - 1)}
  BY <1>2 DEF HandlersAre
<1>13. \A j \in 1 .. L - 1 : next'[d[j]] = Nth(d, j + 1) /\ next'[d[j]] = next[d[j]]
  <2> SUFFICES ASSUME NEW j \in 1 .. L - 1 PROVE next'[d[j]] = Nth(d, j + 1) /\ next'[d[j]] = next[d[j]]
    OBVIOUS
  <2>1. j + 1 \in 1 .. L
    BY <1>6
  <2>2. next'[d[j]] = next[d[j]]
    BY <1>7, <1>10
  <2>3. next[c[j + 1]] = Nth(c, (j + 1) + 1)
    BY <1>12, <2>1
  <2>4. Nth(d, j + 1) = Nth(c, (j + 1) + 1)
    BY <1>11, <2>1
  <2>5. d[j] = c[j + 1]
    BY <1>6
  <2> QED
    BY <2>2, <2>3, <2>4, <2>5
<1>14. \A j \in 1 .. L - 1 : prev'[d[j]] \in {Null, Nth(d, j - 1)}
  <2> SUFFICES ASSUME NEW j \in 1 .. L - 1, prev'[d[j]] # Null PROVE prev'[d[j]] = Nth(d, j - 1)
    OBVIOUS
  <2>1. d[j] # after /\ prev'[d[j]] = prev[d[j]]
    BY <1>7, <1>10
  <2>2. d[j] = c[j + 1] /\ j + 1 \in 1 .. L /\ (j + 1) - 1 = j
    BY <1>6
  <2>3. prev'[d[j]] = Nth(c, j)
    BY <1>12, <2>1, <2>2
  <2>4. j # 1
    BY <1>3, <1>5, <2>1, <2>2
  <2>5. j - 1 \in 1 .. L /\ (j - 1) + 1 = j
    BY <1>3, <2>4
  <2> QED
    BY <1>11, <2>3, <2>5
<1>15. \A i, j \in 1 .. L - 1 : i <= j => priority'[d[i]] <= priority'[d[j]]
  <2> SUFFICES ASSUME NEW i \in 1 .. L - 1, NEW j \in 1 .. L - 1, i <= j
               PROVE  priority'[d[i]] <= priority'[d[j]]
    OBVIOUS
  <2>1. i + 1 \in 1 .. L /\ j + 1 \in 1 .. L /\ i + 1 <= j + 1
    BY <1>6
  <2>2. priority[c[i + 1]] <= priority[c[j + 1]]
    BY <1>2, <2>1 DEF HandlersAre
  <2>3. d[i] = c[i + 1] /\ d[j] = c[j + 1]
    BY <1>6
  <2>4. priority'[d[i]] = priority[d[i]] /\ priority'[d[j]] = priority[d[j]]
    BY <1>7, <1>10
  <2> QED
    BY <2>2, <2>3, <2>4
<1>16. logh_head' = Nth(d, 1)
  BY <1>4, <1>5, <1>7, <1>11
<1> HIDE DEF L, after
<1>17. HandlersAre(d)'
  BY <1>6, <1>13, <1>14, <1>15, <1>16 DEF HandlersAre
<1>18. \A k \in R : k \in Handler /\ priority[k] \in Nat
  BY <1>2, LogAssumption DEF LogTyped, Reached, Priorities
<1>19. h \in Range(c) /\ priority[h] \in Nat
  BY <1>2, <1>3, <1>4, <1>18
<1>0. PICK Q : Q = Range(d) \cup {k \in R : priority[k] > priority[h]}
  OBVIOUS
<1>20. \A k \in Q : k \in R /\ k # h
  <2>1. \A k \in R : priority[k] > priority[h] => k # h
    BY <1>18, <1>19
  <2> QED
    BY <1>0, <1>2, <1>6, <2>1
<1>21. Reached(Q)'
  <2>1. Q \subseteq live'
    BY <1>2, <1>7, <1>20
  <2>2. ASSUME NEW k \in Q PROVE /\ next'[k] \in Q \cup {Null}
                                 /\ next'[k] # Null => priority'[k] <= priority'[next'[k]]
    <3>1. k \in R /\ k # h /\ next'[k] = next[k] /\ priority'[k] = priority[k]
      BY <1>7, <1>18, <1>20
    <3>2. /\ next[k] \in R \cup {Null}
          /\ next[k] # Null => priority[k] <= priority[next[k]]
      BY <1>2, <3>1 DEF Reached
    <3>3. next'[k] \in Q \cup {Null}
      <4>1. CASE k \in Range(d)
        <5>1. DOMAIN d = 1 .. L - 1
          BY <1>6, LenProperties
        <5>2. PICK j \in 1 .. L - 1 : k = d[j]
          BY <4>1, <5>1 DEF Range
        <5>3. next'[k] = Nth(d, j + 1)
          BY <1>13, <5>2
        <5>4. Nth(d, j + 1) \in Range(d) \cup {Null}
          BY <1>6, <5>1 DEF Nth, Range
        <5> QED
          BY <1>0, <5>3, <5>4
      <4>2. CASE k \notin Range(d)
        <5>1. priority[k] > priority[h]
          BY <1>0, <4>2
        <5>2. next[k] # Null => priority[next[k]] > priority[h]
          BY <1>18, <1>19, <3>1, <3>2, <5>1
        <5> QED
          BY <1>0, <3>1, <3>2, <5>2
      <4> QED
        BY <4>1, <4>2
    <3>4. next'[k] # Null => next'[k] \in Handler /\ next'[k] # h
      BY <1>18, <1>20, <3>3
    <3> QED
      BY <1>7, <3>1, <3>2, <3>3, <3>4
  <2>3. ASSUME NEW q \in Priorities, logh_priorities'[q] # Null
        PROVE  logh_priorities'[q] \in Q /\ q <= priority'[logh_priorities'[q]]
    <3> DEFINE f == logh_priorities[q]
    <3>1. ~(q <= priority[h]) /\ logh_priorities'[q] = f
      BY <1>7, <2>3 DEF Unindexed
    <3>2. f \in R /\ q <= priority[f]
      BY <1>2, <2>3, <3>1 DEF Reached
    <3>3. q \in Nat
      BY LogAssumption DEF Priorities
    <3> HIDE DEF f
    <3>4. priority[f] > priority[h]
      BY <1>18, <1>19, <3>1, <3>2, <3>3
    <3>5. f \in Q /\ f \in Handler /\ f # h
      BY <1>0, <1>18, <1>20, <3>2, <3>4
    <3>6. priority'[f] = priority[f]
      BY <1>7, <3>5
    <3> QED
      BY <3>1, <3>2, <3>5, <3>6
  <2> QED
    BY <2>1, <2>2, <2>3 DEF Reached
<1>22. Range(d) \subseteq Q /\ Q \in SUBSET Handler
  BY <1>0, <1>18, <1>20
<1>23. LogIs(d, Q)'
  <2>1. removing' # "no" /\ enabled' \cap Range(d) = {}
    BY <1>2, <1>6, <1>7
  <2> QED
    BY <1>17, <1>21, <1>22, <2>1 DEF LogIs
<1> QED
  BY <1>6, <1>8, <1>9, <1>22, <1>23 DEF LogInv

-----------------------------------------------------------------------------
(* Every step                                                               *)

LEMMA LogInitInv == LogInit => LogInv
<1> SUFFICES ASSUME LogInit PROVE LogInv
  OBVIOUS
<1>1. LogTyped
  <2>1. 0 \in Priorities
    BY LogAssumption DEF Priorities
  <2> QED
    BY <2>1 DEF LogInit, LogTyped
<1>2. Counted
  BY FS_EmptySet DEF LogInit, Counted
<1> DEFINE c == <<>>
<1>3. c \in Seq(Handler) /\ Len(c) = 0 /\ Range(c) = {}
  BY DEF Range
<1> HIDE DEF c
<1>4. HandlersAre(c)
  <2>1. IsInjective(c)
    BY DEF IsInjective, c
  <2>2. logh_head = Nth(c, 1)
    BY <1>3 DEF Nth, LogInit
  <2>3. 1 .. Len(c) = {}
    BY <1>3
  <2> QED
    BY <1>3, <2>1, <2>2, <2>3 DEF HandlersAre
<1>5. Reached({})
  BY DEF Reached, LogInit
<1>6. IndexFinds(c)
  <2>1. 1 .. Len(c) = {}
    BY <1>3
  <2> QED
    BY <2>1 DEF IndexFinds
<1>7. LogIs(c, {})
  BY <1>3, <1>4, <1>5, <1>6 DEF LogIs, LogInit
<1> QED
  BY <1>1, <1>2, <1>3, <1>7 DEF LogInv

LEMMA LogNextInv == LogInv /\ [LogNext]_logVars => LogInv'
<1> SUFFICES ASSUME LogInv, [LogNext]_logVars PROVE LogInv'
  OBVIOUS
<1>0. HandlersListed \subseteq live /\ live \subseteq Handler /\ enabled \subseteq live
      /\ \A t : OfType(t) \subseteq live
  BY ListedAllocated DEF LogInv, Counted
<1>1. CASE LogToStderr
  <2>1. PICK h \in Handler, p \in Priorities, max \in Priorities :
             /\ removing = "no" /\ removing' = removing
             /\ Register(h, "stderr", p, max) /\ SetEnabled(enabled \cup {h})
    BY <1>1 DEF LogToStderr
  <2>2. enabled \cup {h} \subseteq live \cup {h}
    BY <1>0
  <2> QED
    BY <2>1, <2>2, RegisterEnables
<1>2. CASE LogToFile
  <2>1. PICK h \in Handler, p \in Priorities, max \in Priorities :
             /\ removing = "no" /\ removing' = removing
             /\ Register(h, "file", p, max) /\ SetEnabled(enabled \cup {h})
    BY <1>2 DEF LogToFile
  <2>2. enabled \cup {h} \subseteq live \cup {h}
    BY <1>0
  <2> QED
    BY <2>1, <2>2, RegisterEnables
<1>3. CASE LogToSyslog
  <2>1. PICK opens \in BOOLEAN :
          /\ removing = "no" /\ removing' = removing
          /\ \/ \E h \in Handler, p \in Priorities, max \in Priorities :
                  /\ Register(h, "syslog", p, max)
                  /\ \/ SetEnabled(AfterOpenLog(OfType("syslog")', opens))
                     \/ SetEnabled(enabled \cup {h})
             \/ /\ SetEnabled(AfterOpenLog(OfType("syslog"), opens))
                /\ UNCHANGED <<links, live, fields, logh_priorities>>
    BY <1>3 DEF LogToSyslog
  <2>2. ASSUME NEW h \in Handler, NEW p \in Priorities, NEW max \in Priorities,
               Register(h, "syslog", p, max),
               \/ SetEnabled(AfterOpenLog(OfType("syslog")', opens))
               \/ SetEnabled(enabled \cup {h})
        PROVE  LogInv'
    <3> DEFINE Syslogs == OfType("syslog")'
    <3>1. Syslogs \subseteq live \cup {h}
      BY <2>1, <2>2, RegisterListed
    <3> HIDE DEF Syslogs
    <3>2. AfterOpenLog(Syslogs, opens) \subseteq live \cup {h} /\ enabled \cup {h} \subseteq live \cup {h}
      BY <1>0, <3>1 DEF AfterOpenLog
    <3>3. PICK on : on \subseteq live \cup {h} /\ SetEnabled(on)
      BY <2>2, <3>2 DEF Syslogs
    <3> QED
      BY <2>1, <2>2, <3>3, RegisterEnables
  <2>3. CASE /\ SetEnabled(AfterOpenLog(OfType("syslog"), opens))
             /\ UNCHANGED <<links, live, fields, logh_priorities>>
    <3>1. AfterOpenLog(OfType("syslog"), opens) \subseteq live
      BY <1>0 DEF AfterOpenLog
    <3> QED
      BY <2>1, <2>3, <3>1, OnlyEnabled
  <2> QED
    BY <2>1, <2>2, <2>3
<1>4. CASE EnableType
  <2>1. CASE /\ removing = "no" /\ SetEnabled(enabled \cup OfType("stderr"))
             /\ UNCHANGED <<links, live, fields, logh_priorities, open, removing>>
    <3>1. enabled \cup OfType("stderr") \subseteq live
      BY <1>0
    <3> QED
      BY <2>1, <3>1, OnlyEnabled
  <2>2. CASE \E asked \in {OfType("file")} \cup {{h} : h \in OfType("file")} : \E can \in SUBSET asked :
               /\ removing = "no" /\ SetEnabled(enabled \cup can)
               /\ UNCHANGED <<links, live, fields, logh_priorities, removing>>
    <3>1. PICK asked \in {OfType("file")} \cup {{h} : h \in OfType("file")} : \E can \in SUBSET asked :
               /\ removing = "no" /\ SetEnabled(enabled \cup can)
               /\ UNCHANGED <<links, live, fields, logh_priorities, removing>>
      BY <2>2
    <3>2. PICK can \in SUBSET asked :
               /\ removing = "no" /\ SetEnabled(enabled \cup can)
               /\ UNCHANGED <<links, live, fields, logh_priorities, removing>>
      BY <3>1
    <3>3. enabled \cup can \subseteq live
      BY <1>0
    <3> QED
      BY <3>2, <3>3, OnlyEnabled
  <2> QED
    BY <1>4, <2>1, <2>2 DEF EnableType
<1>5. CASE DisableType
  <2>1. PICK t \in Type : /\ removing = "no" /\ SetEnabled(enabled \ OfType(t))
                          /\ UNCHANGED <<links, live, fields, logh_priorities, removing>>
    BY <1>5 DEF DisableType
  <2>2. enabled \ OfType(t) \subseteq live
    BY <1>0
  <2> QED
    BY <2>1, <2>2, OnlyEnabled
<1>6. CASE Toggle
  <2>1. PICK h \in HandlersListed :
             /\ removing = "no"
             /\ SetEnabled(IF h \in enabled THEN enabled \ {h} ELSE enabled \cup {h})
             /\ UNCHANGED <<links, live, fields, logh_priorities, open, removing>>
    BY <1>6 DEF Toggle
  <2> DEFINE on == IF h \in enabled THEN enabled \ {h} ELSE enabled \cup {h}
  <2>2. on \subseteq live
    BY <1>0
  <2> HIDE DEF on
  <2>3. /\ removing = "no" /\ SetEnabled(on)
        /\ UNCHANGED <<links, live, fields, logh_priorities, removing>>
    BY <2>1 DEF on
  <2> QED
    BY <2>2, <2>3, OnlyEnabled
<1>7. CASE Log
  <2>1. /\ removing = "no"
        /\ UNCHANGED <<links, live, fields, logh_priorities, enabled, logh_enabled, removing>>
    BY <1>7 DEF Log
  <2>2. SetEnabled(enabled)
    <3>1. enabled \ enabled = {} /\ Cardinality({}) = 0
      BY FS_EmptySet
    <3>2. logh_enabled \in Int
      <4>1. IsFiniteSet(enabled)
        BY <1>0, LogAssumption, FS_Subset
      <4> QED
        BY <4>1, FS_CardinalityType DEF LogInv, Counted
    <3>3. logh_enabled' = logh_enabled + 0 - 0
      BY <2>1, <3>2
    <3> QED
      BY <2>1, <3>1, <3>3 DEF SetEnabled
  <2> QED
    BY <1>0, <2>1, <2>2, OnlyEnabled
<1>8. CASE RestartLog
  <2> DEFINE S == OfType("syslog")
  <2>1. /\ removing = "no" /\ UNCHANGED <<links, live, fields, logh_priorities, removing>>
        /\ \E on : on \subseteq enabled \cup S /\ SetEnabled(on)
    BY <1>8 DEF RestartLog, AfterOpenLog
  <2>2. PICK on : on \subseteq enabled \cup S /\ SetEnabled(on)
    BY <2>1
  <2>3. on \subseteq live
    BY <1>0, <2>2
  <2> QED
    BY <2>1, <2>2, <2>3, OnlyEnabled
<1>9. CASE RemoveAll
  <2>1. PICK why \in {"shutdown", "none"} :
          /\ removing = "no" /\ removing' = why /\ SetEnabled(enabled \ HandlersListed)
          /\ UNCHANGED <<links, live, fields, logh_priorities>>
    BY <1>9 DEF RemoveAll, DisableLog
  <2>2. PICK c \in Seq(Handler), R \in SUBSET Handler : LogIs(c, R)
    BY DEF LogInv
  <2>3. /\ logh_head' = logh_head /\ next' = next /\ prev' = prev /\ live' = live /\ priority' = priority
        /\ logh_priorities' = logh_priorities /\ removing' # "no"
    BY <2>1 DEF links, fields
  <2>4. LogTyped'
    BY <2>3 DEF LogInv, LogTyped
  <2>5. Counted'
    <3>1. enabled \ HandlersListed \subseteq live'
      BY <1>0, <2>3
    <3> QED
      BY <1>0, <2>1, <2>3, <3>1, CountKept DEF LogInv
  <2>6. HandlersAre(c)' /\ Reached(R)' /\ Range(c) \subseteq R
    BY <2>2, <2>3 DEF LogIs, HandlersAre, Reached
  <2>7. enabled' \cap Range(c) = {}
    <3>1. HandlersListed = Range(c)
      BY <2>2, ListIsChain DEF LogIs
    <3> QED
      BY <2>1, <3>1 DEF SetEnabled
  <2>8. LogIs(c, R)'
    BY <2>3, <2>6, <2>7 DEF LogIs
  <2> QED
    BY <2>4, <2>5, <2>8 DEF LogInv
<1>10. CASE RemoveHead
  BY <1>10, RemoveHeadInv
<1>11. CASE AllRemoved
  <2>1. PICK c \in Seq(Handler), R \in SUBSET Handler : LogIs(c, R)
    BY DEF LogInv
  <2>2. logh_head = Null /\ removing' = "no"
    BY <1>11 DEF AllRemoved
  <2>3. Len(c) = 0 /\ 1 .. Len(c) = {}
    <3>1. Len(c) \in Nat /\ \A j \in 1 .. Len(c) : c[j] # Null
      BY LenProperties, LogAssumption
    <3>2. Nth(c, 1) = Null
      BY <2>1, <2>2 DEF LogIs, HandlersAre
    <3>3. 1 \notin 1 .. Len(c)
      BY <3>1, <3>2 DEF Nth
    <3> QED
      BY <3>1, <3>3
  <2>4. LogTyped /\ Counted /\ HandlersAre(c) /\ Reached(R) /\ Range(c) \subseteq R /\ IndexFinds(c)
    BY <2>1, <2>3 DEF LogInv, LogIs, IndexFinds
  <2>5. CASE UNCHANGED <<links, live, fields, logh_priorities, enabled, logh_enabled>>
    <3>1. /\ logh_head' = logh_head /\ next' = next /\ prev' = prev /\ live' = live /\ priority' = priority
          /\ logh_priorities' = logh_priorities /\ enabled' = enabled /\ logh_enabled' = logh_enabled
      BY <2>5 DEF links, fields
    <3>2. LogTyped' /\ Counted'
      BY <2>4, <3>1 DEF LogTyped, Counted
    <3>3. HandlersAre(c)'
      BY <2>4, <3>1 DEF HandlersAre
    <3>4. Reached(R)'
      BY <2>4, <3>1 DEF Reached
    <3>5. IndexFinds(c)'
      BY <2>3 DEF IndexFinds
    <3>6. LogIs(c, R)'
      BY <2>2, <2>4, <3>3, <3>4, <3>5 DEF LogIs
    <3> QED
      BY <3>2, <3>6 DEF LogInv
  <2>6. CASE \E h \in Handler, p \in Priorities, max \in Priorities :
               /\ Register(h, "none", p, max) /\ SetEnabled(enabled \cup {h})
    <3>1. PICK h \in Handler, p \in Priorities, max \in Priorities :
               /\ Register(h, "none", p, max) /\ SetEnabled(enabled \cup {h})
      BY <2>6
    <3>2. enabled \cup {h} \subseteq live \cup {h}
      BY <1>0
    <3> QED
      BY <2>2, <2>4, <3>1, <3>2, RegisterInv
  <2> QED
    BY <1>11, <2>5, <2>6 DEF AllRemoved
<1>12. CASE UNCHANGED logVars
  <2>1. PICK c \in Seq(Handler), R \in SUBSET Handler : LogIs(c, R)
    BY DEF LogInv
  <2>2. /\ logh_head' = logh_head /\ next' = next /\ prev' = prev /\ live' = live /\ priority' = priority
        /\ logh_priorities' = logh_priorities /\ enabled' = enabled /\ logh_enabled' = logh_enabled
        /\ removing' = removing
    BY <1>12 DEF logVars, links, fields
  <2>3. LogTyped' /\ Counted'
    BY <2>2 DEF LogInv, LogTyped, Counted
  <2>4. HandlersAre(c)' /\ Reached(R)' /\ (IndexFinds(c) => IndexFinds(c)')
    BY <2>1, <2>2 DEF LogIs, HandlersAre, Reached, IndexFinds
  <2>5. LogIs(c, R)'
    BY <2>1, <2>2, <2>4 DEF LogIs
  <2> QED
    BY <2>3, <2>5 DEF LogInv
<1> QED
  BY <1>1, <1>2, <1>3, <1>4, <1>5, <1>6, <1>7, <1>8, <1>9, <1>10, <1>11, <1>12 DEF LogNext

\* The invariant that the properties of the log handlers follow from.
THEOREM LogInvariance == LogSpec => []LogInv
BY LogInitInv, LogNextInv, PTL DEF LogSpec

\* However many handlers are registered, with whatever priorities, and lost and
\* removed in whatever order: list and index reach allocated handlers only, in order
\* of priority, miss nobody as long as nobody is lost, and the count is exact.
THEOREM HandlersAlwaysSound == LogSpec => []HandlersSound
BY LogInvariance, SoundByInvariant, PTL

=============================================================================
