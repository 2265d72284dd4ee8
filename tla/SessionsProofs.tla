--------------------------- MODULE SessionsProofs ---------------------------
(***************************************************************************)
(* Proofs about Sessions: the three loops over the list of all sessions    *)
(* are safe and miss nobody, however many sessions there are and whatever  *)
(* is opened, closed and sent from inside the callbacks.                   *)
(*                                                                         *)
(* The argument is about the list as a sequence c, which the invariant     *)
(* says exists, and about the position p of the loop in it.  Opening puts  *)
(* a session in front of p, closing takes one away on either side, so what *)
(* is behind p is what the loop has yet to visit.  A callback that closes  *)
(* the one at p takes the place away, and only the list is still right.    *)
(***************************************************************************)
EXTENDS Sessions, SequenceLemmas

Kinds == {"datagram", "stream", "listen"}
Rounds == {"none", "info", "single", "select", "read", "timeout"}

\* The types of everything that is not the list.
SessionsTyped ==
    /\ next \in [Session -> Session \cup {Null}]
    /\ sock \in [Session -> Fd \cup {NoFd}]
    /\ kind \in [Session -> Kinds]
    /\ left \in [Session -> 0 .. Never]
    /\ round \in Rounds
    /\ calling \in {"no", "yes", "ended"}
    /\ fdset \subseteq Fd
    /\ wait \in 0 .. Never

\* Entry i of a list, or the end.
Entry(c, i) == IF i \in 1 .. Len(c) THEN c[i] ELSE Null

\* The pointers link the entries of c in order, and c is what is allocated.
ListIs(c) == /\ c \in Seq(Session) /\ IsInjective(c)
             /\ head = Entry(c, 1)
             /\ \A i \in 1 .. Len(c) : next[c[i]] = Entry(c, i + 1)
             /\ live = Range(c)

\* The first position the loop has yet to visit; slp is visited while its callback runs.
From(p) == IF calling = "no" \/ round = "info" THEN p ELSE p + 1

\* In snmp_read2, what is behind is set in fdset exactly if it was reported.
ReadIs(c, p) ==
    IF round = "read"
    THEN /\ \A s \in reported : \E i \in 1 .. Len(c) : i >= From(p) /\ s = c[i]
         /\ \A i \in 1 .. Len(c) : i >= From(p) => (c[i] \in reported <=> IsSet(c[i]))
    ELSE reported = {}

\* The loop that computes the timeout has taken into account what is in front of it.
WaitIs(c, p) == round \in {"info", "select"} =>
    \A i \in 1 .. Len(c) : i < p /\ c[i] \notin late => wait <= left[c[i]]

\* The loop stands at p, at the end outside of the loops.
LoopIs(c, p) ==
    /\ slp = Entry(c, p)
    /\ p \in 1 .. Len(c) + 1
    /\ round \in {"none", "single", "select"} => calling = "no" /\ p = Len(c) + 1
    /\ calling # "no" /\ round # "info" => p \in 1 .. Len(c)
    /\ calling = "ended" => round = "read"
    /\ ReadIs(c, p)
    /\ WaitIs(c, p)

OnCourse == /\ SessionsTyped
            /\ \E c \in Seq(Session), p \in Nat : ListIs(c) /\ LoopIs(c, p)

\* What is left when a callback has closed what the loop goes on with.
Astray == /\ \E c \in Seq(Session) : ListIs(c)
          /\ slp # Null /\ calling # "no" /\ round \in {"info", "read", "timeout"}

SessionsInv == stray \in BOOLEAN /\ IF stray THEN Astray ELSE OnCourse

-----------------------------------------------------------------------------
(* The list                                                                 *)

\* Chain, which follows the pointers, finds the entries of the list.
LEMMA ListedIs ==
    ASSUME NEW c, ListIs(c)
    PROVE  Listed = Range(c)
<1> DEFINE N == Cardinality(Session)
           L == Len(c)
           Upto(k) == [i \in 1 .. (IF k <= L THEN k ELSE L) |-> c[i]]
<1>1. /\ c \in Seq(Session) /\ L \in Nat /\ L = Len(c) /\ DOMAIN c = 1 .. L
      /\ \A i \in 1 .. L : c[i] \in Session /\ c[i] # Null
  BY LenProperties, SessionsAssumption DEF ListIs
<1>2. N \in Nat /\ L <= N
  <2>1. IsFiniteSet(Session)
    BY SessionsAssumption
  <2>2. Range(c) \subseteq Session
    BY <1>1 DEF Range
  <2>3. Cardinality(Range(c)) = L
    BY <1>1, InjectiveCount DEF ListIs
  <2> QED
    BY <2>1, <2>2, <2>3, FS_Subset, FS_CardinalityType
<1> HIDE DEF L
<1>3. ASSUME NEW k \in Nat
      PROVE  /\ Upto(k) \in Seq(Session)
             /\ Len(Upto(k)) = IF k <= L THEN k ELSE L
             /\ \A i \in 1 .. Len(Upto(k)) : Upto(k)[i] = c[i]
             /\ k >= L => Upto(k) = c
  <2> DEFINE m == IF k <= L THEN k ELSE L
             u == Upto(k)
  <2> HIDE DEF u
  <2>1. m \in Nat /\ m <= L /\ (k >= L => m = L)
    BY <1>1
  <2>2. \A i \in 1 .. m : i \in 1 .. L
    BY <1>1, <2>1
  <2>3. u \in [1 .. m -> Session]
    BY <1>1, <2>2 DEF u
  <2>4. u \in Seq(Session) /\ Len(u) = m
    BY <2>1, <2>3, LenProperties
  <2>5. \A i \in 1 .. m : u[i] = c[i]
    BY DEF u
  <2>6. k >= L => u = [i \in 1 .. L |-> c[i]]
    BY <2>1 DEF u
  <2>7. c = [i \in 1 .. L |-> c[i]]
    BY <1>1
  <2> HIDE DEF m
  <2> QED
    BY <2>4, <2>5, <2>6, <2>7 DEF m, u
\* Entry k + 1 is found through entry k.
<1>4. ASSUME NEW k \in Nat \ {0}
      PROVE  Upto(k + 1) = IF Len(Upto(k)) < k \/ next[Upto(k)[k]] = Null THEN Upto(k)
                           ELSE Append(Upto(k), next[Upto(k)[k]])
  <2> DEFINE u == Upto(k)
             v == Upto(k + 1)
  <2>1. /\ u \in Seq(Session) /\ Len(u) = (IF k <= L THEN k ELSE L)
        /\ \A i \in 1 .. Len(u) : u[i] = c[i]
        /\ (k >= L => u = c)
    BY <1>3
  <2>2. /\ v \in Seq(Session) /\ Len(v) = (IF k + 1 <= L THEN k + 1 ELSE L)
        /\ \A i \in 1 .. Len(v) : v[i] = c[i]
        /\ (k + 1 >= L => v = c)
    <3>1. k + 1 \in Nat
      OBVIOUS
    <3> QED
      BY <1>3, <3>1
  <2> HIDE DEF u, v
  <2>3. CASE k > L
    <3>1. Len(u) < k /\ u = c /\ v = c
      BY <1>1, <2>1, <2>2, <2>3
    <3> QED
      BY <3>1 DEF u, v
  <2>4. CASE k = L
    <3>1. u = c /\ v = c
      BY <1>1, <2>1, <2>2, <2>4
    <3>2. next[c[k]] = Null
      BY <1>1, <2>4 DEF ListIs, Entry, L
    <3> QED
      BY <3>1, <3>2 DEF u, v
  <2>5. CASE k < L
    <3>1. /\ k \in 1 .. L /\ k + 1 \in 1 .. L
          /\ ~(Len(u) < k) /\ Len(u) = k /\ Len(v) = k + 1 /\ k \in 1 .. Len(u)
      <4>1. L \in Nat /\ k \in Nat \ {0} /\ k <= L /\ k + 1 <= L
        BY <1>1, <2>5
      <4> QED
        BY <2>1, <2>2, <4>1
    <3>2. u[k] = c[k] /\ next[c[k]] = c[k + 1] /\ c[k + 1] # Null /\ c[k + 1] \in Session
      BY <1>1, <2>1, <3>1 DEF ListIs, Entry, L
    <3> DEFINE w == Append(u, c[k + 1])
    <3>3. /\ w \in Seq(Session) /\ Len(w) = k + 1
          /\ \A i \in 1 .. k : w[i] = u[i]
          /\ w[k + 1] = c[k + 1]
      BY <2>1, <3>1, <3>2, AppendProperties
    <3> HIDE DEF w
    <3>4. v = w
      <4>1. \A i \in 1 .. k + 1 : v[i] = c[i]
        BY <2>2, <3>1
      <4>2. \A i \in 1 .. k + 1 : i \in 1 .. k \/ i = k + 1
        OBVIOUS
      <4>3. \A i \in 1 .. k + 1 : w[i] = c[i]
        BY <2>1, <3>1, <3>3, <4>2
      <4>4. v = [i \in 1 .. k + 1 |-> v[i]] /\ w = [i \in 1 .. k + 1 |-> w[i]]
        BY <2>2, <3>1, <3>3
      <4> QED
        BY <4>1, <4>3, <4>4
    <3> QED
      BY <3>1, <3>2, <3>4 DEF u, v, w
  <2>6. k > L \/ k = L \/ k < L
    BY <1>1
  <2> QED
    BY <2>3, <2>4, <2>5, <2>6
<1>5. Upto(1) = IF head = Null THEN <<>> ELSE <<head>>
  <2> DEFINE u == Upto(1)
  <2>1. /\ u \in Seq(Session) /\ Len(u) = (IF 1 <= L THEN 1 ELSE L)
        /\ \A i \in 1 .. Len(u) : u[i] = c[i]
    BY <1>3
  <2> HIDE DEF u
  <2>2. CASE L = 0
    <3>1. head = Null /\ Len(u) = 0
      BY <2>1, <2>2 DEF ListIs, Entry, L
    <3>2. u = <<>>
      BY <2>1, <3>1
    <3> QED
      BY <3>1, <3>2 DEF u
  <2>3. CASE L # 0
    <3>1. 1 \in 1 .. L /\ Len(u) = 1 /\ head = c[1] /\ head # Null
      BY <1>1, <2>1, <2>3 DEF ListIs, Entry, L
    <3>2. u[1] = head
      BY <2>1, <3>1
    <3>3. u = <<head>>
      BY <2>1, <3>1, <3>2
    <3> QED
      BY <3>1, <3>3 DEF u
  <2> QED
    BY <2>2, <2>3
<1> DEFINE go[j \in 0 .. N] ==
               IF j = 0 THEN IF head = Null THEN <<>> ELSE <<head>>
               ELSE LET w == go[j - 1]
                    IN  IF Len(w) < j \/ next[w[j]] = Null THEN w
                        ELSE Append(w, next[w[j]])
<1> HIDE DEF Upto
<1>6. /\ go[0] = Upto(1)
      /\ \A j \in 1 .. N : go[j] = IF Len(go[j - 1]) < j \/ next[go[j - 1][j]] = Null THEN go[j - 1]
                                   ELSE Append(go[j - 1], next[go[j - 1][j]])
  <2> DEFINE Eqn(g) == [j \in 0 .. N |->
                  IF j = 0 THEN IF head = Null THEN <<>> ELSE <<head>>
                  ELSE LET w == g[j - 1]
                       IN  IF Len(w) < j \/ next[w[j]] = Null THEN w
                           ELSE Append(w, next[w[j]])]
             f == [j \in 0 .. N |-> Upto(j + 1)]
  <2>1. f = Eqn(f)
    <3> SUFFICES ASSUME NEW j \in 0 .. N PROVE f[j] = Eqn(f)[j]
      BY Zenon
    <3>1. CASE j = 0
      BY <1>5, <3>1
    <3>2. CASE j # 0
      <4>1. j \in Nat \ {0} /\ j - 1 \in 0 .. N /\ (j - 1) + 1 = j
        BY <1>2, <3>2
      <4>2. f[j - 1] = Upto(j) /\ f[j] = Upto(j + 1)
        BY <4>1
      <4>3. Eqn(f)[j] = IF Len(f[j - 1]) < j \/ next[f[j - 1][j]] = Null THEN f[j - 1]
                        ELSE Append(f[j - 1], next[f[j - 1][j]])
        BY <3>2
      <4> HIDE DEF f, Eqn
      <4> QED
        BY <1>4, <4>1, <4>2, <4>3
    <3> QED
      BY <3>1, <3>2
  <2>2. go = Eqn(go)
    BY <2>1
  <2> HIDE DEF go
  <2>3. go[0] = IF head = Null THEN <<>> ELSE <<head>>
    BY <1>2, <2>2
  <2>4. ASSUME NEW j \in 1 .. N
        PROVE  go[j] = IF Len(go[j - 1]) < j \/ next[go[j - 1][j]] = Null THEN go[j - 1]
                       ELSE Append(go[j - 1], next[go[j - 1][j]])
    <3>1. j \in 0 .. N /\ j # 0
      BY <1>2
    <3>2. go[j] = Eqn(go)[j]
      BY <2>2
    <3> QED
      BY <3>1, <3>2
  <2> QED
    BY <1>5, <2>3, <2>4
<1>7. Chain(head) = go[N]
  BY DEF Chain
<1> HIDE DEF go
<1>8. go[N] = Upto(N + 1)
  <2> DEFINE T == {j \in Nat : j <= N => go[j] = Upto(j + 1)}
  <2>1. 0 \in T
    BY <1>6
  <2>2. ASSUME NEW j \in Nat, j \in T PROVE j + 1 \in T
    <3> SUFFICES ASSUME j + 1 <= N PROVE go[j + 1] = Upto((j + 1) + 1)
      OBVIOUS
    <3>1. j + 1 \in 1 .. N /\ (j + 1) - 1 = j /\ j + 1 \in Nat \ {0} /\ go[j] = Upto(j + 1)
      BY <1>2, <2>2
    <3>2. go[j + 1] = IF Len(go[j]) < j + 1 \/ next[go[j][j + 1]] = Null THEN go[j]
                      ELSE Append(go[j], next[go[j][j + 1]])
      BY <1>6, <3>1
    <3> QED
      BY <1>4, <3>1, <3>2
  <2> HIDE DEF T
  <2>3. N \in T
    BY <1>2, <2>1, <2>2, SetInduction
  <2> QED
    BY <1>2, <2>3 DEF T
<1>9. Chain(head) = c
  <2>1. N + 1 \in Nat /\ N + 1 >= L
    BY <1>1, <1>2
  <2>2. Upto(N + 1) = c
    BY <1>3, <2>1 DEF Upto
  <2> QED
    BY <1>7, <1>8, <2>2
<1> QED
  BY <1>9 DEF Listed, ToSet, Range

\* Every entry is on the list, none twice, and none is the end of it.
LEMMA ListFacts ==
    ASSUME NEW c, ListIs(c)
    PROVE  /\ c \in Seq(Session) /\ Len(c) \in Nat /\ DOMAIN c = 1 .. Len(c)
           /\ \A i \in 1 .. Len(c) : c[i] \in Session /\ c[i] \in live /\ c[i] # Null
           /\ \A s \in live : \E i \in 1 .. Len(c) : s = c[i]
           /\ \A i, j \in 1 .. Len(c) : c[i] = c[j] => i = j
           /\ live \subseteq Session
  BY LenProperties, SessionsAssumption DEF ListIs, Range, IsInjective

LEMMA PushList ==
    ASSUME SessionsTyped, NEW c, ListIs(c),
           NEW n \in Session, n \notin live, Push(n), live' = live \cup {n}
    PROVE  /\ InsertAt(c, 1, n) \in Seq(Session)
           /\ Len(InsertAt(c, 1, n)) = Len(c) + 1
           /\ \A i \in 1 .. Len(c) + 1 : InsertAt(c, 1, n)[i] = IF i = 1 THEN n ELSE c[i - 1]
           /\ ListIs(InsertAt(c, 1, n))'
<1> DEFINE d == InsertAt(c, 1, n)
           L == Len(c)
<1>1. /\ c \in Seq(Session) /\ L \in Nat /\ DOMAIN c = 1 .. L /\ L = Len(c)
      /\ \A i \in 1 .. L : c[i] \in Session /\ c[i] \in live /\ c[i] # Null
      /\ 1 \in 1 .. L + 1
  BY ListFacts
<1>2. /\ d \in Seq(Session) /\ Len(d) = L + 1
      /\ \A i \in 1 .. L + 1 : d[i] = IF i < 1 THEN c[i] ELSE IF i = 1 THEN n ELSE c[i - 1]
  BY <1>1, InsertAtElements
<1>3. n \notin Range(c) /\ IsInjective(c)
  BY DEF ListIs
<1>4. Range(d) = Range(c) \cup {n} /\ IsInjective(d)
  BY <1>1, <1>3, InsertAtRange
<1> HIDE DEF d
<1>5. \A i \in 1 .. L + 1 : d[i] = IF i = 1 THEN n ELSE c[i - 1]
  BY <1>2
<1>6. head' = n /\ next' = [next EXCEPT ![n] = head] /\ head = Entry(c, 1)
  BY DEF Push, ListIs
<1>7. ASSUME NEW i \in 1 .. L + 1 PROVE next'[d[i]] = Entry(d, i + 1)
  <2>1. CASE i = 1
    <3>1. next'[d[i]] = head
      BY <1>5, <1>6, <2>1 DEF SessionsTyped
    <3>2. Entry(d, 2) = Entry(c, 1)
      <4>1. CASE L = 0
        BY <1>1, <1>2, <4>1 DEF Entry
      <4>2. CASE L # 0
        <5>1. 2 \in 1 .. L + 1 /\ 1 \in 1 .. L
          BY <1>1, <4>2
        <5>2. d[2] = c[1]
          BY <1>5, <5>1
        <5> QED
          BY <1>1, <1>2, <5>1, <5>2 DEF Entry
      <4> QED
        BY <4>1, <4>2
    <3> QED
      BY <1>6, <2>1, <3>1, <3>2
  <2>2. CASE i # 1
    <3>1. i - 1 \in 1 .. L
      BY <1>1, <2>2
    <3>2. d[i] = c[i - 1] /\ c[i - 1] # n /\ c[i - 1] \in Session
      BY <1>1, <1>3, <1>5, <2>2, <3>1 DEF Range
    <3>3. next'[d[i]] = next[c[i - 1]]
      BY <1>6, <3>2 DEF SessionsTyped
    <3>4. next[c[i - 1]] = Entry(c, (i - 1) + 1)
      BY <1>1, <3>1 DEF ListIs
    <3>5. Entry(c, (i - 1) + 1) = Entry(d, i + 1)
      <4>1. (i - 1) + 1 = i /\ (i + 1) - 1 = i /\ i + 1 # 1 /\ (i \in 1 .. L <=> i + 1 \in 1 .. L + 1)
        BY <1>1, <2>2
      <4>2. i + 1 \in 1 .. L + 1 => d[i + 1] = c[i]
        BY <1>5, <4>1
      <4> QED
        BY <1>1, <1>2, <4>1, <4>2 DEF Entry
    <3> QED
      BY <3>3, <3>4, <3>5
  <2> QED
    BY <2>1, <2>2
<1>8. head' = Entry(d, 1)
  BY <1>1, <1>2, <1>5, <1>6 DEF Entry
<1>9. ListIs(d)'
  <2>1. live' = Range(d)
    BY <1>4 DEF ListIs
  <2> QED
    BY <1>2, <1>4, <1>7, <1>8, <2>1 DEF ListIs, Entry
<1> QED
  BY <1>2, <1>5, <1>9 DEF d

LEMMA UnlinkList ==
    ASSUME SessionsTyped, NEW c, ListIs(c), NEW k \in 1 .. Len(c), Unlink(c[k]), live' = live \ {c[k]}
    PROVE  /\ RemoveAt(c, k) \in Seq(Session)
           /\ Len(RemoveAt(c, k)) = Len(c) - 1
           /\ \A i \in 1 .. Len(c) - 1 : RemoveAt(c, k)[i] = IF i < k THEN c[i] ELSE c[i + 1]
           /\ ListIs(RemoveAt(c, k))'
<1> DEFINE d == RemoveAt(c, k)
           L == Len(c)
           s == c[k]
<1>1. /\ c \in Seq(Session) /\ L \in Nat /\ DOMAIN c = 1 .. L /\ L = Len(c)
      /\ \A i \in 1 .. L : c[i] \in Session /\ c[i] # Null
      /\ \A i, j \in 1 .. L : c[i] = c[j] => i = j
      /\ \A i \in 1 .. L : next[c[i]] = Entry(c, i + 1)
      /\ head = Entry(c, 1) /\ k \in 1 .. L
  BY ListFacts DEF ListIs
<1>2. /\ d \in Seq(Session) /\ Len(d) = L - 1
      /\ \A i \in 1 .. L - 1 : d[i] = IF i < k THEN c[i] ELSE c[i + 1]
  BY <1>1, RemoveAtElements
<1>3. Range(d) = Range(c) \ {s} /\ IsInjective(d)
  BY <1>1, RemoveAtRange DEF ListIs
<1> HIDE DEF d
<1>4. \A i \in 1 .. L : Entry(c, i) = c[i]
  BY DEF Entry
\* The entry in front of s, if there is one, is the one whose pointer changes.
<1>5. CASE k = 1
  <2>1. head = s
    BY <1>1, <1>4, <1>5
  <2>2. head' = next[s] /\ next' = [next EXCEPT ![s] = Null]
    BY <2>1 DEF Unlink
  <2>3. \A i \in 1 .. L - 1 : i + 1 \in 1 .. L /\ d[i] = c[i + 1]
    BY <1>1, <1>2, <1>5
  <2>4. \A i : Entry(d, i) = IF i \in 1 .. L - 1 THEN c[i + 1] ELSE Null
    BY <1>2, <2>3 DEF Entry
  <2>5. head' = Entry(d, 1)
    <3>1. head' = Entry(c, 2)
      BY <1>1, <1>5, <2>2
    <3>2. 2 \in 1 .. L <=> 1 \in 1 .. L - 1
      BY <1>1
    <3> QED
      BY <1>1, <2>4, <3>1, <3>2 DEF Entry
  <2>6. ASSUME NEW i \in 1 .. L - 1 PROVE next'[d[i]] = Entry(d, i + 1)
    <3>1. i + 1 \in 1 .. L /\ i + 1 # k
      BY <1>1, <1>5
    <3>2. c[i + 1] # s /\ c[i + 1] \in Session
      BY <1>1, <3>1
    <3>3. next'[d[i]] = Entry(c, (i + 1) + 1)
      BY <1>1, <2>2, <2>3, <3>1, <3>2 DEF SessionsTyped
    <3>4. (i + 1) + 1 \in 1 .. L <=> i + 1 \in 1 .. L - 1
      BY <1>1
    <3> QED
      BY <1>1, <2>4, <3>3, <3>4 DEF Entry
  <2>7. live' = Range(d)
    BY <1>3 DEF ListIs
  <2>8. ListIs(d)'
    BY <1>2, <1>3, <2>5, <2>6, <2>7 DEF ListIs, Entry
  <2> QED
    BY <1>2, <2>8 DEF d
<1>6. CASE k # 1
  <2> DEFINE o == c[k - 1]
  <2>1. k - 1 \in 1 .. L /\ 1 \in 1 .. L /\ (k - 1) + 1 = k /\ k - 1 # k /\ 1 \in 1 .. L - 1 /\ 1 < k
    BY <1>1, <1>6
  <2>2. head = c[1] /\ head # s
    BY <1>1, <1>4, <1>6, <2>1
  <2>3. next[o] = s
    BY <1>1, <1>4, <2>1
  <2>4. \A x \in Listed : next[x] = s => x = o
    <3> SUFFICES ASSUME NEW x \in Listed, next[x] = s PROVE x = o
      OBVIOUS
    <3>1. PICK i \in 1 .. L : x = c[i]
      BY <1>1, ListedIs DEF Range
    <3>2. i + 1 \in 1 .. L /\ c[i + 1] = s
      BY <1>1, <3>1 DEF Entry
    <3>3. i + 1 = k /\ i = k - 1
      BY <1>1, <3>1, <3>2
    <3> QED
      BY <3>1, <3>3
  <2>5. o \in Listed
    BY <1>1, <2>1, ListedIs DEF Range
  <2>6. (CHOOSE x \in Listed : next[x] = s) = o
    BY <2>3, <2>4, <2>5
  <2>7. next' = [next EXCEPT ![o] = next[s], ![s] = Null] /\ head' = head
    BY <2>2, <2>6 DEF Unlink
  <2>8. o \in Session /\ s \in Session /\ o # s
    BY <1>1, <2>1
  <2>9. /\ next'[o] = next[s]
        /\ \A x \in Session \ {o, s} : next'[x] = next[x]
    BY <2>7, <2>8 DEF SessionsTyped
  <2> HIDE DEF o
  <2>10. head' = Entry(d, 1)
    BY <1>2, <2>1, <2>2, <2>7 DEF Entry
  <2>11. ASSUME NEW i \in 1 .. L - 1 PROVE next'[d[i]] = Entry(d, i + 1)
    <3>1. CASE i < k - 1
      <4>1. /\ i \in 1 .. L /\ i < k /\ i # k /\ i # k - 1
            /\ i + 1 < k /\ i + 1 \in 1 .. L - 1 /\ i + 1 \in 1 .. L
        BY <1>1, <3>1
      <4>2. d[i] = c[i] /\ d[i + 1] = c[i + 1] /\ c[i] \in Session \ {o, s}
        BY <1>1, <1>2, <2>1, <4>1 DEF o
      <4> QED
        BY <1>1, <1>2, <2>9, <4>1, <4>2 DEF Entry
    <3>2. CASE i = k - 1
      <4>1. i < k /\ d[i] = o /\ ~(i + 1 < k) /\ i + 1 = k
        BY <1>1, <1>2, <3>2 DEF o
      <4>2. next'[d[i]] = Entry(c, k + 1)
        BY <1>1, <2>9, <4>1
      <4>3. k + 1 \in 1 .. L <=> k \in 1 .. L - 1
        BY <1>1
      <4>4. k \in 1 .. L - 1 => d[k] = c[k + 1]
        BY <1>1, <1>2
      <4> QED
        BY <1>1, <1>2, <4>1, <4>2, <4>3, <4>4 DEF Entry
    <3>3. CASE i > k - 1
      <4>1. /\ ~(i < k) /\ ~(i + 1 < k) /\ i + 1 \in 1 .. L /\ i + 1 # k /\ i + 1 # k - 1
            /\ ((i + 1) + 1 \in 1 .. L <=> i + 1 \in 1 .. L - 1)
        BY <1>1, <3>3
      <4>2. d[i] = c[i + 1] /\ c[i + 1] \in Session \ {o, s}
        BY <1>1, <1>2, <2>1, <4>1 DEF o
      <4>3. i + 1 \in 1 .. L - 1 => d[i + 1] = c[(i + 1) + 1]
        BY <1>2, <4>1
      <4>4. next'[d[i]] = Entry(c, (i + 1) + 1)
        BY <1>1, <2>9, <4>1, <4>2
      <4> QED
        BY <1>1, <1>2, <4>1, <4>3, <4>4 DEF Entry
    <3> QED
      BY <1>1, <3>1, <3>2, <3>3
  <2>12. live' = Range(d)
    BY <1>3 DEF ListIs
  <2>13. ListIs(d)'
    BY <1>2, <1>3, <2>10, <2>11, <2>12 DEF ListIs, Entry
  <2> QED
    BY <1>2, <2>13 DEF d
<1> QED
  BY <1>5, <1>6

-----------------------------------------------------------------------------
(* The loops                                                                *)

LEMMA SessionsInitInv == Init => SessionsInv
<1> SUFFICES ASSUME Init PROVE OnCourse
  BY DEF SessionsInv, Init
<1>1. SessionsTyped
  BY SessionsAssumption DEF Init, SessionsTyped, Kinds, Rounds, Never
<1> DEFINE c == <<>>
<1>2. c \in Seq(Session) /\ Len(c) = 0 /\ Range(c) = {} /\ IsInjective(c)
  BY DEF Range, IsInjective
<1> HIDE DEF c
<1>3. ListIs(c)
  BY <1>2 DEF Init, ListIs, Entry
<1>4. LoopIs(c, 1)
  <2>1. ReadIs(c, 1) /\ WaitIs(c, 1)
    BY DEF Init, ReadIs, WaitIs
  <2> QED
    BY <1>2, <2>1 DEF Init, LoopIs, Entry
<1> QED
  BY <1>1, <1>2, <1>3, <1>4 DEF OnCourse

\* How a step is shown to preserve the invariant.
LEMMA KeepsInv ==
    ASSUME SessionsTyped', NEW c, NEW p, ListIs(c)', LoopIs(c, p)'
    PROVE  OnCourse'
<1>1. c \in Seq(Session) /\ Len(c) \in Nat /\ p \in 1 .. Len(c) + 1
  BY LenProperties DEF ListIs, LoopIs
<1> QED
  BY <1>1 DEF OnCourse

LEMMA SameList ==
    ASSUME NEW c, ListIs(c), UNCHANGED list
    PROVE  ListIs(c)'
  BY DEF ListIs, list, Entry

\* Where a loop that goes on is.
LEMMA AtEntry ==
    ASSUME NEW c, NEW p, ListIs(c), LoopIs(c, p)
    PROVE  /\ p \in Nat /\ p >= 1
           /\ slp # Null => p \in 1 .. Len(c) /\ slp = c[p] /\ slp \in Session /\ slp \in live
                            /\ next[slp] = Entry(c, p + 1) /\ p + 1 \in 1 .. Len(c) + 1
           /\ slp = Null => p = Len(c) + 1
<1>1. Len(c) \in Nat /\ p \in 1 .. Len(c) + 1 /\ slp = Entry(c, p)
      /\ \A i \in 1 .. Len(c) : c[i] \in Session /\ c[i] \in live /\ c[i] # Null
  BY ListFacts DEF LoopIs
<1> QED
  BY <1>1 DEF ListIs, Entry

\* A session in front of the list moves the loop with it.
LEMMA CreateLoop ==
    ASSUME SessionsTyped, NEW c, NEW p, ListIs(c), LoopIs(c, p),
           NEW n \in Session, NEW k \in Kinds, NEW fd \in FreeFds, Create(n, k, fd),
           UNCHANGED <<round, slp, fdset, wait, late>>,
           \/ Running /\ UNCHANGED <<calling, reported>>
           \/ Visiting("read") /\ calling' = "yes" /\ reported' = reported \ {slp}
    PROVE  OnCourse'
<1> DEFINE L == Len(c)
           d == InsertAt(c, 1, n)
<1>1. n \notin live /\ live' = live \cup {n} /\ Push(n) /\ fd \in Fd
      /\ sock' = [sock EXCEPT ![n] = fd] /\ kind' = [kind EXCEPT ![n] = k]
      /\ left' = [left EXCEPT ![n] = Never]
  BY DEF Create, FreeFds
<1>2. /\ d \in Seq(Session) /\ Len(d) = L + 1
      /\ \A i \in 1 .. L + 1 : d[i] = IF i = 1 THEN n ELSE c[i - 1]
      /\ ListIs(d)'
  BY <1>1, PushList
<1> HIDE DEF d
<1>3. /\ L \in Nat /\ L = Len(c)
      /\ \A i \in 1 .. L : c[i] \in Session /\ c[i] \in live /\ c[i] # n
      /\ \A i, j \in 1 .. L : c[i] = c[j] => i = j
  BY <1>1, ListFacts
<1>4. p \in 1 .. L + 1 /\ p + 1 \in 1 .. (L + 1) + 1 /\ p \in Nat
  BY <1>3 DEF LoopIs
<1>5. SessionsTyped'
  <2>1. Never \in 0 .. Never
    BY SessionsAssumption DEF Never
  <2>2. head \in Session \cup {Null}
    BY <1>3 DEF ListIs, Entry
  <2>3. next' \in [Session -> Session \cup {Null}]
    BY <1>1, <2>2 DEF Push, SessionsTyped
  <2> QED
    BY <1>1, <2>1, <2>3 DEF SessionsTyped
\* Entry i has become entry i + 1, and nothing else has changed about it.
<1>6. \A i \in 1 .. L : /\ i + 1 \in 1 .. L + 1 /\ d[i + 1] = c[i]
                        /\ left'[d[i + 1]] = left[c[i]] /\ (IsSet(d[i + 1])' <=> IsSet(c[i]))
  <2> SUFFICES ASSUME NEW i \in 1 .. L
               PROVE  /\ i + 1 \in 1 .. L + 1 /\ d[i + 1] = c[i]
                      /\ left'[d[i + 1]] = left[c[i]] /\ (IsSet(d[i + 1])' <=> IsSet(c[i]))
    OBVIOUS
  <2>1. i + 1 \in 1 .. L + 1 /\ i + 1 # 1 /\ (i + 1) - 1 = i
    BY <1>3
  <2>2. d[i + 1] = c[i]
    BY <1>2, <2>1
  <2>3. c[i] \in Session /\ c[i] # n
    BY <1>3
  <2>4. sock'[c[i]] = sock[c[i]] /\ left'[c[i]] = left[c[i]]
    BY <1>1, <2>3 DEF SessionsTyped
  <2> QED
    BY <2>1, <2>2, <2>4 DEF IsSet, Marked
<1>7. \A j \in 1 .. L + 1 : j = 1 \/ (j - 1 \in 1 .. L /\ j = (j - 1) + 1)
  BY <1>3
<1>8. From(p + 1)' = IF UNCHANGED calling THEN From(p) + 1 ELSE From(p) + 2
  BY <1>4 DEF From, Visiting
<1>9. slp' = Entry(d, p + 1)
  <2>1. slp = Entry(c, p)
    BY DEF LoopIs
  <2>2. p \in 1 .. L <=> p + 1 \in 1 .. L + 1
    BY <1>3, <1>4
  <2> QED
    BY <1>2, <1>6, <2>1, <2>2 DEF Entry
<1>10. From(p) \in Nat /\ From(p) >= 1
  BY <1>4 DEF From
<1>11. ReadIs(d, p + 1)'
  <2>1. CASE round # "read"
    BY <2>1 DEF LoopIs, ReadIs, Visiting
  <2>2. CASE round = "read" /\ UNCHANGED <<calling, reported>>
    <3>1. /\ \A s \in reported : \E i \in 1 .. L : i >= From(p) /\ s = c[i]
          /\ \A i \in 1 .. L : i >= From(p) => (c[i] \in reported <=> IsSet(c[i]))
      BY <2>2 DEF LoopIs, ReadIs
    <3>2. From(p + 1)' = From(p) + 1
      BY <1>8, <2>2
    <3>3. \A s \in reported : \E j \in 1 .. L + 1 : j >= From(p) + 1 /\ s = d[j]
      <4> SUFFICES ASSUME NEW s \in reported PROVE \E j \in 1 .. L + 1 : j >= From(p) + 1 /\ s = d[j]
        OBVIOUS
      <4>1. PICK i \in 1 .. L : i >= From(p) /\ s = c[i]
        BY <3>1
      <4>2. i + 1 \in 1 .. L + 1 /\ i + 1 >= From(p) + 1 /\ s = d[i + 1]
        BY <1>6, <1>10, <4>1
      <4> QED
        BY <4>2
    <3>4. ASSUME NEW j \in 1 .. L + 1, j >= From(p) + 1
          PROVE  d[j] \in reported <=> IsSet(d[j])'
      <4>1. j - 1 \in 1 .. L /\ j = (j - 1) + 1 /\ j - 1 >= From(p)
        BY <1>7, <1>10, <3>4
      <4> QED
        BY <1>6, <3>1, <4>1
    <3> QED
      BY <1>2, <2>2, <3>2, <3>3, <3>4 DEF ReadIs
  <2>3. CASE Visiting("read") /\ calling' = "yes" /\ reported' = reported \ {slp}
    <3>1. /\ \A s \in reported : \E i \in 1 .. L : i >= p /\ s = c[i]
          /\ \A i \in 1 .. L : i >= p => (c[i] \in reported <=> IsSet(c[i]))
      BY <2>3 DEF LoopIs, ReadIs, From, Visiting
    <3>2. From(p + 1)' = p + 2 /\ round' = "read" /\ slp = c[p] /\ p \in 1 .. L
      BY <1>4, <2>3, AtEntry DEF From, Visiting
    <3>3. \A s \in reported' : \E j \in 1 .. L + 1 : j >= p + 2 /\ s = d[j]
      <4> SUFFICES ASSUME NEW s \in reported, s # slp PROVE \E j \in 1 .. L + 1 : j >= p + 2 /\ s = d[j]
        BY <2>3
      <4>1. PICK i \in 1 .. L : i >= p /\ s = c[i]
        BY <3>1
      <4>2. i # p
        BY <3>2, <4>1
      <4>3. i + 1 \in 1 .. L + 1 /\ i + 1 >= p + 2 /\ s = d[i + 1]
        BY <1>4, <1>6, <4>1, <4>2
      <4> QED
        BY <4>3
    <3>4. ASSUME NEW j \in 1 .. L + 1, j >= p + 2
          PROVE  d[j] \in reported' <=> IsSet(d[j])'
      <4>1. j - 1 \in 1 .. L /\ j = (j - 1) + 1 /\ j - 1 >= p /\ j - 1 # p
        BY <1>4, <1>7, <3>4
      <4>2. d[j] = c[j - 1] /\ c[j - 1] # slp
        BY <1>3, <1>6, <3>2, <4>1
      <4> QED
        BY <1>6, <2>3, <3>1, <4>1, <4>2
    <3> QED
      BY <1>2, <3>2, <3>3, <3>4 DEF ReadIs
  <2> QED
    BY <2>1, <2>2, <2>3
<1>12. WaitIs(d, p + 1)'
  <2> SUFFICES ASSUME round \in {"info", "select"}, NEW j \in 1 .. L + 1, j < p + 1, d[j] \notin late
               PROVE  wait <= left'[d[j]]
    BY <1>2 DEF WaitIs
  <2>1. CASE j = 1
    BY <1>1, <1>2, <2>1, SessionsAssumption DEF SessionsTyped, Never
  <2>2. CASE j # 1
    <3>1. j - 1 \in 1 .. L /\ j = (j - 1) + 1 /\ j - 1 < p
      BY <1>4, <1>7, <2>2
    <3>2. d[j] = c[j - 1] /\ left'[d[j]] = left[c[j - 1]]
      BY <1>6, <3>1
    <3> QED
      BY <3>1, <3>2 DEF LoopIs, WaitIs
  <2> QED
    BY <2>1, <2>2
<1>13. LoopIs(d, p + 1)'
  <2>1. (round \in {"none", "single", "select"})' => calling' = "no" /\ p + 1 = (L + 1) + 1
    BY <1>3, <1>4 DEF LoopIs, Visiting
  <2>2. calling' # "no" /\ round' # "info" => p + 1 \in 1 .. L + 1
    BY <1>3, <1>4, AtEntry DEF LoopIs, Visiting
  <2>3. calling' = "ended" => round' = "read"
    BY DEF LoopIs
  <2> QED
    BY <1>2, <1>4, <1>9, <1>11, <1>12, <2>1, <2>2, <2>3 DEF LoopIs
<1> QED
  BY <1>2, <1>5, <1>13, KeepsInv

LEMMA OpenStep == ASSUME OnCourse, Open PROVE OnCourse'
<1>1. PICK c \in Seq(Session), p \in Nat : ListIs(c) /\ LoopIs(c, p)
  BY DEF OnCourse
<1>2. PICK n \in Session, k \in Kinds, fd \in FreeFds :
          Running /\ Create(n, k, fd) /\ UNCHANGED <<loop, seen>>
  BY DEF Open, Kinds
<1> QED
  BY <1>1, <1>2, CreateLoop DEF OnCourse, loop, seen

LEMMA AcceptStep == ASSUME OnCourse, Accept PROVE OnCourse'
<1>1. PICK c \in Seq(Session), p \in Nat : ListIs(c) /\ LoopIs(c, p)
  BY DEF OnCourse
<1>2. PICK n \in Session, fd \in FreeFds :
          /\ Visiting("read") /\ Create(n, "stream", fd)
          /\ reported' = reported \ {slp} /\ calling' = "yes"
          /\ UNCHANGED <<round, slp, fdset, wait, late>>
  BY DEF Accept
<1> QED
  BY <1>1, <1>2, CreateLoop DEF OnCourse, Kinds

\* What is freed leaves the list, and no other session notices.
LEMMA FreeFacts ==
    ASSUME SessionsTyped, NEW c, ListIs(c), NEW k \in 1 .. Len(c), Free(c[k])
    PROVE  /\ RemoveAt(c, k) \in Seq(Session)
           /\ Len(RemoveAt(c, k)) = Len(c) - 1
           /\ \A i \in 1 .. Len(c) - 1 : RemoveAt(c, k)[i] = IF i < k THEN c[i] ELSE c[i + 1]
           /\ ListIs(RemoveAt(c, k))'
           /\ UNCHANGED <<fdset, calling, round, wait>> => SessionsTyped'
           /\ next' \in [Session -> Session \cup {Null}] /\ sock' \in [Session -> Fd \cup {NoFd}]
           /\ kind' \in [Session -> Kinds] /\ left' \in [Session -> 0 .. Never]
           /\ reported' = reported \ {c[k]} /\ late' = late \ {c[k]}
           /\ \A i \in 1 .. Len(c) : i # k => /\ sock'[c[i]] = sock[c[i]] /\ left'[c[i]] = left[c[i]]
                                               /\ c[i] # c[k]
<1> DEFINE s == c[k]
<1>1. /\ Unlink(s) /\ live' = live \ {s}
      /\ sock' = [sock EXCEPT ![s] = NoFd] /\ left' = [left EXCEPT ![s] = Never]
      /\ kind' = [kind EXCEPT ![s] = "datagram"]
      /\ reported' = reported \ {s} /\ late' = late \ {s}
  BY DEF Free
<1>2. /\ RemoveAt(c, k) \in Seq(Session)
      /\ Len(RemoveAt(c, k)) = Len(c) - 1
      /\ \A i \in 1 .. Len(c) - 1 : RemoveAt(c, k)[i] = IF i < k THEN c[i] ELSE c[i + 1]
      /\ ListIs(RemoveAt(c, k))'
  BY <1>1, UnlinkList
<1>3. /\ \A i \in 1 .. Len(c) : c[i] \in Session
      /\ \A i, j \in 1 .. Len(c) : c[i] = c[j] => i = j
  BY ListFacts
<1>4. /\ sock' \in [Session -> Fd \cup {NoFd}]
      /\ kind' \in [Session -> Kinds] /\ left' \in [Session -> 0 .. Never]
  BY <1>1, <1>3, SessionsAssumption DEF SessionsTyped, Never, Kinds
<1>5. next' \in [Session -> Session \cup {Null}]
  <2>1. next[s] \in Session \cup {Null}
    BY <1>3 DEF SessionsTyped
  <2> QED
    BY <1>1, <2>1 DEF Unlink, SessionsTyped
<1>6. UNCHANGED <<fdset, calling, round, wait>> => SessionsTyped'
  BY <1>4, <1>5 DEF SessionsTyped
<1>7. \A i \in 1 .. Len(c) : i # k => /\ sock'[c[i]] = sock[c[i]] /\ left'[c[i]] = left[c[i]]
                                      /\ c[i] # c[k]
  BY <1>1, <1>3 DEF SessionsTyped
<1> HIDE DEF s
<1> QED
  BY <1>1, <1>2, <1>4, <1>5, <1>6, <1>7 DEF s

\* What is closed is not what the loop goes on with.
LEMMA CloseElsewhere ==
    ASSUME OnCourse, NEW s \in Listed \ {slp}, Running, Free(s), UNCHANGED loop
    PROVE  OnCourse'
<1>1. SessionsTyped
  BY DEF OnCourse
<1>2. PICK c \in Seq(Session), p \in Nat : ListIs(c) /\ LoopIs(c, p)
  BY DEF OnCourse
<1> DEFINE L == Len(c)
<1>3. s \in Listed \ {slp} /\ Running /\ Free(s) /\ UNCHANGED loop
  OBVIOUS
<1>4. PICK k \in 1 .. L : s = c[k]
  BY <1>2, <1>3, ListedIs, ListFacts DEF Range
<1> DEFINE d == RemoveAt(c, k)
           q == IF k < p THEN p - 1 ELSE p
<1>5. /\ L \in Nat /\ L = Len(c) /\ p \in 1 .. L + 1 /\ k # p /\ slp = Entry(c, p)
      /\ p \in Nat /\ k \in Nat
  <2>1. L \in Nat /\ p \in 1 .. L + 1 /\ slp = Entry(c, p) /\ slp # c[k]
    BY <1>2, <1>3, <1>4, ListFacts DEF LoopIs
  <2> QED
    BY <1>4, <2>1 DEF Entry
<1>6. /\ d \in Seq(Session) /\ Len(d) = L - 1
      /\ \A i \in 1 .. L - 1 : d[i] = IF i < k THEN c[i] ELSE c[i + 1]
      /\ ListIs(d)' /\ SessionsTyped'
      /\ reported' = reported \ {c[k]} /\ late' = late \ {c[k]}
      /\ \A i \in 1 .. L : i # k => sock'[c[i]] = sock[c[i]] /\ left'[c[i]] = left[c[i]] /\ c[i] # c[k]
      /\ UNCHANGED <<round, slp, calling, fdset, wait>>
  <2>1. UNCHANGED <<round, slp, calling, fdset, wait>>
    BY <1>3 DEF loop
  <2>2. Free(c[k])
    BY <1>3, <1>4
  <2> HIDE DEF d
  <2>3. UNCHANGED <<fdset, calling, round, wait>> => SessionsTyped'
    BY <1>1, <1>2, <2>2, FreeFacts
  <2>4. /\ RemoveAt(c, k) \in Seq(Session) /\ Len(RemoveAt(c, k)) = L - 1
        /\ \A i \in 1 .. L - 1 : RemoveAt(c, k)[i] = IF i < k THEN c[i] ELSE c[i + 1]
        /\ ListIs(RemoveAt(c, k))'
    BY <1>1, <1>2, <2>2, FreeFacts
  <2>5. /\ reported' = reported \ {c[k]} /\ late' = late \ {c[k]}
        /\ \A i \in 1 .. L : i # k => /\ sock'[c[i]] = sock[c[i]] /\ left'[c[i]] = left[c[i]]
                                       /\ c[i] # c[k]
    BY <1>1, <1>2, <2>2, FreeFacts
  <2> QED
    BY <2>1, <2>3, <2>4, <2>5 DEF d
<1> HIDE DEF d
\* From an entry that stays to its new place, and back.
<1>7. ASSUME NEW i \in 1 .. L, i # k
      PROVE  \E j \in 1 .. L - 1 : /\ d[j] = c[i] /\ j = IF i < k THEN i ELSE i - 1
  <2>1. CASE i < k
    <3>1. i \in 1 .. L - 1
      BY <1>5, <2>1
    <3> QED
      BY <1>6, <2>1, <3>1
  <2>2. CASE ~(i < k)
    <3>1. i - 1 \in 1 .. L - 1 /\ ~(i - 1 < k) /\ (i - 1) + 1 = i
      BY <1>5, <1>7, <2>2
    <3>2. d[i - 1] = c[i]
      BY <1>6, <3>1
    <3> QED
      BY <2>2, <3>1, <3>2
  <2> QED
    BY <2>1, <2>2
<1>8. ASSUME NEW j \in 1 .. L - 1
      PROVE  \E i \in 1 .. L : /\ d[j] = c[i] /\ i # k /\ i = IF j < k THEN j ELSE j + 1
                               /\ left'[d[j]] = left[c[i]] /\ (IsSet(d[j])' <=> IsSet(c[i]))
                               /\ c[i] # c[k]
  <2> DEFINE i == IF j < k THEN j ELSE j + 1
  <2>1. i \in 1 .. L /\ i # k /\ d[j] = c[i]
    BY <1>4, <1>5, <1>6
  <2>2. sock'[c[i]] = sock[c[i]] /\ left'[c[i]] = left[c[i]] /\ c[i] # c[k]
    BY <1>6, <2>1
  <2> HIDE DEF i
  <2>3. IsSet(d[j])' <=> IsSet(c[i])
    BY <1>6, <2>1, <2>2 DEF IsSet, Marked
  <2> QED
    BY <2>1, <2>2, <2>3 DEF i
<1>9. q \in 1 .. (L - 1) + 1 /\ slp' = Entry(d, q)
  <2>1. q \in 1 .. (L - 1) + 1
    BY <1>4, <1>5
  <2>2. CASE p \in 1 .. L
    <3>1. PICK j \in 1 .. L - 1 : d[j] = c[p] /\ j = IF p < k THEN p ELSE p - 1
      BY <1>5, <1>7, <2>2
    <3>2. j = q
      BY <1>4, <1>5, <3>1
    <3> QED
      BY <1>5, <1>6, <2>1, <2>2, <3>1, <3>2 DEF Entry
  <2>3. CASE p \notin 1 .. L
    <3>1. q = L /\ L \notin 1 .. L - 1
      BY <1>4, <1>5, <2>3
    <3> QED
      BY <1>5, <1>6, <2>1, <2>3, <3>1 DEF Entry
  <2> QED
    BY <2>1, <2>2, <2>3
<1>10. /\ From(p) \in Nat /\ (k # From(p) \/ From(p) = p + 1)
       /\ From(q)' = IF k < p THEN From(p) - 1 ELSE From(p)
       /\ k < p => k < From(p)
       /\ ~(k < p) => From(p) <= k
  BY <1>4, <1>5, <1>6 DEF From
<1>11. From(p) \in Nat /\ From(p) \in {p, p + 1}
  BY <1>5 DEF From
<1>12. ReadIs(d, q)'
  <2>1. CASE round # "read"
    BY <1>2, <1>6, <2>1 DEF LoopIs, ReadIs
  <2>2. CASE round = "read"
    <3>1. /\ \A x \in reported : \E i \in 1 .. L : i >= From(p) /\ x = c[i]
          /\ \A i \in 1 .. L : i >= From(p) => (c[i] \in reported <=> IsSet(c[i]))
      BY <1>2, <2>2 DEF LoopIs, ReadIs
    <3>2. ASSUME NEW x \in reported' PROVE \E j \in 1 .. L - 1 : j >= From(q)' /\ x = d[j]
      <4>1. x \in reported /\ x # c[k]
        BY <1>6, <3>2
      <4>2. PICK i \in 1 .. L : i >= From(p) /\ x = c[i]
        BY <3>1, <4>1
      <4>3. i # k
        BY <4>1, <4>2
      <4>4. PICK j \in 1 .. L - 1 : d[j] = c[i] /\ j = IF i < k THEN i ELSE i - 1
        BY <1>7, <4>3
      <4>5. j >= From(q)'
        BY <1>4, <1>5, <1>10, <1>11, <4>2, <4>3, <4>4
      <4> QED
        BY <4>2, <4>4, <4>5
    <3>3. ASSUME NEW j \in 1 .. L - 1, j >= From(q)'
          PROVE  d[j] \in reported' <=> IsSet(d[j])'
      <4>1. PICK i \in 1 .. L : /\ d[j] = c[i] /\ i # k /\ i = IF j < k THEN j ELSE j + 1
                                /\ (IsSet(d[j])' <=> IsSet(c[i])) /\ c[i] # c[k]
        BY <1>8
      <4>2. i >= From(p)
        BY <1>4, <1>5, <1>10, <1>11, <3>3, <4>1
      <4> QED
        BY <1>6, <3>1, <4>1, <4>2
    <3> QED
      BY <1>6, <2>2, <3>2, <3>3 DEF ReadIs
  <2> QED
    BY <2>1, <2>2
<1>13. WaitIs(d, q)'
  <2> SUFFICES ASSUME round \in {"info", "select"}, NEW j \in 1 .. L - 1, j < q, d[j] \notin late'
               PROVE  wait <= left'[d[j]]
    BY <1>6 DEF WaitIs
  <2>1. PICK i \in 1 .. L : /\ d[j] = c[i] /\ i # k /\ i = IF j < k THEN j ELSE j + 1
                            /\ left'[d[j]] = left[c[i]] /\ c[i] # c[k]
    BY <1>8
  <2>2. i < p
    BY <1>4, <1>5, <2>1
  <2>3. c[i] \notin late
    BY <1>6, <2>1
  <2> QED
    BY <1>2, <2>1, <2>2, <2>3 DEF LoopIs, WaitIs
<1>14. LoopIs(d, q)'
  <2>1. round \in {"none", "single", "select"} => calling = "no" /\ q = (L - 1) + 1
    BY <1>2, <1>4, <1>5 DEF LoopIs
  <2>2. calling # "no" /\ round # "info" => q \in 1 .. L - 1
    BY <1>2, <1>4, <1>5 DEF LoopIs
  <2> QED
    BY <1>2, <1>6, <1>9, <1>12, <1>13, <2>1, <2>2 DEF LoopIs
<1> QED
  BY <1>6, <1>14, KeepsInv

\* A callback closes the very session that the loop goes on with.
LEMMA CloseHere ==
    ASSUME OnCourse, slp \in Listed, Running, Free(slp), UNCHANGED loop
    PROVE  Astray'
<1>1. SessionsTyped
  BY DEF OnCourse
<1>2. PICK c \in Seq(Session), p \in Nat : ListIs(c) /\ LoopIs(c, p)
  BY DEF OnCourse
<1>3. PICK k \in 1 .. Len(c) : slp = c[k]
  BY <1>2, ListedIs, ListFacts DEF Range
<1>4. RemoveAt(c, k) \in Seq(Session) /\ ListIs(RemoveAt(c, k))'
  BY <1>1, <1>2, <1>3, FreeFacts
<1>5. slp # Null /\ p # Len(c) + 1
  <2>1. slp # Null /\ slp = Entry(c, p) /\ Len(c) \in Nat
    BY <1>2, <1>3, ListFacts DEF LoopIs
  <2> QED
    BY <2>1 DEF Entry
<1>6. calling # "no" /\ round \in {"info", "read", "timeout"}
  BY <1>1, <1>2, <1>5 DEF LoopIs, Running, SessionsTyped, Rounds
<1>7. UNCHANGED <<slp, calling, round>>
  BY DEF loop
<1> QED
  BY <1>4, <1>5, <1>6, <1>7 DEF Astray

LEMMA CloseStep == ASSUME OnCourse, Close PROVE stray' \in BOOLEAN /\ IF stray' THEN Astray' ELSE OnCourse'
<1>1. PICK s \in Listed : Running /\ Free(s) /\ stray' = (s = slp) /\ UNCHANGED loop
  BY DEF Close
<1>2. CASE s = slp
  BY <1>1, <1>2, CloseHere
<1>3. CASE s # slp
  BY <1>1, <1>3, CloseElsewhere
<1> QED
  BY <1>1, <1>2, <1>3

LEMMA CloseMarkedStep == ASSUME OnCourse, CloseMarked PROVE OnCourse'
<1>1. SessionsTyped
  BY DEF OnCourse
<1>2. PICK c \in Seq(Session), p \in Nat : ListIs(c) /\ LoopIs(c, p)
  BY DEF OnCourse
<1> DEFINE L == Len(c)
           d == RemoveAt(c, p)
<1>3. /\ round = "info" /\ calling = "no" /\ slp # Null /\ Free(slp)
      /\ slp' = next[slp] /\ calling' \in {"no", "yes"}
      /\ UNCHANGED <<round, fdset, wait>>
  BY DEF CloseMarked, Successor
<1>4. /\ p \in 1 .. L /\ slp = c[p] /\ next[slp] = Entry(c, p + 1)
      /\ L \in Nat /\ L = Len(c) /\ p \in Nat
  BY <1>2, <1>3, AtEntry, ListFacts
<1>5. /\ d \in Seq(Session) /\ Len(d) = L - 1
      /\ \A i \in 1 .. L - 1 : d[i] = IF i < p THEN c[i] ELSE c[i + 1]
      /\ ListIs(d)'
      /\ next' \in [Session -> Session \cup {Null}] /\ sock' \in [Session -> Fd \cup {NoFd}]
      /\ kind' \in [Session -> Kinds] /\ left' \in [Session -> 0 .. Never]
      /\ reported' = reported \ {c[p]} /\ late' = late \ {c[p]}
      /\ \A i \in 1 .. L : i # p => left'[c[i]] = left[c[i]] /\ c[i] # c[p]
  BY <1>1, <1>2, <1>3, <1>4, FreeFacts
<1> HIDE DEF d
<1>6. SessionsTyped'
  BY <1>1, <1>3, <1>5 DEF SessionsTyped
<1>7. slp' = Entry(d, p)
  <2>1. p + 1 \in 1 .. L <=> p \in 1 .. L - 1
    BY <1>4
  <2>2. ASSUME p \in 1 .. L - 1 PROVE d[p] = c[p + 1]
    <3>1. ~(p < p)
      BY <1>4
    <3> QED
      BY <1>5, <2>2, <3>1
  <2> QED
    BY <1>3, <1>4, <1>5, <2>1, <2>2 DEF Entry
<1>8. ReadIs(d, p)'
  BY <1>2, <1>3, <1>5 DEF LoopIs, ReadIs
<1>9. WaitIs(d, p)'
  <2> SUFFICES ASSUME NEW j \in 1 .. L - 1, j < p, d[j] \notin late' PROVE wait <= left'[d[j]]
    BY <1>3, <1>5 DEF WaitIs
  <2>1. j \in 1 .. L /\ j # p /\ d[j] = c[j]
    BY <1>4, <1>5
  <2>2. c[j] \notin late /\ left'[c[j]] = left[c[j]]
    BY <1>5, <2>1
  <2> QED
    BY <1>2, <1>3, <2>1, <2>2 DEF LoopIs, WaitIs
<1>10. LoopIs(d, p)'
  <2>1. p \in 1 .. (L - 1) + 1
    BY <1>4
  <2> QED
    BY <1>3, <1>5, <1>7, <1>8, <1>9, <2>1 DEF LoopIs
<1> QED
  BY <1>5, <1>6, <1>10, KeepsInv

-----------------------------------------------------------------------------
(* The steps that leave the list alone                                      *)

\* What SameList and AtEntry give at once.
LEMMA Setting ==
    ASSUME OnCourse, UNCHANGED list
    PROVE  \E c \in Seq(Session), p \in Nat :
               /\ ListIs(c) /\ LoopIs(c, p) /\ ListIs(c)'
               /\ Len(c) \in Nat /\ p \in 1 .. Len(c) + 1
               /\ \A i \in 1 .. Len(c) : c[i] \in Session /\ c[i] \in live
               /\ \A i, j \in 1 .. Len(c) : c[i] = c[j] => i = j
               /\ slp # Null => /\ p \in 1 .. Len(c) /\ slp = c[p] /\ slp \in Session
                                /\ next[slp] = Entry(c, p + 1) /\ p + 1 \in 1 .. Len(c) + 1
               /\ slp = Null => p = Len(c) + 1
<1>1. PICK c \in Seq(Session), p \in Nat : ListIs(c) /\ LoopIs(c, p)
  BY DEF OnCourse
<1>2. ListIs(c)'
  BY <1>1, SameList
<1>3. /\ Len(c) \in Nat
      /\ \A i \in 1 .. Len(c) : c[i] \in Session /\ c[i] \in live
      /\ \A i, j \in 1 .. Len(c) : c[i] = c[j] => i = j
  BY <1>1, ListFacts
<1>4. p \in 1 .. Len(c) + 1
  BY <1>1 DEF LoopIs
<1>5. /\ slp # Null => /\ p \in 1 .. Len(c) /\ slp = c[p] /\ slp \in Session
                       /\ next[slp] = Entry(c, p + 1) /\ p + 1 \in 1 .. Len(c) + 1
      /\ slp = Null => p = Len(c) + 1
  BY <1>1, AtEntry
<1> QED
  BY <1>1, <1>2, <1>3, <1>4, <1>5

LEMMA SendStep == ASSUME OnCourse, Send PROVE OnCourse'
<1>1. PICK s \in Listed :
          /\ Running
          /\ left' = [left EXCEPT ![s] = Timeout]
          /\ late' = IF round = "info" THEN late \cup {s} ELSE late
          /\ UNCHANGED <<list, sock, kind, loop, reported>>
  BY DEF Send
<1>2. /\ UNCHANGED list
      /\ UNCHANGED <<head, next, live, sock, kind, round, slp, calling, fdset, wait, reported>>
  BY <1>1 DEF list, loop
<1>3. PICK c \in Seq(Session), p \in Nat :
          /\ ListIs(c) /\ LoopIs(c, p) /\ ListIs(c)'
          /\ Len(c) \in Nat /\ p \in 1 .. Len(c) + 1
          /\ \A i \in 1 .. Len(c) : c[i] \in Session /\ c[i] \in live
  BY <1>2, Setting
<1>4. SessionsTyped'
  <2>1. Timeout \in 0 .. Never
    BY SessionsAssumption DEF Never
  <2> QED
    BY <1>1, <1>2, <2>1 DEF OnCourse, SessionsTyped
<1>5. ReadIs(c, p)'
  BY <1>2, <1>3 DEF LoopIs, ReadIs, From, IsSet, Marked
<1>6. WaitIs(c, p)'
  <2> SUFFICES ASSUME round \in {"info", "select"}, NEW i \in 1 .. Len(c), i < p, c[i] \notin late'
               PROVE  wait <= left'[c[i]]
    BY <1>2 DEF WaitIs
  <2>1. round = "info"
    BY <1>1, <1>3 DEF LoopIs, Running
  <2>2. c[i] \notin late /\ c[i] # s
    BY <1>1, <2>1
  <2>3. left'[c[i]] = left[c[i]]
    BY <1>1, <1>3, <2>2 DEF OnCourse, SessionsTyped
  <2> QED
    BY <1>3, <2>2, <2>3 DEF LoopIs, WaitIs
<1>7. LoopIs(c, p)'
  BY <1>2, <1>3, <1>5, <1>6 DEF LoopIs, Entry
<1> QED
  BY <1>3, <1>4, <1>7, KeepsInv

LEMMA StartInfoStep == ASSUME OnCourse, StartInfo PROVE OnCourse'
<1>1. /\ UNCHANGED list
      /\ UNCHANGED <<head, next, live, sock, kind, left, calling, fdset, wait, reported, late>>
      /\ round = "none" /\ round' = "info" /\ slp' = head
  BY DEF StartInfo, list, session, seen
<1>2. PICK c \in Seq(Session), p \in Nat :
          /\ ListIs(c) /\ LoopIs(c, p) /\ ListIs(c)'
          /\ Len(c) \in Nat
  BY <1>1, Setting
<1>3. SessionsTyped'
  BY <1>1 DEF OnCourse, SessionsTyped, Rounds
<1>4. ReadIs(c, 1)'
  BY <1>1, <1>2 DEF LoopIs, ReadIs
<1>5. WaitIs(c, 1)'
  BY <1>2 DEF WaitIs
<1>6. LoopIs(c, 1)'
  <2>1. slp' = Entry(c, 1)
    BY <1>1, <1>2 DEF ListIs
  <2> QED
    BY <1>1, <1>2, <1>4, <1>5, <2>1 DEF LoopIs, Entry
<1> QED
  BY <1>2, <1>3, <1>6, KeepsInv

LEMMA CollectStep == ASSUME OnCourse, Collect PROVE OnCourse'
<1>1. /\ UNCHANGED list
      /\ UNCHANGED <<head, next, live, sock, kind, left, round, calling, reported, late>>
      /\ round = "info" /\ calling = "no" /\ slp # Null
      /\ ~Marked(slp)
      /\ fdset' = fdset \cup {sock[slp]}
      /\ wait' = Earliest(slp)
      /\ slp' = next[slp]
  BY DEF Collect, list, session, seen
<1>2. PICK c \in Seq(Session), p \in Nat :
          /\ ListIs(c) /\ LoopIs(c, p) /\ ListIs(c)'
          /\ Len(c) \in Nat
          /\ \A i \in 1 .. Len(c) : c[i] \in Session
          /\ p \in 1 .. Len(c) /\ slp = c[p] /\ slp \in Session
          /\ next[slp] = Entry(c, p + 1) /\ p + 1 \in 1 .. Len(c) + 1
  BY <1>1, Setting
<1>3. /\ wait \in Nat /\ wait' \in Nat /\ wait' \in 0 .. Never
      /\ wait' <= wait /\ wait' <= left[slp]
      /\ \A i \in 1 .. Len(c) : left[c[i]] \in Nat
  <2>1. /\ wait \in 0 .. Never /\ left[slp] \in 0 .. Never
        /\ \A i \in 1 .. Len(c) : left[c[i]] \in 0 .. Never
    BY <1>2 DEF OnCourse, SessionsTyped
  <2> QED
    BY <1>1, <2>1 DEF Earliest
<1>4. SessionsTyped'
  <2>1. sock[slp] \in Fd
    BY <1>1, <1>2 DEF OnCourse, SessionsTyped, Marked
  <2> QED
    BY <1>1, <1>3, <2>1 DEF OnCourse, SessionsTyped
<1>5. ReadIs(c, p + 1)'
  BY <1>1, <1>2 DEF LoopIs, ReadIs
<1>6. WaitIs(c, p + 1)'
  <2> SUFFICES ASSUME NEW i \in 1 .. Len(c), i < p + 1, c[i] \notin late
               PROVE  wait' <= left[c[i]]
    BY <1>1 DEF WaitIs
  <2>1. CASE i = p
    BY <1>2, <1>3, <2>1
  <2>2. CASE i # p
    <3>1. i < p
      BY <1>2, <2>2
    <3>2. wait <= left[c[i]]
      BY <1>1, <1>2, <3>1 DEF LoopIs, WaitIs
    <3> QED
      BY <1>3, <3>2
  <2> QED
    BY <2>1, <2>2
<1>7. LoopIs(c, p + 1)'
  BY <1>1, <1>2, <1>5, <1>6 DEF LoopIs, Entry
<1> QED
  BY <1>2, <1>4, <1>7, KeepsInv

LEMMA EndInfoStep == ASSUME OnCourse, EndInfo PROVE OnCourse'
<1>1. /\ UNCHANGED list
      /\ UNCHANGED <<head, next, live, sock, kind, left, slp, calling, fdset, wait, reported, late>>
      /\ round = "info" /\ calling = "no" /\ slp = Null /\ round' = "select"
  BY DEF EndInfo, list, session, seen
<1>2. PICK c \in Seq(Session), p \in Nat :
          /\ ListIs(c) /\ LoopIs(c, p) /\ ListIs(c)'
          /\ Len(c) \in Nat /\ p = Len(c) + 1
  BY <1>1, Setting
<1>3. SessionsTyped'
  BY <1>1 DEF OnCourse, SessionsTyped, Rounds
<1>4. ReadIs(c, p)'
  BY <1>1, <1>2 DEF LoopIs, ReadIs
<1>5. WaitIs(c, p)'
  BY <1>1, <1>2 DEF LoopIs, WaitIs
<1>6. LoopIs(c, p)'
  BY <1>1, <1>2, <1>4, <1>5 DEF LoopIs, Entry
<1> QED
  BY <1>2, <1>3, <1>6, KeepsInv

\* Steps outside of the loops, between two of these rounds.
LEMMA OutsideStep ==
    ASSUME OnCourse, UNCHANGED list, UNCHANGED <<sock, kind, slp, calling, reported>>,
           left' \in [Session -> 0 .. Never], fdset' \subseteq Fd, wait' \in 0 .. Never,
           \/ round \in {"none", "single", "select"}
           \/ round \in {"read", "timeout"} /\ calling = "no" /\ slp = Null,
           round' \in {"none", "single"}
    PROVE  OnCourse'
<1>1. PICK c \in Seq(Session), p \in Nat :
          /\ ListIs(c) /\ LoopIs(c, p) /\ ListIs(c)'
          /\ Len(c) \in Nat /\ p \in 1 .. Len(c) + 1
          /\ slp = Null => p = Len(c) + 1
  BY Setting
<1>2. SessionsTyped'
  BY DEF OnCourse, SessionsTyped, Rounds, list
<1>3. calling = "no" /\ p = Len(c) + 1
  BY <1>1 DEF LoopIs
<1>4. ReadIs(c, p)'
  <2>1. reported = {}
    <3>1. CASE round # "read"
      BY <1>1, <3>1 DEF LoopIs, ReadIs
    <3>2. CASE round = "read"
      <4>1. From(p) = Len(c) + 1
        BY <1>3 DEF From
      <4> QED
        BY <1>1, <3>2, <4>1 DEF LoopIs, ReadIs
    <3> QED
      BY <3>1, <3>2
  <2> QED
    BY <2>1 DEF ReadIs
<1>5. WaitIs(c, p)'
  BY DEF WaitIs
<1>6. LoopIs(c, p)'
  BY <1>1, <1>3, <1>4, <1>5 DEF LoopIs, Entry
<1> QED
  BY <1>1, <1>2, <1>6, KeepsInv

LEMMA SingleInfoStep == ASSUME OnCourse, NEW s \in Session, SingleInfo(s) PROVE OnCourse'
<1>1. /\ round = "none" /\ ~Marked(s)
      /\ fdset' = {sock[s]} /\ wait' = left[s] /\ round' = "single"
      /\ UNCHANGED list /\ UNCHANGED <<sock, kind, slp, calling, reported, left>>
  BY DEF SingleInfo, session, seen
<1>2. left \in [Session -> 0 .. Never] /\ sock \in [Session -> Fd \cup {NoFd}]
  BY DEF OnCourse, SessionsTyped
<1>3. fdset' \subseteq Fd /\ wait' \in 0 .. Never
  BY <1>1, <1>2 DEF Marked
<1> QED
  BY <1>1, <1>2, <1>3, OutsideStep

LEMMA EndStep == ASSUME OnCourse, SelectFails \/ EndSingle \/ EndRound PROVE OnCourse'
<1>1. /\ UNCHANGED list /\ UNCHANGED <<sock, kind, slp, calling, reported, left>>
      /\ \/ round \in {"none", "single", "select"}
         \/ round \in {"read", "timeout"} /\ calling = "no" /\ slp = Null
      /\ round' = "none"
      /\ fdset' = {} /\ wait' \in {wait, Never}
  BY DEF SelectFails, EndSingle, EndRound, session, seen
<1>2. left \in [Session -> 0 .. Never] /\ wait \in 0 .. Never
  BY DEF OnCourse, SessionsTyped
<1>3. Never \in 0 .. Never
  BY SessionsAssumption DEF Never
<1> QED
  BY <1>1, <1>2, <1>3, OutsideStep

LEMMA ElapseTyped ==
    ASSUME left \in [Session -> 0 .. Never], NEW d \in 0 .. Never, Elapse(d)
    PROVE  left' \in [Session -> 0 .. Never]
<1>1. Never \in Nat
  BY SessionsAssumption DEF Never
<1>2. \A s \in Session : left[s] \in 0 .. Never /\ left'[s] \in 0 .. Never
  BY <1>1 DEF Elapse
<1> QED
  BY <1>2 DEF Elapse

LEMMA SelectReadyStep == ASSUME OnCourse, SelectReady PROVE OnCourse'
<1>1. PICK fds \in SUBSET fdset, d \in 0 .. Timeout :
          /\ round = "select" /\ Elapse(d)
          /\ fdset' = fds /\ reported' = Owners(fds)
          /\ round' = "read" /\ slp' = head /\ wait' = Never
          /\ UNCHANGED <<list, sock, kind, calling>>
  BY DEF SelectReady
<1>2. PICK c \in Seq(Session), p \in Nat :
          /\ ListIs(c) /\ LoopIs(c, p) /\ ListIs(c)'
          /\ Len(c) \in Nat
          /\ \A i \in 1 .. Len(c) : c[i] \in Session /\ c[i] \in live
  BY <1>1, Setting
<1>3. UNCHANGED <<head, next, live, sock, kind, calling>>
  BY <1>1 DEF list
<1>4. SessionsTyped'
  <2>1. d \in 0 .. Never /\ Never \in 0 .. Never
    BY SessionsAssumption DEF Never
  <2>2. left' \in [Session -> 0 .. Never]
    BY <1>1, <2>1, ElapseTyped DEF OnCourse, SessionsTyped
  <2> QED
    BY <1>1, <1>3, <2>1, <2>2 DEF OnCourse, SessionsTyped, Rounds
<1>5. calling = "no"
  BY <1>1, <1>2 DEF LoopIs
<1>6. ReadIs(c, 1)'
  <2>1. \A s \in reported' : \E i \in 1 .. Len(c) : i >= 1 /\ s = c[i]
    BY <1>1, <1>2, ListFacts DEF Owners
  <2>2. ASSUME NEW i \in 1 .. Len(c) PROVE c[i] \in reported' <=> IsSet(c[i])'
    <3>1. NoFd \notin fds
      BY <1>1, SessionsAssumption DEF OnCourse, SessionsTyped
    <3>2. c[i] \in reported' <=> sock[c[i]] \in fds
      BY <1>1, <1>2 DEF Owners
    <3> QED
      BY <1>1, <1>3, <3>1, <3>2 DEF IsSet, Marked
  <2>3. From(1)' = 1
    BY <1>3, <1>5 DEF From
  <2> QED
    BY <1>1, <2>1, <2>2, <2>3 DEF ReadIs
<1>7. WaitIs(c, 1)'
  BY <1>1 DEF WaitIs
<1>8. LoopIs(c, 1)'
  <2>1. slp' = Entry(c, 1)
    BY <1>1, <1>2 DEF ListIs
  <2> QED
    BY <1>1, <1>2, <1>3, <1>5, <1>6, <1>7, <2>1 DEF LoopIs, Entry
<1> QED
  BY <1>2, <1>4, <1>8, KeepsInv

LEMMA SelectTimesOutStep == ASSUME OnCourse, SelectTimesOut PROVE OnCourse'
<1>1. /\ round = "select" /\ Elapse(wait)
      /\ round' = "timeout" /\ slp' = head /\ fdset' = {} /\ wait' = Never
      /\ UNCHANGED list /\ UNCHANGED <<head, next, live, sock, kind, calling, reported>>
  BY DEF SelectTimesOut, list
<1>2. PICK c \in Seq(Session), p \in Nat :
          /\ ListIs(c) /\ LoopIs(c, p) /\ ListIs(c)'
          /\ Len(c) \in Nat
  BY <1>1, Setting
<1>3. SessionsTyped'
  <2>1. Never \in 0 .. Never
    BY SessionsAssumption DEF Never
  <2>2. left' \in [Session -> 0 .. Never]
    BY <1>1, ElapseTyped DEF OnCourse, SessionsTyped
  <2> QED
    BY <1>1, <2>1, <2>2 DEF OnCourse, SessionsTyped, Rounds
<1>4. calling = "no" /\ reported = {}
  BY <1>1, <1>2 DEF LoopIs, ReadIs
<1>5. ReadIs(c, 1)' /\ WaitIs(c, 1)'
  BY <1>1, <1>4 DEF ReadIs, WaitIs
<1>6. LoopIs(c, 1)'
  <2>1. slp' = Entry(c, 1)
    BY <1>1, <1>2 DEF ListIs
  <2> QED
    BY <1>1, <1>2, <1>4, <1>5, <2>1 DEF LoopIs, Entry
<1> QED
  BY <1>2, <1>3, <1>6, KeepsInv

\* A visit that calls nothing.
LEMMA PassesStep ==
    ASSUME OnCourse, UNCHANGED list, UNCHANGED <<sock, kind, round, calling, fdset, wait, late>>,
           left' \in [Session -> 0 .. Never],
           \/ Visiting("read") /\ reported' = reported \ {slp} /\ (IsSet(slp) \/ UNCHANGED reported)
           \/ Visiting("timeout") /\ UNCHANGED reported,
           slp' = next[slp]
    PROVE  OnCourse'
<1>1. slp # Null /\ calling = "no"
  BY DEF Visiting
<1>2. PICK c \in Seq(Session), p \in Nat :
          /\ ListIs(c) /\ LoopIs(c, p) /\ ListIs(c)'
          /\ Len(c) \in Nat
          /\ \A i, j \in 1 .. Len(c) : c[i] = c[j] => i = j
          /\ p \in 1 .. Len(c) /\ slp = c[p] /\ slp \in Session
          /\ next[slp] = Entry(c, p + 1) /\ p + 1 \in 1 .. Len(c) + 1
  BY <1>1, Setting
<1>3. SessionsTyped'
  BY DEF OnCourse, SessionsTyped, list
<1>4. ReadIs(c, p + 1)'
  <2>1. CASE round = "read"
    <3>1. From(p) = p /\ From(p + 1)' = p + 1
      BY <1>1 DEF From
    <3>2. /\ \A s \in reported : \E i \in 1 .. Len(c) : i >= p /\ s = c[i]
          /\ \A i \in 1 .. Len(c) : i >= p => (c[i] \in reported <=> IsSet(c[i]))
      BY <1>2, <2>1, <3>1 DEF LoopIs, ReadIs
    <3>3. reported' = reported \ {c[p]}
      BY <1>2, <2>1 DEF Visiting
    <3>4. ASSUME NEW s \in reported, s # c[p] PROVE \E i \in 1 .. Len(c) : i >= p + 1 /\ s = c[i]
      <4>1. PICK i \in 1 .. Len(c) : i >= p /\ s = c[i]
        BY <3>2
      <4>2. i # p
        BY <3>4, <4>1
      <4>3. i >= p + 1
        BY <1>2, <4>1, <4>2
      <4> QED
        BY <4>1, <4>3
    <3>5. ASSUME NEW i \in 1 .. Len(c), i >= p + 1 PROVE c[i] \in reported' <=> IsSet(c[i])'
      <4>1. i >= p /\ i # p
        BY <1>2, <3>5
      <4>2. c[i] # c[p]
        BY <1>2, <4>1
      <4>3. IsSet(c[i])' <=> IsSet(c[i])
        BY DEF IsSet, Marked
      <4> QED
        BY <3>2, <3>3, <4>1, <4>2, <4>3
    <3> QED
      BY <2>1, <3>1, <3>3, <3>4, <3>5 DEF ReadIs
  <2>2. CASE round # "read"
    BY <1>2, <2>2 DEF LoopIs, ReadIs, Visiting
  <2> QED
    BY <2>1, <2>2
<1>5. WaitIs(c, p + 1)'
  BY DEF WaitIs, Visiting
<1>6. LoopIs(c, p + 1)'
  BY <1>1, <1>2, <1>4, <1>5 DEF LoopIs, Entry, Visiting
<1> QED
  BY <1>2, <1>3, <1>6, KeepsInv

\* A visit that calls back; the loop goes on when the callback returns.
LEMMA CallsStep ==
    ASSUME OnCourse, UNCHANGED list, UNCHANGED <<sock, kind, round, slp, fdset, wait, late>>,
           left' \in [Session -> 0 .. Never],
           \/ Visiting("read") /\ reported' = reported \ {slp} /\ calling' \in {"yes", "ended"}
           \/ Visiting("timeout") /\ UNCHANGED reported /\ calling' = "yes"
    PROVE  OnCourse'
<1>1. slp # Null /\ calling = "no"
  BY DEF Visiting
<1>2. PICK c \in Seq(Session), p \in Nat :
          /\ ListIs(c) /\ LoopIs(c, p) /\ ListIs(c)'
          /\ Len(c) \in Nat
          /\ \A i, j \in 1 .. Len(c) : c[i] = c[j] => i = j
          /\ p \in 1 .. Len(c) /\ slp = c[p] /\ slp \in Session
          /\ next[slp] = Entry(c, p + 1) /\ p + 1 \in 1 .. Len(c) + 1
  BY <1>1, Setting
<1>3. SessionsTyped'
  BY DEF OnCourse, SessionsTyped, list, Visiting
<1>4. ReadIs(c, p)'
  <2>1. CASE round = "read"
    <3>1. From(p) = p /\ From(p)' = p + 1
      BY <1>1, <2>1 DEF From, Visiting
    <3>2. /\ \A s \in reported : \E i \in 1 .. Len(c) : i >= p /\ s = c[i]
          /\ \A i \in 1 .. Len(c) : i >= p => (c[i] \in reported <=> IsSet(c[i]))
      BY <1>2, <2>1, <3>1 DEF LoopIs, ReadIs
    <3>3. reported' = reported \ {c[p]}
      BY <1>2, <2>1 DEF Visiting
    <3>4. ASSUME NEW s \in reported, s # c[p] PROVE \E i \in 1 .. Len(c) : i >= p + 1 /\ s = c[i]
      <4>1. PICK i \in 1 .. Len(c) : i >= p /\ s = c[i]
        BY <3>2
      <4>2. i # p
        BY <3>4, <4>1
      <4>3. i >= p + 1
        BY <1>2, <4>1, <4>2
      <4> QED
        BY <4>1, <4>3
    <3>5. ASSUME NEW i \in 1 .. Len(c), i >= p + 1 PROVE c[i] \in reported' <=> IsSet(c[i])'
      <4>1. i >= p /\ i # p
        BY <1>2, <3>5
      <4>2. c[i] # c[p]
        BY <1>2, <4>1
      <4>3. IsSet(c[i])' <=> IsSet(c[i])
        BY DEF IsSet, Marked
      <4> QED
        BY <3>2, <3>3, <4>1, <4>2, <4>3
    <3> QED
      BY <2>1, <3>1, <3>3, <3>4, <3>5 DEF ReadIs
  <2>2. CASE round # "read"
    BY <1>2, <2>2 DEF LoopIs, ReadIs, Visiting
  <2> QED
    BY <2>1, <2>2
<1>5. WaitIs(c, p)'
  BY DEF WaitIs, Visiting
<1>6. LoopIs(c, p)'
  BY <1>1, <1>2, <1>4, <1>5 DEF LoopIs, Entry, Visiting
<1> QED
  BY <1>2, <1>3, <1>6, KeepsInv

LEMMA ReadStep ==
    ASSUME OnCourse, NotReady \/ ReadData \/ ReadEnd \/ AcceptFails
    PROVE  OnCourse'
<1>1. left \in [Session -> 0 .. Never] /\ Never \in 0 .. Never
  BY SessionsAssumption DEF OnCourse, SessionsTyped, Never
<1>2. CASE NotReady
  <2>1. /\ Visiting("read") /\ ~IsSet(slp) /\ slp' = next[slp] /\ UNCHANGED list
        /\ UNCHANGED <<sock, kind, left, round, calling, fdset, wait, reported, late>>
    BY <1>2 DEF NotReady, session, seen
  <2>2. slp \notin reported
    <3>1. PICK c \in Seq(Session), p \in Nat :
              LoopIs(c, p) /\ p \in 1 .. Len(c) /\ slp = c[p]
      BY <2>1, Setting DEF Visiting
    <3>2. From(p) = p
      BY <2>1 DEF From, Visiting
    <3>3. p >= p
      BY <3>1
    <3> QED
      BY <2>1, <3>1, <3>2, <3>3 DEF LoopIs, ReadIs, Visiting
  <2>3. reported' = reported \ {slp}
    BY <2>1, <2>2
  <2> QED
    BY <1>1, <2>1, <2>3, PassesStep
<1>3. CASE AcceptFails
  <2>1. /\ Visiting("read") /\ IsSet(slp) /\ slp' = next[slp] /\ UNCHANGED list
        /\ reported' = reported \ {slp}
        /\ UNCHANGED <<sock, kind, left, round, calling, fdset, wait, late>>
    BY <1>3 DEF AcceptFails, session
  <2> QED
    BY <1>1, <2>1, PassesStep
<1>4. CASE ReadData
  <2>1. /\ Visiting("read") /\ reported' = reported \ {slp} /\ calling' = "yes" /\ UNCHANGED list
        /\ \E t \in {left[slp], Never} : left' = [left EXCEPT ![slp] = t]
        /\ UNCHANGED <<sock, kind, round, slp, fdset, wait, late>>
    BY <1>4 DEF ReadData
  <2>2. slp \in Session
    BY <2>1, Setting DEF Visiting
  <2>3. left' \in [Session -> 0 .. Never]
    BY <1>1, <2>1, <2>2
  <2> QED
    BY <2>1, <2>3, CallsStep
<1>5. CASE ReadEnd
  <2>1. /\ Visiting("read") /\ reported' = reported \ {slp} /\ calling' = "ended" /\ UNCHANGED list
        /\ UNCHANGED <<sock, kind, left, round, slp, fdset, wait, late>>
    BY <1>5 DEF ReadEnd, session
  <2> QED
    BY <1>1, <2>1, CallsStep
<1> QED
  BY <1>2, <1>3, <1>4, <1>5

LEMMA ExpireStep == ASSUME OnCourse, Expire PROVE OnCourse'
<1>1. /\ left \in [Session -> 0 .. Never]
      /\ Never \in 0 .. Never /\ Timeout \in 0 .. Never /\ 0 \in 0 .. Never
  BY SessionsAssumption DEF OnCourse, SessionsTyped, Never
<1>2. CASE NotExpired
  <2>1. /\ Visiting("timeout") /\ slp' = next[slp] /\ UNCHANGED list
        /\ UNCHANGED <<sock, kind, left, round, calling, fdset, wait, reported, late>>
    BY <1>2 DEF NotExpired, session, seen
  <2> QED
    BY <1>1, <2>1, PassesStep
<1>3. CASE Repeat
  <2>1. /\ Visiting("timeout") /\ slp' = next[slp] /\ UNCHANGED list
        /\ \E t \in {0, Timeout} : left' = [left EXCEPT ![slp] = t]
        /\ UNCHANGED <<sock, kind, round, calling, fdset, wait, reported, late>>
    BY <1>3 DEF Repeat, seen
  <2>2. left' \in [Session -> 0 .. Never]
    BY <1>1, <2>1
  <2> QED
    BY <2>1, <2>2, PassesStep
<1>4. CASE GiveUp
  <2>1. /\ Visiting("timeout") /\ calling' = "yes" /\ UNCHANGED list
        /\ left' = [left EXCEPT ![slp] = Never]
        /\ UNCHANGED <<sock, kind, round, slp, fdset, wait, reported, late>>
    BY <1>4 DEF GiveUp, seen
  <2>2. left' \in [Session -> 0 .. Never]
    BY <1>1, <2>1
  <2> QED
    BY <2>1, <2>2, CallsStep
<1> QED
  BY <1>2, <1>3, <1>4 DEF Expire

LEMMA ReturnStep == ASSUME OnCourse, Return PROVE OnCourse'
<1>1. /\ calling # "no" /\ calling' = "no"
      /\ sock' = IF calling = "ended" THEN [sock EXCEPT ![slp] = NoFd] ELSE sock
      /\ slp' = IF round = "info" THEN slp ELSE next[slp]
      /\ UNCHANGED list
      /\ UNCHANGED <<head, next, live, kind, left, round, fdset, wait, reported, late>>
  BY DEF Return, list, seen
<1>2. PICK c \in Seq(Session), p \in Nat :
          /\ ListIs(c) /\ LoopIs(c, p) /\ ListIs(c)'
          /\ Len(c) \in Nat /\ p \in 1 .. Len(c) + 1
          /\ \A i \in 1 .. Len(c) : c[i] \in Session /\ c[i] \in live
          /\ \A i, j \in 1 .. Len(c) : c[i] = c[j] => i = j
          /\ slp # Null => /\ p \in 1 .. Len(c) /\ slp = c[p] /\ slp \in Session
                           /\ next[slp] = Entry(c, p + 1) /\ p + 1 \in 1 .. Len(c) + 1
  BY <1>1, Setting
<1>3. SessionsTyped'
  <2>1. sock' \in [Session -> Fd \cup {NoFd}]
    BY <1>1 DEF OnCourse, SessionsTyped
  <2> QED
    BY <1>1, <2>1 DEF OnCourse, SessionsTyped
<1>4. CASE round = "info"
  <2>1. calling # "ended" /\ sock' = sock /\ slp' = slp
    BY <1>1, <1>2, <1>4 DEF LoopIs
  <2>2. ReadIs(c, p)'
    BY <1>1, <1>2, <1>4 DEF LoopIs, ReadIs
  <2>3. WaitIs(c, p)'
    BY <1>1, <1>2 DEF LoopIs, WaitIs
  <2>4. LoopIs(c, p)'
    BY <1>1, <1>2, <1>4, <2>1, <2>2, <2>3 DEF LoopIs, Entry
  <2> QED
    BY <1>2, <1>3, <2>4, KeepsInv
<1>5. CASE round # "info"
  <2>1. /\ p \in 1 .. Len(c) /\ slp = c[p] /\ round \in {"read", "timeout"}
        /\ p \in Nat
    <3>1. p \in 1 .. Len(c) /\ slp = Entry(c, p) /\ round \notin {"none", "single", "select"}
      BY <1>1, <1>2, <1>5 DEF LoopIs
    <3> QED
      BY <1>5, <3>1 DEF Entry, OnCourse, SessionsTyped, Rounds
  <2>2. slp' = Entry(c, p + 1) /\ p + 1 \in 1 .. Len(c) + 1
    <3>1. slp' = next[c[p]]
      BY <1>1, <1>5, <2>1
    <3> QED
      BY <1>2, <2>1, <3>1 DEF ListIs
  <2>3. ReadIs(c, p + 1)'
    <3>1. CASE round # "read"
      BY <1>1, <1>2, <3>1 DEF LoopIs, ReadIs
    <3>2. CASE round = "read"
      <4>1. From(p) = p + 1 /\ From(p + 1)' = p + 1
        BY <1>1, <3>2 DEF From
      <4>2. /\ \A s \in reported : \E i \in 1 .. Len(c) : i >= p + 1 /\ s = c[i]
            /\ \A i \in 1 .. Len(c) : i >= p + 1 => (c[i] \in reported <=> IsSet(c[i]))
        BY <1>2, <3>2, <4>1 DEF LoopIs, ReadIs
      <4>3. ASSUME NEW i \in 1 .. Len(c), i >= p + 1 PROVE IsSet(c[i])' <=> IsSet(c[i])
        <5>1. i # p
          BY <2>1, <4>3
        <5>2. c[i] # slp /\ c[i] \in Session
          BY <1>2, <2>1, <5>1
        <5>3. sock'[c[i]] = sock[c[i]]
          BY <1>1, <5>2 DEF OnCourse, SessionsTyped
        <5> QED
          BY <1>1, <5>3 DEF IsSet, Marked
      <4> QED
        BY <1>1, <3>2, <4>1, <4>2, <4>3 DEF ReadIs
    <3> QED
      BY <3>1, <3>2
  <2>4. WaitIs(c, p + 1)'
    BY <1>1, <2>1 DEF WaitIs
  <2>5. LoopIs(c, p + 1)'
    BY <1>1, <1>2, <2>1, <2>2, <2>3, <2>4 DEF LoopIs, Entry
  <2> QED
    BY <1>2, <1>3, <2>5, KeepsInv
<1> QED
  BY <1>4, <1>5

\* The steps of a loop that has not lost its place.
LEMMA OnCourseStep ==
    ASSUME OnCourse, ~stray, Next
    PROVE  Close \/ (stray' = stray /\ OnCourse')
<1> SUFFICES ASSUME ~Close PROVE stray' = stray /\ OnCourse'
  OBVIOUS
<1>1. stray' = stray
  BY DEF Next, Open, Send, SingleInfo, EndSingle, Info, StartInfo, Collect, CloseMarked, EndInfo,
         Select, SelectReady, SelectTimesOut, SelectFails, Read, NotReady, ReadData, ReadEnd, Accept,
         AcceptFails, Expire, NotExpired, Repeat, GiveUp, Return, EndRound, seen
<1>2. OnCourse'
  BY OpenStep, SendStep, SingleInfoStep, EndStep, StartInfoStep, CollectStep,
     CloseMarkedStep, EndInfoStep, SelectReadyStep, SelectTimesOutStep, ReadStep, AcceptStep,
     ExpireStep, ReturnStep
  DEF Next, Info, Select, Read
<1> QED
  BY <1>1, <1>2

\* A loop that has lost its place makes no step.
LEMMA AstrayStops == ASSUME Astray, stray, Next PROVE FALSE
  BY DEF Astray, Next, Running, Open, Close, Send, SingleInfo, EndSingle, Info, StartInfo, Collect,
         CloseMarked, EndInfo, Select, SelectReady, SelectTimesOut, SelectFails, Read, NotReady,
         ReadData, ReadEnd, Accept, AcceptFails, Expire, NotExpired, Repeat, GiveUp, Visiting,
         Return, EndRound

LEMMA SessionsNextInv == ASSUME SessionsInv, [Next]_vars PROVE SessionsInv'
<1>1. CASE UNCHANGED vars
  <2>1. /\ UNCHANGED list
        /\ UNCHANGED <<head, next, live, sock, kind, left, round, slp, calling, fdset, wait,
                       reported, late, stray>>
    BY <1>1 DEF vars, list, session, loop, seen
  <2>2. CASE stray
    <3>1. PICK c \in Seq(Session) : ListIs(c)
      BY <2>2 DEF SessionsInv, Astray
    <3>2. ListIs(c)'
      BY <2>1, <3>1, SameList
    <3> QED
      BY <2>1, <2>2, <3>2 DEF SessionsInv, Astray
  <2>3. CASE ~stray
    <3>1. OnCourse
      BY <2>3 DEF SessionsInv
    <3>2. PICK c \in Seq(Session), p \in Nat : ListIs(c) /\ LoopIs(c, p) /\ ListIs(c)'
      BY <2>1, <3>1, Setting
    <3>3. SessionsTyped'
      BY <2>1, <3>1 DEF OnCourse, SessionsTyped
    <3>4. ReadIs(c, p)'
      BY <2>1, <3>2 DEF LoopIs, ReadIs, From, IsSet, Marked
    <3>5. WaitIs(c, p)'
      BY <2>1, <3>2 DEF LoopIs, WaitIs
    <3>6. LoopIs(c, p)'
      BY <2>1, <3>2, <3>4, <3>5 DEF LoopIs, Entry
    <3>7. OnCourse'
      BY <3>2, <3>3, <3>6, KeepsInv
    <3> QED
      BY <2>1, <2>3, <3>7 DEF SessionsInv
  <2> QED
    BY <2>2, <2>3
<1>2. CASE Next
  <2>1. ~stray /\ OnCourse
    BY <1>2, AstrayStops DEF SessionsInv
  <2>2. CASE Close
    BY <2>1, <2>2, CloseStep DEF SessionsInv
  <2>3. CASE ~Close
    BY <1>2, <2>1, <2>3, OnCourseStep DEF SessionsInv
  <2> QED
    BY <2>2, <2>3
<1> QED
  BY <1>1, <1>2

\* The inductive invariant: the list is a sequence and the loop has a place in it, unless a
\* callback has closed the session in this place.
THEOREM SessionsInvariance == Spec => []SessionsInv
  BY SessionsInitInv, SessionsNextInv, PTL DEF Spec

\* The loops over the sessions are safe, and none of them misses a session: no loop goes on
\* with one that was freed unless a callback has closed this very session, snmp_read2 reads every session that was reported and is still open, and
\* select waits for no longer than any request may.
THEOREM SessionsAlwaysSound == Spec => []LoopsSound
<1>1. ASSUME Astray, stray PROVE LoopsSound
  <2>1. Listed = live
    BY <1>1, ListedIs DEF Astray, ListIs
  <2> QED
    BY <1>1, <2>1 DEF Astray, LoopsSound, LoopsOnLive, ReportedAreRead, WakesInTime
<1>2. OnCourse => LoopsSound
  <2> SUFFICES ASSUME OnCourse PROVE LoopsSound
    OBVIOUS
  <2>1. PICK c \in Seq(Session), p \in Nat :
            /\ ListIs(c) /\ LoopIs(c, p)
            /\ Len(c) \in Nat /\ p \in 1 .. Len(c) + 1
            /\ slp # Null => p \in 1 .. Len(c) /\ slp = c[p] /\ slp \in live
            /\ slp = Null => p = Len(c) + 1
    BY AtEntry, ListFacts DEF OnCourse, LoopIs
  <2>2. Listed = live
    BY <2>1, ListedIs DEF ListIs
  <2>3. LoopsOnLive
    BY <2>1, <2>2 DEF LoopsOnLive
  <2>4. ReportedAreRead
    <3> SUFFICES ASSUME round = "read", slp = Null, calling = "no" PROVE reported = {}
      BY DEF ReportedAreRead
    <3>1. From(p) = Len(c) + 1
      BY <2>1 DEF From
    <3> QED
      BY <2>1, <3>1 DEF LoopIs, ReadIs
  <2>5. WakesInTime
    <3> SUFFICES ASSUME round = "select", NEW s \in live, s \notin late PROVE wait <= left[s]
      BY <2>2 DEF WakesInTime
    <3>1. PICK i \in 1 .. Len(c) : s = c[i]
      BY <2>1, ListFacts
    <3>2. i < p
      BY <2>1 DEF LoopIs
    <3> QED
      BY <2>1, <3>1, <3>2 DEF LoopIs, WaitIs
  <2> QED
    BY <2>3, <2>4, <2>5 DEF LoopsSound
<1>3. SessionsInv => LoopsSound
  BY <1>1, <1>2 DEF SessionsInv
<1> QED
  BY <1>3, SessionsInvariance, PTL

\* A session is read only if select has reported its own descriptor in this round, although a
\* session opened in a callback may be given the number of one that was reported and closed.
THEOREM ReadOnlyIfReported == Spec => [][ReadsOnlyReported]_vars
<1>1. SessionsInv => ReadsOnlyReported
  <2> SUFFICES ASSUME SessionsInv, Visiting("read"), IsSet(slp) PROVE slp \in reported
    BY DEF ReadsOnlyReported, ReadData, ReadEnd
  <2>0. OnCourse
    BY DEF SessionsInv, Astray, Visiting
  <2>1. PICK c \in Seq(Session), p \in Nat :
            ListIs(c) /\ LoopIs(c, p) /\ p \in 1 .. Len(c) /\ slp = c[p]
    BY <2>0, AtEntry DEF OnCourse, Visiting
  <2>2. From(p) = p /\ p >= p
    BY <2>1 DEF From, Visiting
  <2> QED
    BY <2>1, <2>2 DEF LoopIs, ReadIs, Visiting
<1> QED
  BY <1>1, SessionsInvariance, PTL DEF Spec

=============================================================================
