---------------------------- MODULE MessageProofs ----------------------------
(***************************************************************************)
(* Proofs about the encoding of values and of whole messages, for octets   *)
(* and longs of any width, identifiers and lists of variables of any       *)
(* length, and any set of PDUs that can be built.                          *)
(*                                                                         *)
(* BerCodec     What either encoder makes of a value is decoded to that    *)
(*              value, and to nothing if octets are missing.               *)
(* SnmpMessage  What either builder makes of a PDU is parsed to that PDU,  *)
(*              its variables in order, and to nothing if octets are       *)
(*              missing or the session is of another version.              *)
(*                                                                         *)
(* A type, a length and contents are a frame.  A frame that stands at a    *)
(* position, before an end, is entered by the parser and left behind its   *)
(* last octet; so a parser is shown to read what is laid down in front of  *)
(* it, from objects over variables and PDUs to messages.                   *)
(***************************************************************************)
EXTENDS SnmpMessage, SequenceLemmas

-----------------------------------------------------------------------------
(* BerCodec: powers, digits and the numbers they make                      *)

\* h[i] is b to the i.
PowersUpto(h, b, N) == /\ h[0] = 1 /\ \A i \in 1 .. N : h[i] = h[i - 1] * b
                       /\ h[N] = Power(b, N)

\* The powers of b, each from the one before.
LEMMA PowerIs ==
    ASSUME NEW b \in Nat \ {0}, NEW N \in Nat
    PROVE  \E h \in [0 .. N -> Nat \ {0}] : PowersUpto(h, b, N)
<1> DEFINE V == Nat \ {0}
           step == [x \in (1 .. N) \X V |-> x[2] * b]
           upTo[j \in 0 .. N] == IF j = 0 THEN 1 ELSE upTo[j - 1] * b
           Eqn(g) == [j \in 0 .. N |-> IF j = 0 THEN 1 ELSE g[j - 1] * b]
<1>1. \A m \in V : m * b \in V
  OBVIOUS
<1>2. step \in [(1 .. N) \X V -> V] /\ 1 \in V
  <2> HIDE DEF V
  <2> QED
    BY <1>1 DEF V
<1>3. PICK g \in [0 .. N -> V] : Stepwise(g, step, 1, N)
  <2> HIDE DEF V, step
  <2> QED
    BY <1>2, StepwiseExists
<1>4. g[0] = 1 /\ \A j \in 1 .. N : g[j] = g[j - 1] * b
  <2>1. \A j \in 1 .. N : g[j - 1] \in V /\ g[j] = step[<<j, g[j - 1]>>]
    <3> HIDE DEF V, step
    <3> QED
      BY <1>3 DEF Stepwise
  <2>2. \A j \in 1 .. N : step[<<j, g[j - 1]>>] = g[j - 1] * b
    <3> HIDE DEF V
    <3> QED
      BY <2>1
  <2>3. g[0] = 1
    BY <1>3 DEF Stepwise
  <2> QED
    BY <2>1, <2>2, <2>3
<1>5. g = Eqn(g)
  <2> HIDE DEF V
  <2> QED
    BY <1>4
<1>6. upTo = Eqn(upTo)
  BY <1>5
<1> HIDE DEF upTo
<1>7. upTo[0] = 1 /\ \A j \in 1 .. N : upTo[j] = upTo[j - 1] * b
  BY <1>6
<1>8. upTo \in [0 .. N -> V]
  <2> DEFINE T == {i \in Nat : i <= N => upTo[i] \in V}
  <2>1. 0 \in T
    BY <1>7
  <2>2. ASSUME NEW i \in Nat, i \in T PROVE i + 1 \in T
    <3> SUFFICES ASSUME i + 1 <= N PROVE upTo[i + 1] \in V
      OBVIOUS
    <3>1. upTo[i + 1] = upTo[i] * b /\ upTo[i] \in V
      BY <1>7, <2>2
    <3> HIDE DEF V
    <3> QED
      BY <1>1, <3>1
  <2> HIDE DEF T
  <2>3. Nat \subseteq T
    BY <2>1, <2>2, SetInduction
  <2>4. \A i \in 0 .. N : upTo[i] \in V
    BY <2>3 DEF T
  <2> HIDE DEF V
  <2> QED
    BY <1>6, <2>4
<1>9. Power(b, N) = upTo[N]
  BY DEF Power, upTo
<1> QED
  BY <1>7, <1>8, <1>9 DEF PowersUpto

\* The power of b with one exponent more.
LEMMA PowerNext ==
    ASSUME NEW b \in Nat \ {0}, NEW k \in Nat
    PROVE  /\ Power(b, k) \in Nat \ {0}
           /\ Power(b, 0) = 1
           /\ Power(b, k + 1) = Power(b, k) * b
<1>1. PICK h \in [0 .. 0 -> Nat \ {0}] : PowersUpto(h, b, 0)
  BY PowerIs
<1>2. PICK f \in [0 .. k -> Nat \ {0}] : PowersUpto(f, b, k)
  BY PowerIs
<1>3. PICK g \in [0 .. k + 1 -> Nat \ {0}] : PowersUpto(g, b, k + 1)
  <2>1. k + 1 \in Nat
    OBVIOUS
  <2> QED
    BY <2>1, PowerIs
<1>4. f[k] = g[k]
  <2> DEFINE T == {i \in Nat : i <= k => f[i] = g[i]}
  <2>1. 0 \in T
    BY <1>2, <1>3 DEF PowersUpto
  <2>2. ASSUME NEW i \in Nat, i \in T PROVE i + 1 \in T
    <3> SUFFICES ASSUME i + 1 <= k PROVE f[i + 1] = g[i + 1]
      OBVIOUS
    <3>1. f[i] = g[i] /\ i + 1 \in 1 .. k /\ i + 1 \in 1 .. k + 1 /\ (i + 1) - 1 = i
      BY <2>2
    <3>2. f[i + 1] = f[i] * b /\ g[i + 1] = g[i] * b
      BY <1>2, <1>3, <3>1 DEF PowersUpto
    <3> QED
      BY <3>1, <3>2
  <2> HIDE DEF T
  <2>3. k \in T
    BY <2>1, <2>2, SetInduction
  <2> QED
    BY <2>3 DEF T
<1>5. g[k + 1] = g[k] * b
  <2>1. k + 1 \in 1 .. k + 1 /\ (k + 1) - 1 = k
    OBVIOUS
  <2> QED
    BY <1>3, <2>1 DEF PowersUpto
<1>6. f[k] \in Nat \ {0}
  OBVIOUS
<1> QED
  BY <1>1, <1>2, <1>3, <1>4, <1>5, <1>6 DEF PowersUpto

\* h[i] is what the first i digits say.
NumberUpto(h, start, s, b) == /\ h[0] = start /\ \A i \in 1 .. Len(s) : h[i] = h[i - 1] * b + s[i]
                              /\ h[Len(s)] = Number(start, s, b)

\* What digits say, from one digit to the next.
LEMMA NumberIs ==
    ASSUME NEW b \in Int, NEW start \in Int, NEW s \in Seq(Int)
    PROVE  \E h \in [0 .. Len(s) -> Int] : NumberUpto(h, start, s, b)
<1> DEFINE N == Len(s)
           step == [x \in (1 .. N) \X Int |-> x[2] * b + s[x[1]]]
           upTo[j \in 0 .. N] == IF j = 0 THEN start ELSE upTo[j - 1] * b + s[j]
           Eqn(g) == [j \in 0 .. N |-> IF j = 0 THEN start ELSE g[j - 1] * b + s[j]]
<1>1. N \in Nat /\ \A j \in 1 .. N : s[j] \in Int
  BY LenProperties
<1>2. step \in [(1 .. N) \X Int -> Int]
  <2> HIDE DEF N
  <2> QED
    BY <1>1
<1>3. PICK g \in [0 .. N -> Int] : Stepwise(g, step, start, N)
  <2> HIDE DEF N, step
  <2> QED
    BY <1>1, <1>2, StepwiseExists
<1> HIDE DEF N
<1>4. g[0] = start /\ \A j \in 1 .. N : g[j] = g[j - 1] * b + s[j]
  <2>1. \A j \in 1 .. N : g[j - 1] \in Int /\ g[j] = step[<<j, g[j - 1]>>]
    <3> HIDE DEF step
    <3> QED
      BY <1>1, <1>3 DEF Stepwise
  <2>2. \A j \in 1 .. N : step[<<j, g[j - 1]>>] = g[j - 1] * b + s[j]
    BY <2>1
  <2>3. g[0] = start
    BY <1>3 DEF Stepwise
  <2> QED
    BY <2>1, <2>2, <2>3
<1>5. g = Eqn(g)
  BY <1>1, <1>4
<1>6. upTo = Eqn(upTo)
  BY <1>5
<1> HIDE DEF upTo
<1>7. upTo[0] = start /\ \A j \in 1 .. N : upTo[j] = upTo[j - 1] * b + s[j]
  BY <1>1, <1>6
<1>8. upTo \in [0 .. N -> Int]
  <2> DEFINE T == {i \in Nat : i <= N => upTo[i] \in Int}
  <2>1. 0 \in T
    BY <1>7
  <2>2. ASSUME NEW i \in Nat, i \in T PROVE i + 1 \in T
    <3> SUFFICES ASSUME i + 1 <= N PROVE upTo[i + 1] \in Int
      OBVIOUS
    <3>1. i + 1 \in 1 .. N /\ (i + 1) - 1 = i
      BY <1>1
    <3>2. upTo[i + 1] = upTo[i] * b + s[i + 1] /\ upTo[i] \in Int /\ s[i + 1] \in Int
      BY <1>1, <1>7, <2>2, <3>1
    <3> QED
      BY <3>2
  <2> HIDE DEF T
  <2>3. Nat \subseteq T
    BY <2>1, <2>2, SetInduction
  <2>4. \A i \in 0 .. N : upTo[i] \in Int
    BY <1>1, <2>3 DEF T
  <2> QED
    BY <1>6, <2>4
<1>9. Number(start, s, b) = upTo[N]
  BY DEF Number, upTo, N
<1> QED
  BY <1>1, <1>7, <1>8, <1>9 DEF NumberUpto, N

\* One digit more.
LEMMA NumberAppend ==
    ASSUME NEW b \in Int, NEW start \in Int, NEW s \in Seq(Int), NEW d \in Int
    PROVE  /\ Number(start, s, b) \in Int
           /\ Number(start, <<>>, b) = start
           /\ Number(start, Append(s, d), b) = Number(start, s, b) * b + d
<1> DEFINE N == Len(s)
           t == Append(s, d)
<1>1. /\ N \in Nat /\ t \in Seq(Int) /\ Len(t) = N + 1 /\ t[N + 1] = d
      /\ \A i \in 1 .. N : t[i] = s[i]
  BY LenProperties, AppendProperties
<1> HIDE DEF N, t
<1>2. PICK f \in [0 .. N -> Int] : NumberUpto(f, start, s, b)
  BY NumberIs DEF N
<1>3. PICK g \in [0 .. N + 1 -> Int] : NumberUpto(g, start, t, b)
  BY <1>1, NumberIs
<1>4. f[N] = g[N]
  <2> DEFINE T == {i \in Nat : i <= N => f[i] = g[i]}
  <2>1. 0 \in T
    BY <1>2, <1>3 DEF NumberUpto
  <2>2. ASSUME NEW i \in Nat, i \in T PROVE i + 1 \in T
    <3> SUFFICES ASSUME i + 1 <= N PROVE f[i + 1] = g[i + 1]
      OBVIOUS
    <3>1. f[i] = g[i] /\ i + 1 \in 1 .. N /\ i + 1 \in 1 .. N + 1 /\ (i + 1) - 1 = i
      BY <1>1, <2>2
    <3>2. f[i + 1] = f[i] * b + s[i + 1]
      BY <1>2, <3>1 DEF NumberUpto, N
    <3>3. g[i + 1] = g[i] * b + t[i + 1]
      BY <1>1, <1>3, <3>1 DEF NumberUpto
    <3> QED
      BY <1>1, <3>1, <3>2, <3>3
  <2> HIDE DEF T
  <2>3. N \in T
    BY <1>1, <2>1, <2>2, SetInduction
  <2> QED
    BY <1>1, <2>3 DEF T
<1>5. g[N + 1] = g[N] * b + d
  <2>1. N + 1 \in 1 .. N + 1 /\ (N + 1) - 1 = N
    BY <1>1
  <2> QED
    BY <1>1, <1>3, <2>1 DEF NumberUpto
<1>6. f[N] = Number(start, s, b) /\ f[N] \in Int
  BY <1>1, <1>2 DEF NumberUpto, N
<1>7. g[N + 1] = Number(start, t, b)
  BY <1>1, <1>3 DEF NumberUpto
<1>8. Number(start, <<>>, b) = start
  <2>1. <<>> \in Seq(Int) /\ Len(<<>>) = 0
    OBVIOUS
  <2>2. PICK h \in [0 .. 0 -> Int] : NumberUpto(h, start, <<>>, b)
    BY <2>1, NumberIs
  <2> QED
    BY <2>1, <2>2 DEF NumberUpto
<1> QED
  BY <1>4, <1>5, <1>6, <1>7, <1>8 DEF t

\* A function of the first n numbers is a sequence of n elements.
LEMMA FunctionIsSeq ==
    ASSUME NEW n \in Nat, NEW S, NEW s \in [1 .. n -> S]
    PROVE  s \in Seq(S) /\ Len(s) = n
<1>1. s \in Seq(S)
  BY SeqDef
<1>2. Len(s) \in Nat /\ DOMAIN s = 1 .. Len(s) /\ DOMAIN s = 1 .. n
  BY <1>1, LenProperties
<1> DEFINE m == Len(s)
<1> HIDE DEF m
<1>3. m = n
  <2>1. m \in Nat /\ 1 .. m = 1 .. n
    BY <1>2 DEF m
  <2>2. m > 0 => m \in 1 .. n
    BY <2>1
  <2>3. n > 0 => n \in 1 .. m
    BY <2>1
  <2> QED
    BY <2>1, <2>2, <2>3
<1> QED
  BY <1>1, <1>3 DEF m

\* Dividing with remainder.
LEMMA DivMod ==
    ASSUME NEW n \in Int, NEW b \in Nat \ {0}
    PROVE  /\ n \div b \in Int /\ n % b \in 0 .. b - 1
           /\ n = (n \div b) * b + (n % b)
  OBVIOUS

\* Quotient and remainder, when they are known.
LEMMA DivUnique ==
    ASSUME NEW b \in Nat \ {0}, NEW q \in Int, NEW r \in 0 .. b - 1
    PROVE  (q * b + r) \div b = q /\ (q * b + r) % b = r
<1> DEFINE n == q * b + r
           p == n \div b
           s == n % b
<1>1. n \in Int /\ n = q * b + r
  OBVIOUS
<1>2. p \in Int /\ s \in 0 .. b - 1 /\ n = p * b + s
  BY <1>1, DivMod
<1> HIDE DEF n, p, s
<1>3. CASE q = p
  BY <1>1, <1>2, <1>3 DEF n, p, s
<1>4. CASE q > p
  <2>1. q = p + (q - p) /\ q - p \in Nat \ {0}
    BY <1>2, <1>4
  <2> DEFINE d == q - p
  <2>2. q * b = p * b + d * b /\ d \in Nat \ {0} /\ d * b >= b
    BY <1>2, <2>1
  <2> HIDE DEF d
  <2> DEFINE x == q * b
             y == p * b
             z == d * b
  <2>3. x \in Int /\ y \in Int /\ z \in Int
    BY <1>2, <2>2
  <2> HIDE DEF x, y, z
  <2> QED
    BY ONLY <1>1, <1>2, <2>2, <2>3, b \in Nat \ {0}, r \in 0 .. b - 1 DEF x, y, z
<1>5. CASE q < p
  <2>1. p = q + (p - q) /\ p - q \in Nat \ {0}
    BY <1>2, <1>5
  <2> DEFINE d == p - q
  <2>2. p * b = q * b + d * b /\ d \in Nat \ {0} /\ d * b >= b
    BY <1>2, <2>1
  <2> HIDE DEF d
  <2> QED
    BY ONLY <1>1, <1>2, <2>2, b \in Nat \ {0}, r \in 0 .. b - 1
<1> QED
  BY <1>2, <1>3, <1>4, <1>5

\* Dividing by a product is dividing twice.
LEMMA DivTwice ==
    ASSUME NEW n \in Int, NEW a \in Nat \ {0}, NEW b \in Nat \ {0}
    PROVE  /\ a * b \in Nat \ {0}
           /\ n \div (a * b) = (n \div a) \div b
           /\ n % (a * b) = ((n \div a) % b) * a + (n % a)
<1> DEFINE c == a * b
           q == n \div a
           r == n % a
           p == q \div b
           s == q % b
<1>1. c \in Nat \ {0}
  OBVIOUS
<1>2. q \in Int /\ r \in 0 .. a - 1 /\ n = q * a + r
  BY DivMod
<1>3. p \in Int /\ s \in 0 .. b - 1 /\ q = p * b + s
  BY <1>2, DivMod
<1> HIDE DEF q, r, p, s
<1>4. n = p * c + (s * a + r)
  <2>1. q * a = p * (a * b) + s * a
    BY <1>2, <1>3
  <2> QED
    BY <1>2, <1>3, <2>1
<1>5. s * a + r \in 0 .. c - 1
  <2>1. s * a >= 0 /\ (b - 1 - s) * a >= 0
    BY <1>3
  <2>2. (b - 1 - s) * a = c - a - s * a
    BY <1>3
  <2>3. s * a \in Int
    BY <1>3
  <2> DEFINE x == s * a
             y == (b - 1 - s) * a
  <2> HIDE DEF x, y, c
  <2> QED
    BY <1>1, <1>2, <2>1, <2>2, <2>3 DEF x, y
<1> HIDE DEF c
<1>6. n \div c = p /\ n % c = s * a + r
  BY <1>1, <1>3, <1>4, <1>5, DivUnique
<1> QED
  BY <1>1, <1>6 DEF c, p, s, q, r

\* The quotient alone.
LEMMA DivDiv ==
    ASSUME NEW n \in Int, NEW a \in Nat \ {0}, NEW b \in Nat \ {0}
    PROVE  n \div (a * b) = (n \div a) \div b
<1>1. /\ a * b \in Nat \ {0}
      /\ n \div (a * b) = (n \div a) \div b
      /\ n % (a * b) = ((n \div a) % b) * a + (n % a)
  BY DivTwice
<1> QED
  BY <1>1

\* The next power of b has one factor more.
LEMMA PowerAdd ==
    ASSUME NEW b \in Nat \ {0}, NEW i \in Nat, NEW k \in Nat
    PROVE  Power(b, i + k) = Power(b, i) * Power(b, k)
<1> DEFINE T == {m \in Nat : Power(b, i + m) = Power(b, i) * Power(b, m)}
<1>1. 0 \in T
  <2>1. Power(b, i) \in Nat
    BY PowerNext
  <2>2. Power(b, 0) = 1
    BY PowerNext
  <2>3. i + 0 = i
    OBVIOUS
  <2> DEFINE x == Power(b, i)
  <2>4. x * 1 = x
    BY <2>1
  <2> HIDE DEF x
  <2> QED
    BY <2>2, <2>3, <2>4 DEF x
<1>2. ASSUME NEW m \in Nat, m \in T PROVE m + 1 \in T
  <2>1. /\ Power(b, i + m) = Power(b, i) * Power(b, m)
        /\ i + m \in Nat /\ i + (m + 1) = (i + m) + 1
    BY <1>2
  <2>2. Power(b, (i + m) + 1) = Power(b, i + m) * b
    BY <2>1, PowerNext
  <2>3. Power(b, m + 1) = Power(b, m) * b /\ Power(b, m) \in Nat /\ Power(b, i) \in Nat
    BY PowerNext
  <2> DEFINE x == Power(b, i)
             y == Power(b, m)
  <2>4. (x * y) * b = x * (y * b)
    <3> HIDE DEF x, y
    <3> QED
      BY <2>3 DEF x, y
  <2> QED
    BY <2>1, <2>2, <2>3, <2>4
<1> HIDE DEF T
<1>3. k \in T
  BY <1>1, <1>2, SetInduction
<1> QED
  BY <1>3 DEF T

\* The lowest digit is the last one.
LEMMA DigitsNext ==
    ASSUME NEW b \in Nat \ {0}, NEW n \in Int, NEW k \in Nat
    PROVE  /\ Digits(n, k, b) \in Seq(0 .. b - 1) /\ Len(Digits(n, k, b)) = k
           /\ Digits(n, k + 1, b) = Append(Digits(n \div b, k, b), n % b)
<1>1. \A m \in Int, j \in 1 .. k : (m \div Power(b, k - j)) % b \in 0 .. b - 1
  <2> TAKE m \in Int, j \in 1 .. k
  <2>1. k - j \in Nat
    OBVIOUS
  <2>2. Power(b, k - j) \in Nat \ {0}
    BY <2>1, PowerNext
  <2>3. m \div Power(b, k - j) \in Int
    BY <2>2, DivMod
  <2> QED
    BY <2>3, DivMod
<1>2. ASSUME NEW m \in Int PROVE Digits(m, k, b) \in [1 .. k -> 0 .. b - 1]
  BY <1>1 DEF Digits
<1>3. ASSUME NEW m \in Int PROVE Digits(m, k, b) \in Seq(0 .. b - 1) /\ Len(Digits(m, k, b)) = k
  BY <1>2, <1>3, FunctionIsSeq
<1>4. n \div b \in Int /\ n % b \in 0 .. b - 1
  BY DivMod
<1> DEFINE s == Digits(n \div b, k, b)
           t == Digits(n, k + 1, b)
<1>5. s \in Seq(0 .. b - 1) /\ Len(s) = k /\ \A j \in 1 .. k : s[j] = ((n \div b) \div Power(b, k - j)) % b
  BY <1>3, <1>4 DEF Digits
<1>6. \A j \in 1 .. k : t[j] = s[j]
  <2> TAKE j \in 1 .. k
  <2>1. k - j \in Nat /\ (k + 1) - j = (k - j) + 1 /\ j \in 1 .. k + 1
    OBVIOUS
  <2>2. Power(b, (k - j) + 1) = Power(b, k - j) * b /\ Power(b, k - j) \in Nat \ {0}
    BY <2>1, PowerNext
  <2> DEFINE p == Power(b, k - j)
  <2> HIDE DEF p
  <2>3. p \in Nat \ {0}
    BY <2>2 DEF p
  <2>4. /\ b * p \in Nat \ {0}
        /\ n \div (b * p) = (n \div b) \div p
        /\ n % (b * p) = ((n \div b) % p) * b + (n % b)
    BY <2>3, DivTwice, Zenon
  <2>5. n \div (b * p) = (n \div b) \div p
    BY <2>4
  <2>6. b * p = p * b
    BY <2>2 DEF p
  <2>7. t[j] = (n \div Power(b, (k - j) + 1)) % b
    BY <2>1 DEF Digits
  <2> HIDE DEF s, t
  <2> QED
    BY <1>5, <2>2, <2>5, <2>7, <2>6 DEF p
<1>7. t[k + 1] = n % b
  <2>1. k + 1 \in 1 .. k + 1 /\ (k + 1) - (k + 1) = 0
    OBVIOUS
  <2>2. t[k + 1] = (n \div Power(b, 0)) % b
    BY <2>1 DEF Digits
  <2>3. Power(b, 0) = 1 /\ n \div 1 = n
    BY PowerNext
  <2> QED
    BY <2>2, <2>3
<1>8. t \in Seq(0 .. b - 1) /\ Len(t) = k + 1
  <2>1. t \in [1 .. k + 1 -> 0 .. b - 1]
    <3>1. \A j \in 1 .. k + 1 : t[j] \in 0 .. b - 1
      <4>1. \A j \in 1 .. k + 1 : j = k + 1 \/ j \in 1 .. k
        OBVIOUS
      <4>2. \A j \in 1 .. k : s[j] \in 0 .. b - 1
        BY <1>5, LenProperties
      <4> HIDE DEF s, t
      <4> QED
        BY <1>4, <1>6, <1>7, <4>1, <4>2
    <3> QED
      BY <3>1 DEF Digits
  <2> HIDE DEF t
  <2> QED
    BY <2>1, LenProperties
<1>9. /\ Append(s, n % b) \in Seq(0 .. b - 1) /\ Len(Append(s, n % b)) = k + 1
      /\ Append(s, n % b)[k + 1] = n % b
      /\ \A j \in 1 .. k : Append(s, n % b)[j] = s[j]
  <2> HIDE DEF s
  <2> QED
    BY <1>4, <1>5, AppendProperties
<1>10. \A j \in 1 .. k + 1 : j = k + 1 \/ j \in 1 .. k
  OBVIOUS
<1>11. t = Append(s, n % b)
  <2> HIDE DEF s, t
  <2> QED
    BY <1>6, <1>7, <1>8, <1>9, <1>10, SeqEqual
<1> QED
  BY <1>3, <1>11 DEF s, t

\* The k lowest digits say what is left of n modulo the k-th power.
LEMMA NumberDigits ==
    ASSUME NEW b \in Nat \ {0}, NEW n \in Int, NEW k \in Nat, NEW start \in Int
    PROVE  Number(start, Digits(n, k, b), b) = start * Power(b, k) + (n % Power(b, k))
<1> DEFINE T == {i \in Nat : \A m \in Int : Number(start, Digits(m, i, b), b) = start * Power(b, i) + (m % Power(b, i))}
<1>1. 0 \in T
  <2> SUFFICES ASSUME NEW m \in Int PROVE Number(start, Digits(m, 0, b), b) = start * Power(b, 0) + (m % Power(b, 0))
    OBVIOUS
  <2>1. Digits(m, 0, b) = <<>>
    <3>1. Digits(m, 0, b) \in Seq(0 .. b - 1) /\ Len(Digits(m, 0, b)) = 0
      BY DigitsNext
    <3> QED
      BY <3>1, EmptySeq
  <2>2. Power(b, 0) = 1 /\ m % 1 = 0
    BY PowerNext
  <2>3. <<>> \in Seq(Int) /\ 0 \in Int /\ b \in Int
    OBVIOUS
  <2>4. Number(start, <<>>, b) = start
    BY ONLY <2>3, start \in Int, NumberAppend
  <2> QED
    BY <2>1, <2>2, <2>4
<1>2. ASSUME NEW i \in Nat, i \in T PROVE i + 1 \in T
  <2> SUFFICES ASSUME NEW m \in Int PROVE Number(start, Digits(m, i + 1, b), b) = start * Power(b, i + 1) + (m % Power(b, i + 1))
    OBVIOUS
  <2> DEFINE q == m \div b
             r == m % b
             s == Digits(q, i, b)
             p == Power(b, i)
  <2>1. q \in Int /\ r \in 0 .. b - 1 /\ r \in Int
    BY DivMod
  <2>2. Digits(m, i + 1, b) = Append(s, r)
    BY DigitsNext
  <2>3. p \in Nat \ {0} /\ Power(b, i + 1) = p * b
    BY PowerNext
  <2>4. m % (b * p) = (q % p) * b + r
    <3> HIDE DEF p
    <3> QED
      BY <2>3, DivTwice
  <2>5. Number(start, s, b) = start * p + (q % p)
    <3> HIDE DEF q
    <3> QED
      BY <1>2, <2>1
  <2>6. s \in Seq(Int)
    <3>1. s \in Seq(0 .. b - 1)
      <4> HIDE DEF q
      <4> QED
        BY <2>1, DigitsNext
    <3>2. 0 .. b - 1 \subseteq Int
      OBVIOUS
    <3> HIDE DEF s
    <3> QED
      BY <3>1, <3>2
  <2> HIDE DEF q, r, s, p
  <2>7. Number(start, Append(s, r), b) = Number(start, s, b) * b + r
    BY <2>1, <2>6, NumberAppend
  <2>8. q % p \in Int /\ p * b = b * p
    BY <2>1, <2>3, DivMod
  <2> DEFINE x == q % p
  <2> HIDE DEF x
  <2>9. (start * p + x) * b = start * (p * b) + x * b
    BY <2>3, <2>8 DEF x
  <2> DEFINE y == p * b
             w == start * y
  <2> HIDE DEF y, w
  <2>10. y \in Int /\ w \in Int
    <3>1. y \in Int
      BY <2>3 DEF y
    <3> QED
      BY <3>1 DEF w
  <2>11. x * b \in Int
    BY <2>8 DEF x
  <2>12. Number(start, Append(s, r), b) = w + (x * b) + r
    BY <2>5, <2>7, <2>9 DEF x, y, w
  <2>13. m % y = x * b + r
    BY <2>4, <2>8 DEF x, y
  <2>14. Number(start, Append(s, r), b) = w + (m % y)
    <3> DEFINE z == x * b
    <3>1. z \in Int /\ Number(start, Append(s, r), b) = w + z + r /\ m % y = z + r
      BY <2>11, <2>12, <2>13
    <3> HIDE DEF z
    <3>2. w \in Int /\ r \in Int
      BY <2>1, <2>10
    <3> DEFINE v == m % y
    <3> HIDE DEF v
    <3>3. w + z + r = w + v
      BY <3>1, <3>2 DEF v
    <3> QED
      BY <3>1, <3>3 DEF v
  <2> QED
    BY <2>2, <2>3, <2>14 DEF y, w
<1> HIDE DEF T
<1>3. k \in T
  BY <1>1, <1>2, SetInduction
<1> QED
  BY <1>3 DEF T

-----------------------------------------------------------------------------
(* BerCodec: integers                                                      *)

Half(k) == Power(Octet, k) \div 2

\* The widths of octets and longs.
LEMMA Widths ==
  /\ Octet \in Nat /\ High \in Nat /\ High >= 2 /\ Octet = 2 * High
  /\ LongOctets \in Nat \ {0} /\ WideOctets \in Nat /\ WideOctets = 2 * LongOctets
<1>1. OctetBits - 2 \in Nat /\ OctetBits - 1 \in Nat /\ (OctetBits - 2) + 1 = OctetBits - 1
      /\ (OctetBits - 1) + 1 = OctetBits
  BY BerAssumption
<1>2. Power(2, OctetBits - 1) = Power(2, OctetBits - 2) * 2 /\ Power(2, OctetBits - 2) \in Nat \ {0}
  BY <1>1, PowerNext
<1>3. Power(2, OctetBits) = Power(2, OctetBits - 1) * 2
  BY <1>1, PowerNext
<1> DEFINE x == Power(2, OctetBits - 2)
           y == Power(2, OctetBits - 1)
           z == Power(2, OctetBits)
<1>4. x \in Nat \ {0} /\ y = x * 2 /\ z = y * 2
  BY <1>2, <1>3
<1>5. High = y /\ Octet = z
  BY DEF High, Octet
<1> HIDE DEF x, y, z
<1>6. y \in Nat /\ z \in Nat /\ y >= 2 /\ z = 2 * y
  BY <1>4
<1>7. LongOctets \in Nat \ {0} /\ WideOctets \in Nat /\ WideOctets = 2 * LongOctets
  BY BerAssumption DEF WideOctets
<1> QED
  BY <1>5, <1>6, <1>7

\* Half of what k octets can hold is what the sign is seen from.
LEMMA HalfIs ==
    ASSUME NEW k \in Nat \ {0}
    PROVE  /\ Half(k) \in Nat \ {0} /\ Power(Octet, k) = 2 * Half(k)
           /\ Power(Octet, k - 1) \in Nat \ {0}
           /\ Half(k) = Power(Octet, k - 1) * High
           /\ Power(Octet, k) = Power(Octet, k - 1) * Octet
<1>1. Octet \in Nat \ {0} /\ High \in Nat \ {0} /\ Octet = 2 * High
  BY Widths
<1>2. k - 1 \in Nat /\ (k - 1) + 1 = k
  OBVIOUS
<1>3. Power(Octet, k) = Power(Octet, k - 1) * Octet /\ Power(Octet, k - 1) \in Nat \ {0}
  BY <1>1, <1>2, PowerNext
<1> DEFINE p == Power(Octet, k - 1)
           h == p * High
<1>4. h \in Nat \ {0}
  BY <1>1, <1>3
<1>5. p * Octet = 2 * h
  <2> HIDE DEF p
  <2> QED
    BY <1>1, <1>3 DEF p
<1> HIDE DEF h
<1>6. (2 * h) \div 2 = h
  BY <1>4
<1> QED
  BY <1>3, <1>4, <1>5, <1>6 DEF Half, h

\* What is read with a sign is n, but for multiples of the power.
LEMMA SignedIs ==
    ASSUME NEW n \in Int, NEW k \in Nat \ {0}
    PROVE  /\ Cut(n, k) \in 0 .. Power(Octet, k) - 1
           /\ Signed(n, k) \in -Half(k) .. Half(k) - 1
           /\ Signed(n, k) = IF Cut(n, k) >= Half(k) THEN Cut(n, k) - Power(Octet, k) ELSE Cut(n, k)
           /\ n \in -Half(k) .. Half(k) - 1 => Signed(n, k) = n
           /\ n \in 0 .. Power(Octet, k) - 1 => Cut(n, k) = n
<1> DEFINE h == Half(k)
           p == Power(Octet, k)
           q == n \div p
           c == n % p
<1>1. h \in Nat \ {0} /\ p = 2 * h
  BY HalfIs
<1> HIDE DEF h, p
<1>2. p \in Nat \ {0}
  BY <1>1
<1>3. q \in Int /\ c \in 0 .. p - 1 /\ n = q * p + c
  BY <1>2, DivMod
<1>4. Cut(n, k) = c /\ Signed(n, k) = IF c >= h THEN c - p ELSE c
  BY DEF Cut, Signed, Half, h, p
<1>5. ASSUME n \in 0 .. p - 1 PROVE c = n
  <2>1. n = 0 * p + n /\ 0 \in Int
    BY <1>2
  <2>2. (0 * p + n) % p = n
    BY <1>2, <1>5, DivUnique
  <2> QED
    BY <2>1, <2>2
<1>6. ASSUME n \in -h .. -1 PROVE c = n + p
  <2>1. n = (-1) * p + (n + p) /\ n + p \in 0 .. p - 1
    BY <1>1, <1>2, <1>6
  <2> DEFINE r == n + p
  <2>2. n = (-1) * p + r /\ r \in 0 .. p - 1
    BY <2>1
  <2> HIDE DEF r
  <2>3. ((-1) * p + r) % p = r
    BY <1>2, <2>2, DivUnique
  <2> QED
    BY <2>2, <2>3 DEF r
<1> HIDE DEF q, c
<1>7. n \in -h .. h - 1 => Signed(n, k) = n
  BY <1>1, <1>4, <1>5, <1>6
<1>8. Signed(n, k) \in -h .. h - 1
  BY <1>1, <1>3, <1>4
<1> QED
  BY <1>3, <1>4, <1>5, <1>7, <1>8 DEF h, p

\* The first octet shows the sign.
LEMMA FirstOctet ==
    ASSUME NEW n \in Int, NEW k \in Nat \ {0}
    PROVE  /\ Octets(n, k) \in Seq(0 .. Octet - 1) /\ Len(Octets(n, k)) = k
           /\ Octets(n, k)[1] = (n \div Power(Octet, k - 1)) % Octet
           /\ Octets(n, k)[1] >= High <=> Cut(n, k) >= Half(k)
<1>1. Octet \in Nat \ {0} /\ High \in Nat \ {0} /\ Octet = 2 * High
  BY Widths
<1> DEFINE p == Power(Octet, k - 1)
           d == (n \div p) % Octet
           r == n % p
<1>2. p \in Nat \ {0} /\ Half(k) = p * High /\ Power(Octet, k) = p * Octet
  BY HalfIs
<1> HIDE DEF p
<1>3. n % (p * Octet) = d * p + r
  BY <1>1, <1>2, DivTwice
<1>4. r \in 0 .. p - 1
  BY <1>2, DivMod
<1>5. d \in 0 .. Octet - 1
  <2>1. n \div p \in Int
    BY <1>2, DivMod
  <2> QED
    BY <1>1, <2>1, DivMod
<1> HIDE DEF d, r
<1>6. Cut(n, k) = d * p + r
  BY <1>2, <1>3 DEF Cut
<1>7. ASSUME d >= High PROVE d * p + r >= p * High
  <2>1. (d - High) * p >= 0 /\ (d - High) * p = d * p - p * High
    BY <1>1, <1>2, <1>5, <1>7
  <2> DEFINE x == (d - High) * p
             y == d * p
             z == p * High
  <2>2. x \in Int /\ y \in Int /\ z \in Int
    BY <1>1, <1>2, <1>5
  <2> HIDE DEF x, y, z
  <2> QED
    BY <1>4, <2>1, <2>2 DEF x, y, z
<1>8. ASSUME ~(d >= High) PROVE ~(d * p + r >= p * High)
  <2>1. (High - 1 - d) * p >= 0 /\ (High - 1 - d) * p = p * High - p - d * p
    BY <1>1, <1>2, <1>5, <1>8
  <2> DEFINE x == (High - 1 - d) * p
             y == d * p
             z == p * High
  <2>2. x \in Int /\ y \in Int /\ z \in Int
    BY <1>1, <1>2, <1>5
  <2> HIDE DEF x, y, z
  <2> QED
    BY <1>2, <1>4, <2>1, <2>2 DEF x, y, z
<1>9. Octets(n, k) \in Seq(0 .. Octet - 1) /\ Len(Octets(n, k)) = k
  BY <1>1, DigitsNext DEF Octets
<1>10. Octets(n, k)[1] = d
  <2>1. 1 \in 1 .. k
    OBVIOUS
  <2> QED
    BY <2>1 DEF Octets, Digits, d, p
<1> QED
  BY <1>2, <1>6, <1>7, <1>8, <1>9, <1>10 DEF d, p

\* Read from its sign on, what k octets hold of n is n as a signed integer;
\* read from 0 on, it is what was cut.
LEMMA OctetsRead ==
    ASSUME NEW n \in Int, NEW k \in Nat \ {0}
    PROVE  /\ Number(SignOf(Octets(n, k)), Octets(n, k), Octet) = Signed(n, k)
           /\ Number(0, Octets(n, k), Octet) = Cut(n, k)
<1>1. Octet \in Nat \ {0}
  BY Widths
<1> DEFINE s == Octets(n, k)
           p == Power(Octet, k)
           c == Cut(n, k)
<1>2. \A start \in Int : Number(start, s, Octet) = start * p + c
  BY <1>1, NumberDigits DEF Octets, Cut
<1>3. s \in Seq(0 .. Octet - 1) /\ Len(s) = k /\ (s[1] >= High <=> c >= Half(k))
  BY FirstOctet
<1>4. Signed(n, k) = (IF c >= Half(k) THEN c - p ELSE c) /\ c \in 0 .. p - 1
  BY SignedIs
<1>5. p \in Nat \ {0}
  BY <1>1, PowerNext
<1> HIDE DEF s, c, p
<1>6. s # <<>>
  BY <1>3, EmptySeq
<1>7. SignOf(s) = IF c >= Half(k) THEN -1 ELSE 0
  BY <1>3, <1>6 DEF SignOf
<1>8. (-1) * p + c = c - p /\ 0 * p + c = c
  BY <1>4, <1>5
<1> QED
  BY <1>2, <1>4, <1>7, <1>8 DEF s, c

\* A set of numbers has a least element.
LEMMA LeastIs ==
    ASSUME NEW I \in SUBSET Nat, I # {}
    PROVE  Least(I) \in I /\ \A j \in I : Least(I) <= j
<1>1. \E n \in I : \A m \in I : n <= m
  BY LeastOf
<1> QED
  BY <1>1 DEF Least

\* An octet that is redundant says nothing.
LEMMA RedundantKeeps ==
    ASSUME NEW n \in Int, NEW j \in Nat \ {0, 1}, Redundant(n, j)
    PROVE  Signed(n, j) = Signed(n, j - 1)
<1>1. j - 1 \in Nat \ {0} /\ j \in Nat \ {0} /\ (j - 1) - 1 \in Nat
  OBVIOUS
<1>2. Octet \in Nat /\ High \in Nat /\ High >= 2 /\ Octet = 2 * High /\ Octet \in Nat \ {0}
  BY Widths
<1> DEFINE q == Half(j - 1)
           p == Power(Octet, j - 1)
<1>3. q \in Nat \ {0} /\ p = 2 * q
  BY <1>1, HalfIs
<1>4. Power(Octet, j) = p * Octet /\ Half(j) = p * High
  BY <1>1, HalfIs
<1> DEFINE c == Cut(n, j)
           d == Cut(n, j - 1)
           e == (n \div p) % Octet
           t == c \div q
           u == c % q
<1>5. /\ c \in 0 .. Power(Octet, j) - 1
      /\ Signed(n, j) = IF c >= Half(j) THEN c - Power(Octet, j) ELSE c
  BY <1>1, SignedIs
<1>6. /\ d \in 0 .. p - 1
      /\ Signed(n, j - 1) = IF d >= q THEN d - p ELSE d
  BY <1>1, SignedIs
<1>7. p \in Nat \ {0}
  BY <1>3
<1>8. c = e * p + d
  <2>1. n % (p * Octet) = ((n \div p) % Octet) * p + (n % p)
    <3> HIDE DEF p
    <3> QED
      BY <1>2, <1>7, DivTwice
  <2> QED
    BY <1>4, <2>1 DEF Cut
<1>9. e \in 0 .. Octet - 1
  <2> HIDE DEF p
  <2>1. n \div p \in Int
    BY <1>7, DivMod
  <2> QED
    BY <1>2, <2>1, DivMod
<1>10. t \in {0, 2 * Octet - 1}
  BY DEF Redundant, TopBits, Half
<1> HIDE DEF q, p, c, d, e
<1>11. c \in Int /\ u \in 0 .. q - 1 /\ c = t * q + u
  <2>1. c \in Int
    <3>1. Power(Octet, j) \in Int
      BY <1>2, PowerNext
    <3> QED
      BY <1>5, <3>1
  <2> QED
    BY <1>3, <2>1, DivMod
<1> HIDE DEF t, u
<1>12. CASE t = 0
  <2>1. c = u
    BY <1>3, <1>11, <1>12
  <2>2. e = 0
    <3> SUFFICES ASSUME e >= 1 PROVE FALSE
      BY <1>2, <1>9
    <3>1. (e - 1) * p >= 0 /\ (e - 1) * p = e * p - p
      BY <1>7, <1>9
    <3> DEFINE x == e * p
               y == (e - 1) * p
    <3>2. x \in Int /\ y \in Int
      BY <1>7, <1>9
    <3> HIDE DEF x, y
    <3> QED
      BY <1>3, <1>6, <1>7, <1>8, <1>11, <2>1, <3>1, <3>2 DEF x, y
  <2>3. d = c
    BY <1>6, <1>7, <1>8, <2>2
  <2>4. Half(j) >= q
    <3>1. q * High >= q
      BY <1>2, <1>3
    <3>2. p * High = 2 * (q * High)
      BY <1>2, <1>3
    <3> DEFINE x == q * High
    <3>3. x \in Int
      BY <1>2, <1>3
    <3> HIDE DEF x
    <3> QED
      BY <1>3, <1>4, <3>1, <3>2, <3>3 DEF x
  <2>5. Half(j) \in Nat
    BY <1>2, <1>4, <1>7
  <2> QED
    BY <1>3, <1>5, <1>6, <1>11, <2>1, <2>3, <2>4, <2>5
<1>13. CASE t = 2 * Octet - 1
  <2> DEFINE z == q * Octet
  <2>1. z \in Nat /\ z >= q /\ p * Octet = 2 * z
    <3>1. z >= q
      BY <1>2, <1>3
    <3>2. p * Octet = 2 * z
      BY <1>2, <1>3
    <3>3. z \in Nat
      BY <1>2, <1>3
    <3> QED
      BY <3>1, <3>2, <3>3
  <2>2. (2 * Octet - 1) * q = 2 * z - q
    BY <1>2, <1>3
  <2>3. p * High = z
    BY <1>2, <1>3
  <2> HIDE DEF z
  <2>4. c = 2 * z - q + u
    BY <1>11, <1>13, <2>2
  <2>5. e = Octet - 1
    <3> SUFFICES ASSUME e <= Octet - 2 PROVE FALSE
      BY <1>2, <1>9
    <3>1. (Octet - 2 - e) * p >= 0 /\ (Octet - 2 - e) * p = p * Octet - 2 * p - e * p
      BY <1>2, <1>7, <1>9
    <3> DEFINE x == e * p
               y == (Octet - 2 - e) * p
               w == p * Octet
    <3>2. x \in Int /\ y \in Int /\ w \in Int
      BY <1>2, <1>7, <1>9
    <3> HIDE DEF x, y, w
    <3> QED
      BY <1>3, <1>6, <1>7, <1>8, <1>11, <2>1, <2>4, <3>1, <3>2 DEF x, y, w
  <2>6. d = c - 2 * z + p
    <3>1. e * p = p * Octet - p
      BY <1>2, <1>7, <2>5
    <3> DEFINE x == e * p
    <3>2. x \in Int
      BY <1>7, <1>9
    <3> HIDE DEF x
    <3>3. x = 2 * z - p
      BY <2>1, <3>1 DEF x
    <3> QED
      BY <1>6, <1>7, <1>8, <1>11, <2>1, <3>2, <3>3 DEF x
  <2>7. Half(j) = z /\ Power(Octet, j) = 2 * z
    BY <1>4, <2>1, <2>3
  <2> QED
    BY <1>3, <1>5, <1>6, <1>11, <2>1, <2>4, <2>6, <2>7
<1> QED
  BY <1>10, <1>12, <1>13

\* n as m of its octets, which show it; k octets and one more, where n needs them.
Shown(s, n, m, k) == /\ s = Octets(n, m) /\ Signed(n, m) = n
                     /\ m = k + 1 => n >= Half(k)

Encoded(s, n, k) == \E m \in 1 .. k + 1 : Shown(s, n, m, k)

\* asn_build_int, asn_build_signed_int64: octets that show the value.
LEMMA BuildSignedIs ==
    ASSUME NEW k \in Nat \ {0}, NEW n \in -Half(k) .. Half(k) - 1
    PROVE  Encoded(BuildSigned(n, k), n, k)
<1>1. Half(k) \in Nat \ {0}
  BY HalfIs
<1>2. n \in Int
  BY <1>1
<1> DEFINE I == {j \in 1 .. k : \A m \in j + 1 .. k : Redundant(n, m)}
           i == Least(I)
<1>3. i \in I /\ \A m \in I : i <= m
  <2>1. k \in I
    OBVIOUS
  <2>2. I \in SUBSET Nat
    OBVIOUS
  <2> HIDE DEF I
  <2> QED
    BY <2>1, <2>2, LeastIs
<1>4. i \in 1 .. k /\ \A m \in i + 1 .. k : Redundant(n, m)
  BY <1>3
<1>5. BuildSigned(n, k) = Octets(n, i)
  BY DEF BuildSigned
<1> HIDE DEF i, I
<1> DEFINE T == {x \in Nat : x <= k - i => Signed(n, k - x) = n}
<1>6. 0 \in T
  <2>1. k - 0 = k /\ Signed(n, k) = n
    BY <1>2, SignedIs
  <2> QED
    BY <2>1
<1>7. ASSUME NEW x \in Nat, x \in T PROVE x + 1 \in T
  <2> SUFFICES ASSUME x + 1 <= k - i PROVE Signed(n, k - (x + 1)) = n
    OBVIOUS
  <2>1. k - x \in i + 1 .. k /\ k - x \in Nat \ {0, 1} /\ k - (x + 1) = (k - x) - 1 /\ x <= k - i
    BY <1>4
  <2>2. Signed(n, k - x) = Signed(n, (k - x) - 1)
    BY <1>2, <1>4, <2>1, RedundantKeeps
  <2> QED
    BY <1>7, <2>1, <2>2
<1> HIDE DEF T
<1>8. k - i \in T
  <2>1. k - i \in Nat
    BY <1>4
  <2> QED
    BY <1>6, <1>7, <2>1, SetInduction
<1>9. Signed(n, i) = n
  <2>1. k - (k - i) = i /\ k - i \in Nat
    BY <1>4
  <2> QED
    BY <1>8, <2>1 DEF T
<1>10. i \in 1 .. k + 1 /\ i # k + 1
  BY <1>4
<1> QED
  BY <1>5, <1>9, <1>10 DEF Encoded, Shown

\* asn_build_unsigned_int, asn_build_unsigned_int64: one octet more where the
\* sign would be seen otherwise.
LEMMA BuildUnsignedIs ==
    ASSUME NEW k \in Nat \ {0}, NEW n \in 0 .. Power(Octet, k) - 1
    PROVE  Encoded(BuildUnsigned(n, k), n, k)
<1>1. Half(k) \in Nat \ {0} /\ Power(Octet, k) = 2 * Half(k)
  BY HalfIs
<1>2. CASE n >= Half(k)
  <2>1. k + 1 \in Nat \ {0} /\ (k + 1) - 1 = k
    OBVIOUS
  <2>2. Half(k + 1) = Power(Octet, k) * High /\ Half(k + 1) \in Nat
    BY <2>1, HalfIs
  <2>3. High \in Nat /\ High >= 2
    BY Widths
  <2>4. Half(k + 1) >= Power(Octet, k)
    BY <1>1, <2>2, <2>3
  <2>5. Signed(n, k + 1) = n
    <3>1. n \in -Half(k + 1) .. Half(k + 1) - 1 /\ n \in Int
      BY <1>1, <2>2, <2>4
    <3> QED
      BY <2>1, <3>1, SignedIs
  <2>6. BuildUnsigned(n, k) = Octets(n, k + 1)
    BY <1>2 DEF BuildUnsigned, Half
  <2>7. k + 1 \in 1 .. k + 1
    OBVIOUS
  <2> QED
    BY <1>2, <2>5, <2>6, <2>7 DEF Encoded, Shown
<1>3. CASE ~(n >= Half(k))
  <2>1. n \in -Half(k) .. Half(k) - 1
    BY <1>1, <1>3
  <2>2. BuildUnsigned(n, k) = BuildSigned(n, k)
    BY <1>3 DEF BuildUnsigned, Half
  <2> QED
    BY <2>1, <2>2, BuildSignedIs
<1> QED
  BY <1>2, <1>3

\* A number within a power either way divides to its sign.
LEMMA DivSign ==
    ASSUME NEW p \in Nat \ {0}, NEW n \in -p .. p - 1
    PROVE  n \div p = IF n < 0 THEN -1 ELSE 0
<1>1. CASE n < 0
  <2> DEFINE r == n + p
  <2>1. r \in 0 .. p - 1 /\ n = (-1) * p + r
    BY <1>1
  <2> HIDE DEF r
  <2>2. ((-1) * p + r) \div p = -1
    BY <2>1, DivUnique
  <2> QED
    BY <1>1, <2>1, <2>2
<1>2. CASE ~(n < 0)
  <2>1. n \in 0 .. p - 1 /\ n = 0 * p + n
    BY <1>2
  <2>2. (0 * p + n) \div p = 0
    BY <2>1, DivUnique
  <2> QED
    BY <1>2, <2>1, <2>2
<1> QED
  BY <1>1, <1>2

\* Octets of the upper part, and those of the lower part behind them.
LEMMA OctetsConcat ==
    ASSUME NEW n \in Int, NEW j \in Nat, NEW m \in Nat
    PROVE  /\ n \div Power(Octet, m) \in Int
           /\ Octets(n \div Power(Octet, m), j) \o Octets(n, m) = Octets(n, j + m)
<1>1. Octet \in Nat \ {0}
  BY Widths
<1> DEFINE p == Power(Octet, m)
           h == n \div p
           s == Octets(h, j)
           t == Octets(n, m)
           u == Octets(n, j + m)
           S == 0 .. Octet - 1
<1>2. p \in Nat \ {0}
  BY <1>1, PowerNext
<1>3. h \in Int
  <2> HIDE DEF p
  <2> QED
    BY <1>2, DivMod
<1>4. s \in Seq(S) /\ Len(s) = j
  <2> HIDE DEF h
  <2> QED
    BY <1>1, <1>3, DigitsNext DEF Octets
<1>5. t \in Seq(S) /\ Len(t) = m
  BY <1>1, DigitsNext DEF Octets
<1>6. u \in Seq(S) /\ Len(u) = j + m
  <2>1. j + m \in Nat
    OBVIOUS
  <2> QED
    BY <1>1, <2>1, DigitsNext DEF Octets
<1>7. ASSUME NEW i \in 1 .. j PROVE s[i] = u[i]
  <2>1. j - i \in Nat /\ (j + m) - i = m + (j - i) /\ i \in 1 .. j + m
    OBVIOUS
  <2>2. Power(Octet, m + (j - i)) = p * Power(Octet, j - i)
    BY <1>1, <2>1, PowerAdd
  <2> DEFINE q == Power(Octet, j - i)
  <2>3. q \in Nat \ {0}
    BY <1>1, <2>1, PowerNext
  <2>4. s[i] = (h \div q) % Octet
    BY DEF Octets, Digits
  <2>5. u[i] = (n \div Power(Octet, m + (j - i))) % Octet
    BY <2>1 DEF Octets, Digits
  <2> HIDE DEF p, q, h, s, t, u, S
  <2>6. n \div (p * q) = (n \div p) \div q
    BY <1>2, <2>3, DivDiv, Zenon
  <2> QED
    BY <2>2, <2>4, <2>5, <2>6 DEF q, h
<1>8. ASSUME NEW i \in j + 1 .. j + m PROVE t[i - j] = u[i]
  <2>1. i - j \in 1 .. m /\ m - (i - j) = (j + m) - i /\ i \in 1 .. j + m
    OBVIOUS
  <2>2. t[i - j] = (n \div Power(Octet, m - (i - j))) % Octet
    BY <2>1 DEF Octets, Digits
  <2>3. u[i] = (n \div Power(Octet, (j + m) - i)) % Octet
    BY <2>1 DEF Octets, Digits
  <2> QED
    BY <2>1, <2>2, <2>3
<1> HIDE DEF s, t, u, h, S
<1>9. /\ s \o t \in Seq(S) /\ Len(s \o t) = j + m
      /\ \A i \in 1 .. j + m : (s \o t)[i] = IF i <= j THEN s[i] ELSE t[i - j]
  BY <1>4, <1>5, ConcatProperties
<1>10. \A i \in 1 .. j + m : (s \o t)[i] = u[i]
  <2> TAKE i \in 1 .. j + m
  <2>1. CASE i <= j
    <3>1. i \in 1 .. j
      BY <2>1
    <3> QED
      BY <1>7, <1>9, <2>1, <3>1
  <2>2. CASE ~(i <= j)
    <3>1. i \in j + 1 .. j + m
      BY <2>2
    <3> QED
      BY <1>8, <1>9, <2>2, <3>1
  <2> QED
    BY <2>1, <2>2
<1>11. s \o t = u
  BY <1>6, <1>9, <1>10, SeqEqual
<1> QED
  BY <1>3, <1>11 DEF s, t, u, h

\* The lower octets do not change by multiples of a higher power.
LEMMA OctetsShift ==
    ASSUME NEW n \in Int, NEW c \in Int, NEW k \in Nat, NEW j \in 0 .. k
    PROVE  Octets(n + c * Power(Octet, k), j) = Octets(n, j)
<1>1. Octet \in Nat \ {0}
  BY Widths
<1> DEFINE p == Power(Octet, k)
           m == n + c * p
<1>2. ASSUME NEW i \in 1 .. j PROVE (m \div Power(Octet, j - i)) % Octet = (n \div Power(Octet, j - i)) % Octet
  <2>1. j - i \in Nat /\ k - (j - i) - 1 \in Nat /\ (j - i) + ((k - (j - i) - 1) + 1) = k
    OBVIOUS
  <2> DEFINE q == Power(Octet, j - i)
             r == Power(Octet, k - (j - i) - 1)
             x == n \div q
             y == n % q
  <2>2. q \in Nat \ {0} /\ r \in Nat \ {0}
    BY <1>1, <2>1, PowerNext
  <2>3. p = q * (r * Octet)
    <3>1. p = q * Power(Octet, (k - (j - i) - 1) + 1)
      <4>1. (k - (j - i) - 1) + 1 \in Nat
        BY <2>1
      <4>2. Power(Octet, (j - i) + ((k - (j - i) - 1) + 1)) = q * Power(Octet, (k - (j - i) - 1) + 1)
        BY <1>1, <2>1, <4>1, PowerAdd
      <4> QED
        BY <2>1, <4>2
    <3>2. Power(Octet, (k - (j - i) - 1) + 1) = r * Octet
      BY <1>1, <2>1, PowerNext
    <3> QED
      BY <3>1, <3>2
  <2> HIDE DEF p, q, r
  <2>4. x \in Int /\ y \in 0 .. q - 1 /\ n = x * q + y
    BY <2>2, DivMod
  <2> HIDE DEF x, y
  <2>5. c * p = (c * (r * Octet)) * q
    <3> DEFINE z == r * Octet
    <3>1. z \in Nat
      BY <1>1, <2>2
    <3> HIDE DEF z
    <3>2. p = q * z
      BY <2>3 DEF z
    <3>3. c * (q * z) = (c * z) * q
      BY <2>2, <3>1
    <3> QED
      BY <3>2, <3>3 DEF z
  <2> DEFINE w == c * (r * Octet)
  <2>6. w \in Int /\ w = (c * r) * Octet /\ c * r \in Int
    <3>1. c * r \in Int
      BY <2>2
    <3>2. c * (r * Octet) = (c * r) * Octet
      BY <1>1, <2>2
    <3> DEFINE v == c * r
    <3> HIDE DEF v
    <3>3. v * Octet \in Int
      BY <1>1, <3>1 DEF v
    <3> QED
      BY <3>1, <3>2, <3>3 DEF v
  <2> HIDE DEF w
  <2>7. m = (x + w) * q + y
    <3>1. (x + w) * q = x * q + w * q
      BY <2>2, <2>4, <2>6
    <3>2. c * p = w * q
      BY <2>5 DEF w
    <3> DEFINE a == x * q
               b == w * q
    <3>3. a \in Int /\ b \in Int
      BY <2>2, <2>4, <2>6
    <3> HIDE DEF a, b
    <3>4. (x + w) * q = a + b /\ m = n + b /\ n = a + y
      BY <2>4, <3>1, <3>2 DEF a, b
    <3> QED
      BY <2>4, <3>3, <3>4
  <2>8. x + w \in Int
    BY <2>4, <2>6
  <2> DEFINE z == x + w
  <2> HIDE DEF z
  <2>9. (z * q + y) \div q = z
    BY <2>2, <2>4, <2>8, DivUnique DEF z
  <2>10. m \div q = x + w
    BY <2>7, <2>9 DEF z
  <2>11. (x + w) % Octet = x % Octet
    <3> DEFINE a == x \div Octet
               b == x % Octet
               v == c * r
    <3>1. a \in Int /\ b \in 0 .. Octet - 1 /\ x = a * Octet + b
      BY <1>1, <2>4, DivMod
    <3> HIDE DEF a, b, v
    <3>2. v \in Int /\ w = v * Octet
      BY <2>6 DEF v
    <3>3. x + w = (a + v) * Octet + b
      <4>1. (a + v) * Octet = a * Octet + v * Octet
        BY <1>1, <3>1, <3>2
      <4> DEFINE d == a * Octet
                 e == v * Octet
      <4>2. d \in Int /\ e \in Int
        BY <1>1, <3>1, <3>2
      <4> HIDE DEF d, e
      <4>3. (a + v) * Octet = d + e /\ w = e /\ x = d + b
        BY <3>1, <3>2, <4>1 DEF d, e
      <4> QED
        BY <3>1, <4>2, <4>3
    <3>4. a + v \in Int
      BY <3>1, <3>2
    <3> DEFINE z1 == a + v
    <3> HIDE DEF z1
    <3>5. (z1 * Octet + b) % Octet = b
      BY <1>1, <3>1, <3>4, DivUnique DEF z1
    <3> QED
      BY <3>3, <3>5 DEF z1, b
  <2> QED
    BY <2>10, <2>11 DEF q, x
<1> QED
  BY <1>2 DEF Octets, Digits, p, m

\* Octets down to the sign, and one more if the first does not show it.
LEMMA WithSignIs ==
    ASSUME NEW k \in Nat \ {0}, NEW n \in -Half(k) .. Power(Octet, k) - 1, NEW m \in 1 .. k,
           NEW t \in {-1, 0}, n \div Power(Octet, m) = t
    PROVE  Encoded(WithSign(Octets(n, m), t), n, k)
<1>1. Octet \in Nat \ {0}
  BY Widths
<1>2. Half(k) \in Nat \ {0} /\ Power(Octet, k) = 2 * Half(k)
  BY HalfIs
<1>3. n \in Int /\ m \in Nat \ {0}
  BY <1>2
<1> DEFINE p == Power(Octet, m)
           c == Cut(n, m)
           s == Octets(n, m)
           h == Half(m)
<1>4. h \in Nat \ {0} /\ p = 2 * h
  BY <1>3, HalfIs
<1>5. n = t * p + c /\ c \in 0 .. p - 1
  <2> HIDE DEF p
  <2>1. p \in Nat \ {0}
    BY <1>4
  <2>2. c = n % p
    BY DEF Cut, p
  <2>3. n \div p = t
    BY DEF p
  <2> HIDE DEF c
  <2> QED
    BY <1>3, <2>1, <2>2, <2>3, DivMod
<1>6. (s[1] >= High <=> c >= h) /\ Signed(n, m) = IF c >= h THEN c - p ELSE c
  BY <1>3, FirstOctet, SignedIs
<1> HIDE DEF p, c, s, h
<1>7. CASE (s[1] >= High) = (t = -1)
  <2>1. WithSign(s, t) = s
    BY <1>7 DEF WithSign
  <2>2. Signed(n, m) = n
    <3>1. t = -1 \/ t = 0
      OBVIOUS
    <3>2. (-1) * p = -p /\ 0 * p = 0
      BY <1>4
    <3> QED
      BY <1>4, <1>5, <1>6, <1>7, <3>1, <3>2
  <2>3. m \in 1 .. k + 1 /\ m # k + 1
    OBVIOUS
  <2>4. Shown(s, n, m, k)
    BY <2>2, <2>3 DEF Shown, s
  <2> QED
    BY <2>1, <2>3, <2>4 DEF Encoded, s
<1>8. CASE (s[1] >= High) # (t = -1)
  <2>1. WithSign(s, t) = <<t % Octet>> \o s
    BY <1>8 DEF WithSign
  <2>2. <<t % Octet>> \o s = Octets(n, m + 1)
    <3>1. Octets(t, 1) \o s = Octets(n, 1 + m)
      <4>1. 1 \in Nat /\ m \in Nat
        BY <1>3
      <4> QED
        BY <1>3, <4>1, OctetsConcat DEF s
    <3>2. Octets(t, 1) = <<t % Octet>>
      <4>1. Octets(t, 1) = [j \in 1 .. 1 |-> (t \div Power(Octet, 1 - j)) % Octet]
        BY DEF Octets, Digits
      <4>2. Power(Octet, 0) = 1
        BY <1>1, PowerNext
      <4>3. \A j \in 1 .. 1 : (t \div Power(Octet, 1 - j)) % Octet = t % Octet
        <5> TAKE j \in 1 .. 1
        <5>1. 1 - j = 0
          OBVIOUS
        <5>2. t \div 1 = t
          OBVIOUS
        <5> QED
          BY <4>2, <5>1, <5>2
      <4>4. Octets(t, 1) = [j \in 1 .. 1 |-> t % Octet]
        BY <4>1, <4>3
      <4> QED
        BY <4>4
    <3>3. 1 + m = m + 1
      BY <1>3
    <3> QED
      BY <3>1, <3>2, <3>3
  <2>3. m + 1 \in Nat \ {0} /\ (m + 1) - 1 = m
    BY <1>3
  <2>4. Signed(n, m + 1) = n
    <3>1. Half(m + 1) = p * High /\ Half(m + 1) \in Nat
      BY <2>3, HalfIs DEF p
    <3>2. High \in Nat /\ High >= 2
      BY Widths
    <3>3. Half(m + 1) >= p
      BY <1>4, <3>1, <3>2
    <3>4. n \in -p .. p - 1
      <4>1. t = -1 \/ t = 0
        OBVIOUS
      <4>2. (-1) * p = -p /\ 0 * p = 0
        BY <1>4
      <4> QED
        BY <1>4, <1>5, <4>1, <4>2
    <3>5. n \in -Half(m + 1) .. Half(m + 1) - 1
      BY <1>4, <3>1, <3>3, <3>4
    <3> QED
      BY <1>3, <2>3, <3>5, SignedIs
  <2>5. m = k => n >= Half(k)
    <3> SUFFICES ASSUME m = k PROVE n >= Half(k)
      OBVIOUS
    <3>1. p = Power(Octet, k) /\ h = Half(k)
      BY DEF p, h
    <3>2. (-1) * p = -p /\ 0 * p = 0
      BY <1>4
    <3>3. t = -1 \/ t = 0
      OBVIOUS
    <3> QED
      BY <1>2, <1>4, <1>5, <1>6, <1>8, <3>1, <3>2, <3>3, SMTT(30)
  <2>6. m + 1 \in 1 .. k + 1 /\ (m + 1 = k + 1 => m = k)
    BY <1>3
  <2>7. Shown(Octets(n, m + 1), n, m + 1, k)
    BY <2>4, <2>5, <2>6 DEF Shown
  <2> QED
    BY <2>1, <2>2, <2>6, <2>7 DEF Encoded, s
<1> QED
  BY <1>7, <1>8

\* asn_realloc_rbuild_int, asn_realloc_rbuild_unsigned_int.
LEMMA RBuildIs ==
    ASSUME NEW n \in -Half(LongOctets) .. Word - 1
    PROVE  Encoded(RBuild(n, IF n < 0 THEN -1 ELSE 0), n, LongOctets)
<1> DEFINE L == LongOctets
           t == IF n < 0 THEN -1 ELSE 0
           I == {j \in 1 .. L : n \div Power(Octet, j) = t}
           m == Least(I)
<1>1. L \in Nat \ {0}
  BY Widths
<1>2. Half(L) \in Nat \ {0} /\ Word = 2 * Half(L) /\ Word = Power(Octet, L)
  BY <1>1, HalfIs DEF Word
<1>3. t \in {-1, 0}
  OBVIOUS
<1>4. L \in I
  <2>1. Word \in Nat \ {0} /\ n \in -Word .. Word - 1
    BY <1>2
  <2>2. n \div Word = t
    BY <2>1, DivSign
  <2>3. L \in 1 .. L
    BY <1>1
  <2> QED
    BY <1>2, <2>2, <2>3
<1>5. m \in I
  <2>1. I \in SUBSET Nat
    OBVIOUS
  <2> HIDE DEF I
  <2> QED
    BY <1>4, <2>1, LeastIs
<1>6. m \in 1 .. L /\ n \div Power(Octet, m) = t
  <2> HIDE DEF m, t
  <2> QED
    BY <1>5
<1>7. RBuild(n, t) = WithSign(Octets(n, m), t)
  BY DEF RBuild
<1> HIDE DEF I, m, t
<1>8. n \in -Half(L) .. Power(Octet, L) - 1
  BY <1>2
<1>9. Encoded(WithSign(Octets(n, m), t), n, L)
  <2> HIDE DEF L
  <2> QED
    BY <1>1, <1>3, <1>6, <1>8, WithSignIs
<1> QED
  BY <1>7, <1>9 DEF t

\* 64-bit integers, in two words.
LEMMA RBuildWideIs ==
    ASSUME NEW n \in -Half(WideOctets) .. Power(Octet, WideOctets) - 1, NEW signed \in BOOLEAN
    PROVE  Encoded(RBuildWide(n, IF n < 0 THEN -1 ELSE 0, signed), n, WideOctets)
<1> DEFINE L == LongOctets
           K == WideOctets
           t == IF n < 0 THEN -1 ELSE 0
           high == n \div Word
           low == IF signed THEN Signed(n, L) ELSE n % Word
           I(x) == {j \in 1 .. L : x \div Power(Octet, j) = t \/ j = L}
           m == IF high = t THEN Least(I(low)) ELSE L + Least(I(high))
<1>1. L \in Nat \ {0} /\ K = 2 * L /\ K \in Nat \ {0} /\ L + L = K /\ Octet \in Nat \ {0}
  BY Widths
<1>2. Half(L) \in Nat \ {0} /\ Word = 2 * Half(L) /\ Word = Power(Octet, L)
  BY <1>1, HalfIs DEF Word
<1>3. Half(K) \in Nat \ {0} /\ Power(Octet, K) = 2 * Half(K)
  BY <1>1, HalfIs
<1>4. n \in Int /\ t \in {-1, 0} /\ Word \in Nat \ {0}
  BY <1>2, <1>3
<1> DEFINE r == n % Word
<1>5. high \in Int /\ r \in 0 .. Word - 1 /\ n = high * Word + r
  BY <1>4, DivMod
<1>6. Signed(n, L) = IF r >= Half(L) THEN r - Word ELSE r
  BY <1>1, <1>2, <1>4, SignedIs DEF Cut
<1>7. low = r \/ low = r - Word
  BY <1>6
<1>8. low \in Int
  BY <1>4, <1>5, <1>7
<1>9. ASSUME NEW x \in Int
       PROVE  Least(I(x)) \in 1 .. L /\ (x \div Power(Octet, Least(I(x))) = t \/ Least(I(x)) = L)
  <2>1. I(x) \in SUBSET Nat /\ L \in I(x)
    BY <1>1
  <2>2. Least(I(x)) \in I(x)
    <3> HIDE DEF I
    <3> QED
      BY <2>1, LeastIs
  <2> DEFINE l == Least(I(x))
  <2>3. l \in {j \in 1 .. L : x \div Power(Octet, j) = t \/ j = L}
    BY <2>2
  <2> HIDE DEF l, t
  <2>4. l \in 1 .. L /\ (x \div Power(Octet, l) = t \/ l = L)
    BY <2>3
  <2> QED
    BY <2>4 DEF l
<1>10. RBuildWide(n, t, signed) = WithSign(IF high = t THEN Octets(low, Least(I(low)))
                                     ELSE Octets(high, Least(I(high))) \o Octets(low, L), t)
  BY DEF RBuildWide
<1>11. ASSUME NEW j \in 0 .. L PROVE Octets(low, j) = Octets(n, j)
  <2>1. PICK d \in Int : low = n + d * Word
    <3>1. r = n + (-high) * Word
      BY <1>4, <1>5
    <3>2. r - Word = n + (-high - 1) * Word
      BY <1>4, <1>5
    <3>3. -high \in Int /\ -high - 1 \in Int
      BY <1>5
    <3> QED
      BY <1>7, <3>1, <3>2, <3>3
  <2>2. Octets(n + d * Power(Octet, L), j) = Octets(n, j)
    BY <1>1, <1>4, OctetsShift
  <2> QED
    BY <1>2, <2>1, <2>2
<1> HIDE DEF I, low, high, r
<1>12. /\ m \in 1 .. K /\ n \div Power(Octet, m) = t
       /\ RBuildWide(n, t, signed) = WithSign(Octets(n, m), t)
  <2>1. CASE high = t
    <3> DEFINE i == Least(I(low))
    <3>1. i \in 1 .. L /\ (low \div Power(Octet, i) = t \/ i = L)
      BY <1>8, <1>9
    <3> HIDE DEF i
    <3>2. m = i
      BY <2>1 DEF i
    <3>3. i \in 1 .. K
      BY <1>1, <3>1
    <3>4. n \div Power(Octet, i) = t
      <4>1. CASE i = L
        BY <1>2, <2>1, <4>1 DEF high
      <4>2. CASE low \div Power(Octet, i) = t
        <5>1. Power(Octet, i) \in Nat \ {0}
          <6>1. i \in Nat
            BY <3>1
          <6> QED
            BY <1>1, <6>1, PowerNext
        <5> DEFINE q == Power(Octet, i)
        <5> HIDE DEF q
        <5>2. low = (low \div q) * q + (low % q) /\ low % q \in 0 .. q - 1
          BY <1>8, <5>1, DivMod DEF q
        <5>3. low \div q = t
          BY <4>2 DEF q
        <5>4. (t = 0 => low >= 0) /\ (t = -1 => low < 0)
          <6>1. (-1) * q = -q /\ 0 * q = 0
            BY <5>1 DEF q
          <6> DEFINE e == low % q
          <6> HIDE DEF e, t
          <6> QED
            BY <1>8, <5>1, <5>2, <5>3, <6>1 DEF e, q
        <5>5. low = n
          <6>1. (-1) * Word = -Word /\ 0 * Word = 0
            BY <1>4
          <6>2. t = -1 \/ t = 0
            OBVIOUS
          <6> HIDE DEF t
          <6> QED
            BY <1>2, <1>4, <1>5, <1>7, <2>1, <5>4, <6>1, <6>2
        <5> QED
          BY <5>3, <5>5 DEF q
      <4> QED
        BY <3>1, <4>1, <4>2
    <3>5. Octets(low, i) = Octets(n, i)
      <4>1. i \in 0 .. L
        BY <3>1
      <4> QED
        BY <1>11, <4>1
    <3> HIDE DEF m, t
    <3> QED
      BY <1>10, <2>1, <3>2, <3>3, <3>4, <3>5 DEF i
  <2>2. CASE high # t
    <3> DEFINE i == Least(I(high))
    <3>1. i \in 1 .. L /\ (high \div Power(Octet, i) = t \/ i = L)
      BY <1>5, <1>9
    <3> HIDE DEF i
    <3>2. m = L + i /\ L + i = i + L /\ i \in Nat /\ L \in Nat
      BY <1>1, <2>2, <3>1 DEF i
    <3>3. i + L \in 1 .. K
      BY <1>1, <3>1
    <3>4. n \div Power(Octet, L + i) = high \div Power(Octet, i)
      <4> DEFINE q == Power(Octet, i)
      <4>1. q \in Nat \ {0}
        BY <1>1, <3>2, PowerNext
      <4> HIDE DEF L
      <4>2. Power(Octet, L + i) = Power(Octet, L) * q
        BY <1>1, <3>2, PowerAdd
      <4> HIDE DEF q
      <4>3. n \div (Word * q) = (n \div Word) \div q
        <5>1. n \in Int /\ Word \in Nat \ {0}
          BY <1>4
        <5>2. /\ Word * q \in Nat \ {0}
              /\ n \div (Word * q) = (n \div Word) \div q
              /\ n % (Word * q) = ((n \div Word) % q) * Word + (n % Word)
          BY <4>1, <5>1, DivTwice, Zenon
        <5> QED
          BY <5>2
      <4> QED
        BY <1>2, <4>2, <4>3 DEF q, high
    <3>5. n \div Power(Octet, L + i) = t
      <4>1. CASE i = L
        <5>1. n \in -Power(Octet, K) .. Power(Octet, K) - 1 /\ Power(Octet, K) \in Nat \ {0}
          BY <1>3
        <5>2. n \div Power(Octet, K) = t
          BY <5>1, DivSign
        <5> QED
          BY <1>1, <4>1, <5>2
      <4>2. CASE high \div Power(Octet, i) = t
        BY <3>4, <4>2
      <4> QED
        BY <3>1, <4>1, <4>2
    <3>6. Octets(high, i) \o Octets(low, L) = Octets(n, i + L)
      <4>1. L \in 0 .. L
        BY <1>1
      <4>2. Octets(low, L) = Octets(n, L)
        BY <1>11, <4>1
      <4>3. Octets(high, i) \o Octets(n, L) = Octets(n, i + L)
        <5>1. Octets(n \div Power(Octet, L), i) \o Octets(n, L) = Octets(n, i + L)
          BY <1>4, <3>2, OctetsConcat
        <5> QED
          BY <1>2, <5>1 DEF high
      <4> QED
        BY <4>2, <4>3
    <3> HIDE DEF m, t
    <3> QED
      BY <1>10, <2>2, <3>2, <3>3, <3>5, <3>6 DEF i
  <2> QED
    BY <2>1, <2>2
<1> HIDE DEF m, t
<1>13. Encoded(WithSign(Octets(n, m), t), n, K)
  <2> HIDE DEF K
  <2>1. n \in -Half(K) .. Power(Octet, K) - 1
    BY DEF K
  <2> QED
    BY <1>1, <1>4, <1>12, <2>1, WithSignIs
<1> QED
  BY <1>12, <1>13 DEF t

\* Octets that show a signed value are parsed as this value.
LEMMA ParseSignedIs ==
    ASSUME NEW k \in Nat \ {0}, NEW n \in -Half(k) .. Half(k) - 1, NEW s, Encoded(s, n, k),
           NEW least \in {0, 1}, NEW most \in {k, k + 1}
    PROVE  ParseSigned(s, least, most, k) = {n} /\ Len(s) \in 1 .. k
<1>1. Half(k) \in Nat \ {0} /\ n \in Int
  BY HalfIs
<1>2. PICK m \in 1 .. k + 1 : Shown(s, n, m, k)
  BY DEF Encoded
<1>3. m \in 1 .. k /\ m \in Nat \ {0}
  BY <1>1, <1>2 DEF Shown
<1>4. s = Octets(n, m) /\ Signed(n, m) = n
  BY <1>2 DEF Shown
<1>5. Len(s) = m
  BY <1>1, <1>3, <1>4, FirstOctet
<1>6. Number(SignOf(s), s, Octet) = n
  BY <1>1, <1>3, <1>4, OctetsRead
<1>7. Signed(n, k) = n
  BY <1>1, SignedIs
<1>8. m \in least .. most /\ ~(m > k)
  BY <1>3
<1> QED
  BY <1>3, <1>5, <1>6, <1>7, <1>8 DEF ParseSigned, SignOf

\* Octets that show an unsigned value are parsed as this value, from the sign they
\* show or from 0.
LEMMA ParseUnsignedIs ==
    ASSUME NEW k \in Nat \ {0}, NEW n \in 0 .. Power(Octet, k) - 1, NEW s, Encoded(s, n, k),
           NEW least \in {0, 1}, NEW start \in {0, SignOf(s)}
    PROVE  UnsignedFrom(start, s, least, k) = {n} /\ Len(s) \in 1 .. k + 1
<1>1. n \in Int /\ Octet \in Nat \ {0}
  BY Widths
<1>2. PICK m \in 1 .. k + 1 : Shown(s, n, m, k)
  BY DEF Encoded
<1>3. m \in Nat \ {0}
  OBVIOUS
<1>4. s = Octets(n, m) /\ Signed(n, m) = n
  BY <1>2 DEF Shown
<1>5. Len(s) = m
  BY <1>1, <1>3, <1>4, FirstOctet
<1>6. Cut(n, m) = n
  <2>1. /\ Cut(n, m) \in 0 .. Power(Octet, m) - 1
        /\ Signed(n, m) = IF Cut(n, m) >= Half(m) THEN Cut(n, m) - Power(Octet, m) ELSE Cut(n, m)
    BY <1>1, <1>3, SignedIs
  <2>2. Power(Octet, m) \in Nat
    BY <1>1, <1>3, PowerNext
  <2> QED
    BY <1>4, <2>1, <2>2
<1>7. Number(start, s, Octet) = n /\ Cut(n, k) = n
  <2>1. Number(SignOf(s), s, Octet) = n /\ Number(0, s, Octet) = n
    BY <1>1, <1>3, <1>4, <1>6, OctetsRead
  <2>2. Number(start, s, Octet) = n
    BY <2>1
  <2>3. Cut(n, k) = n
    BY <1>1, SignedIs
  <2> QED
    BY <2>2, <2>3
<1>8. m = k + 1 => s[1] = 0
  <2> SUFFICES ASSUME m = k + 1 PROVE s[1] = 0
    OBVIOUS
  <2>1. s[1] = (n \div Power(Octet, m - 1)) % Octet
    BY <1>1, <1>3, <1>4, FirstOctet
  <2>2. m - 1 = k
    OBVIOUS
  <2>3. Power(Octet, k) \in Nat \ {0}
    BY <1>1, PowerNext
  <2>4. n \div Power(Octet, k) = 0
    <3>1. n \in -Power(Octet, k) .. Power(Octet, k) - 1 /\ ~(n < 0)
      BY <2>3
    <3> QED
      BY <2>3, <3>1, DivSign
  <2>5. 0 % Octet = 0
    BY <1>1
  <2> QED
    BY <2>1, <2>2, <2>4, <2>5
<1>9. m \in least .. k + 1
  OBVIOUS
<1> QED
  BY <1>5, <1>7, <1>8, <1>9 DEF UnsignedFrom

-----------------------------------------------------------------------------
(* BerCodec: lengths, and what they are in front of                        *)

\* u says that n octets follow.
SaysLength(u, n) ==
    \/ n < High /\ u = <<n>>
    \/ \E k \in 1 .. LongOctets : u = <<High + k>> \o Octets(n, k) /\ n < Power(Octet, k)

\* A word is what a long holds.
LEMMA LongHalf == Word = Power(Octet, LongOctets) /\ Word \div 2 = Half(LongOctets) /\ Half(LongOctets) \in Nat \ {0}
<1>1. LongOctets \in Nat \ {0}
  BY Widths
<1> QED
  BY <1>1, HalfIs DEF Half, Word

\* A number below 0x100 is one octet.
LEMMA OneOctet ==
    ASSUME NEW n \in 0 .. Octet - 1
    PROVE  Octets(n, 1) = <<n>> /\ n < Power(Octet, 1) /\ Power(Octet, 1) = Octet
<1>1. Octet \in Nat \ {0}
  BY Widths
<1>2. Power(Octet, 0) = 1
  BY <1>1, PowerNext
<1>3. Power(Octet, 1) = Octet
  <2>1. Power(Octet, 0 + 1) = Power(Octet, 0) * Octet
    BY <1>1, PowerNext
  <2>2. 0 + 1 = 1 /\ 1 * Octet = Octet
    BY <1>1
  <2> QED
    BY <1>2, <2>1, <2>2
<1>4. \A j \in 1 .. 1 : (n \div Power(Octet, 1 - j)) % Octet = n
  <2> TAKE j \in 1 .. 1
  <2>1. 1 - j = 0 /\ n \div 1 = n
    OBVIOUS
  <2>2. n % Octet = n
    <3>1. n = 0 * Octet + n /\ 0 \in Int
      BY <1>1
    <3>2. (0 * Octet + n) % Octet = n
      BY <1>1, DivUnique
    <3> QED
      BY <3>1, <3>2
  <2> QED
    BY <1>2, <2>1, <2>2
<1>5. Octets(n, 1) = [j \in 1 .. 1 |-> n]
  BY <1>4 DEF Octets, Digits
<1> QED
  BY <1>1, <1>3, <1>5

\* asn_build_length.
LEMMA BuildLengthSays ==
    ASSUME NEW n \in Nat, n < Octet * Octet, n < Word \div 2
    PROVE  SaysLength(BuildLength(n), n)
<1>1. Octet \in Nat \ {0} /\ High \in Nat /\ LongOctets \in Nat \ {0}
  BY Widths
<1>2. CASE n < High
  BY <1>2 DEF BuildLength, SaysLength
<1>3. CASE ~(n < High) /\ n < Octet
  <2>1. n \in 0 .. Octet - 1
    BY <1>1, <1>3
  <2>2. Octets(n, 1) = <<n>> /\ n < Power(Octet, 1)
    BY <2>1, OneOctet
  <2>3. BuildLength(n) = <<High + 1>> \o Octets(n, 1)
    <3>1. BuildLength(n) = <<High + 1, n>>
      BY <1>3 DEF BuildLength
    <3>2. <<High + 1>> \o <<n>> = <<High + 1, n>>
      <4> DEFINE a == High + 1
      <4>1. a \in Int
        BY <1>1
      <4> HIDE DEF a
      <4>2. <<a>> \in Seq(Int) /\ <<n>> \in Seq(Int) /\ <<a, n>> \in Seq(Int)
            /\ Len(<<a>>) = 1 /\ Len(<<n>>) = 1 /\ Len(<<a, n>>) = 2
        BY <4>1
      <4> DEFINE x == <<a>>
                 y == <<n>>
                 z == <<a, n>>
      <4>3. x[1] = a /\ y[1] = n /\ z[1] = a /\ z[2] = n
        OBVIOUS
      <4> HIDE DEF x, y, z
      <4>4. x \in Seq(Int) /\ y \in Seq(Int) /\ z \in Seq(Int) /\ Len(x) = 1 /\ Len(y) = 1 /\ Len(z) = 2
        BY <4>2 DEF x, y, z
      <4>5. /\ x \o y \in Seq(Int) /\ Len(x \o y) = Len(x) + Len(y)
            /\ \A i \in 1 .. Len(x) + Len(y) : (x \o y)[i] = IF i <= Len(x) THEN x[i] ELSE y[i - Len(x)]
        BY <4>4, ConcatProperties
      <4>6. (x \o y)[1] = z[1] /\ (x \o y)[2] = z[2]
        BY <4>3, <4>4, <4>5
      <4>7. Len(x \o y) = 2 /\ \A i \in 1 .. 2 : (x \o y)[i] = z[i]
        <5>1. \A i \in 1 .. 2 : i = 1 \/ i = 2
          OBVIOUS
        <5> QED
          BY <4>4, <4>5, <4>6, <5>1
      <4>8. x \o y = z
        BY <4>4, <4>5, <4>7, SeqEqual
      <4> QED
        BY <4>8 DEF x, y, z, a
    <3> QED
      BY <2>2, <3>1, <3>2
  <2>4. 1 \in 1 .. LongOctets
    BY <1>1
  <2> QED
    BY <2>2, <2>3, <2>4 DEF SaysLength
<1>4. CASE ~(n < High) /\ ~(n < Octet)
  <2>1. BuildLength(n) = <<High + 2>> \o Octets(n, 2)
    BY <1>4 DEF BuildLength
  <2>2. Power(Octet, 1) = Octet /\ Power(Octet, 2) = Octet * Octet
    <3>1. Power(Octet, 1) = Octet
      BY <1>1, OneOctet
    <3>2. Power(Octet, 1 + 1) = Power(Octet, 1) * Octet
      BY <1>1, PowerNext
    <3> QED
      BY <3>1, <3>2
  <2>3. LongOctets # 1
    <3> SUFFICES ASSUME LongOctets = 1 PROVE FALSE
      OBVIOUS
    <3>1. Word = Octet
      BY <2>2 DEF Word
    <3> QED
      BY <1>1, <1>4, <3>1
  <2>4. 2 \in 1 .. LongOctets
    BY <1>1, <2>3
  <2>5. n < Power(Octet, 2)
    BY <2>2
  <2> QED
    BY <2>1, <2>4, <2>5 DEF SaysLength
<1> QED
  BY <1>2, <1>3, <1>4

\* asn_realloc_rbuild_length.
LEMMA RBuildLengthSays ==
    ASSUME NEW n \in Nat, n < Word \div 2
    PROVE  SaysLength(RBuildLength(n), n)
<1> DEFINE I == {j \in 1 .. LongOctets : n < Power(Octet, j)} \cup {LongOctets}
           k == Least(I)
<1>1. LongOctets \in Nat \ {0}
  BY Widths
<1>2. CASE n < High
  BY <1>2 DEF RBuildLength, SaysLength
<1>3. CASE ~(n < High)
  <2>1. RBuildLength(n) = <<High + k>> \o Octets(n, k)
    BY <1>3 DEF RBuildLength
  <2>2. n < Power(Octet, LongOctets) /\ LongOctets \in 1 .. LongOctets /\ LongOctets \in I
    BY LongHalf, HalfIs, <1>1
  <2>3. I \in SUBSET Nat
    BY <1>1
  <2>4. k \in I
    <3> HIDE DEF I
    <3> QED
      BY <2>2, <2>3, LeastIs
  <2>5. k \in 1 .. LongOctets /\ n < Power(Octet, k)
    <3> HIDE DEF k
    <3> QED
      BY <2>2, <2>4
  <2> HIDE DEF k
  <2> QED
    BY <2>1, <2>5 DEF SaysLength
<1> QED
  BY <1>2, <1>3

\* In s, from position p on, there is u.
StandsAt(u, s, p) == p + Len(u) - 1 <= Len(s) /\ \A j \in 1 .. Len(u) : s[p + j - 1] = u[j]

\* A length is parsed as what it says.
LEMMA ParseLengthIs ==
    ASSUME NEW n \in Nat, n < Word \div 2, NEW u, SaysLength(u, n),
           NEW s \in Seq(Int), NEW p \in Nat \ {0}, StandsAt(u, s, p)
    PROVE  /\ ParseLength(s, p) = [used |-> Len(u), length |-> n]
           /\ u \in Seq(Int) /\ Len(u) \in Nat \ {0}
<1>1. Octet \in Nat \ {0} /\ High \in Nat /\ LongOctets \in Nat \ {0}
  BY Widths
<1>2. CASE n < High /\ u = <<n>>
  <2>1. u \in Seq(Int) /\ Len(u) = 1 /\ u[1] = n
    BY <1>2
  <2>2. s[p] = n
    <3>1. 1 \in 1 .. Len(u) /\ p + 1 - 1 = p
      BY <2>1
    <3> QED
      BY <2>1, <3>1 DEF StandsAt
  <2> QED
    BY <1>2, <2>1, <2>2 DEF ParseLength
<1>3. ASSUME NEW k \in 1 .. LongOctets, u = <<High + k>> \o Octets(n, k), n < Power(Octet, k)
      PROVE  /\ ParseLength(s, p) = [used |-> Len(u), length |-> n]
             /\ u \in Seq(Int) /\ Len(u) \in Nat \ {0}
  <2> DEFINE t == Octets(n, k)
             h == <<High + k>>
  <2>1. k \in Nat \ {0} /\ n \in Int
    OBVIOUS
  <2>2. t \in Seq(0 .. Octet - 1) /\ Len(t) = k
    BY <2>1, FirstOctet
  <2>3. t \in Seq(Int) /\ h \in Seq(Int) /\ Len(h) = 1 /\ h[1] = High + k
    <3>1. 0 .. Octet - 1 \subseteq Int
      BY <1>1
    <3> HIDE DEF t
    <3>2. t \in Seq(Int)
      BY <2>2, <3>1, SeqMonotonic
    <3> QED
      BY <1>1, <3>2
  <2> HIDE DEF t, h
  <2>4. u = h \o t
    BY <1>3 DEF h, t
  <2>5. u \in Seq(Int) /\ Len(u) = k + 1 /\ u[1] = High + k /\ \A j \in 1 .. k : u[j + 1] = t[j]
    <3>1. u \in Seq(Int) /\ Len(u) = 1 + k
      BY <2>2, <2>3, <2>4, ConcatProperties, ZenonT(40)
    <3>2. \A i \in 1 .. 1 + k : u[i] = IF i <= 1 THEN h[i] ELSE t[i - 1]
      <4>1. \A i \in 1 .. Len(h) + Len(t) : (h \o t)[i] = IF i <= Len(h) THEN h[i] ELSE t[i - Len(h)]
        BY <2>3, ConcatProperties
      <4> QED
        BY <2>2, <2>3, <2>4, <4>1
    <3>3. u[1] = h[1]
      <4>1. 1 \in 1 .. 1 + k /\ 1 <= 1
        OBVIOUS
      <4> QED
        BY <3>2, <4>1
    <3>4. \A j \in 1 .. k : u[j + 1] = t[j]
      <4> TAKE j \in 1 .. k
      <4>1. j + 1 \in 1 .. 1 + k /\ ~(j + 1 <= 1) /\ (j + 1) - 1 = j
        OBVIOUS
      <4> QED
        BY <3>2, <4>1
    <3> QED
      BY <2>3, <3>1, <3>3, <3>4
  <2>6. s[p] = High + k
    <3>1. 1 \in 1 .. Len(u) /\ p + 1 - 1 = p
      BY <2>5
    <3> QED
      BY <2>5, <3>1 DEF StandsAt
  <2>7. SubSeq(s, p + 1, p + k) = t
    <3>1. \A j \in 1 .. k : s[(p + 1) + j - 1] = t[j]
      <4> TAKE j \in 1 .. k
      <4>1. j + 1 \in 1 .. Len(u) /\ p + (j + 1) - 1 = (p + 1) + j - 1
        BY <2>5
      <4>2. s[p + (j + 1) - 1] = u[j + 1]
        BY <4>1 DEF StandsAt
      <4> QED
        BY <2>5, <4>1, <4>2
    <3>2. \A i \in p + 1 .. p + k : s[i] \in Int
      <4> TAKE i \in p + 1 .. p + k
      <4>1. i - p \in 1 .. k /\ (p + 1) + (i - p) - 1 = i
        OBVIOUS
      <4>2. s[i] = t[i - p]
        BY <3>1, <4>1
      <4>3. t[i - p] \in Int
        BY <2>2, <2>3, <4>1, ElementOfSeq
      <4> QED
        BY <4>2, <4>3
    <3>3. /\ SubSeq(s, p + 1, p + k) \in Seq(Int)
          /\ Len(SubSeq(s, p + 1, p + k)) = IF p + 1 <= p + k THEN (p + k) - (p + 1) + 1 ELSE 0
          /\ \A i \in 1 .. (p + k) - (p + 1) + 1 : SubSeq(s, p + 1, p + k)[i] = s[(p + 1) + i - 1]
      <4>1. p + 1 \in Int /\ p + k \in Int
        OBVIOUS
      <4> QED
        BY <3>2, <4>1, SubSeqProperties
    <3>4. (p + k) - (p + 1) + 1 = k /\ p + 1 <= p + k
      OBVIOUS
    <3> DEFINE v == SubSeq(s, p + 1, p + k)
    <3>5. v \in Seq(Int) /\ Len(v) = k /\ \A i \in 1 .. k : v[i] = s[(p + 1) + i - 1]
      BY <3>3, <3>4
    <3> HIDE DEF v
    <3>6. v = t
      BY <2>2, <2>3, <3>1, <3>5, SeqEqual
    <3> QED
      BY <3>6 DEF v
  <2>8. Number(0, t, Octet) = n
    <3>1. Number(0, t, Octet) = Cut(n, k)
      BY <2>1, OctetsRead DEF t
    <3>2. n \in 0 .. Power(Octet, k) - 1
      <4>1. Power(Octet, k) \in Nat
        BY <1>1, <2>1, PowerNext
      <4> QED
        BY <1>3, <4>1
    <3> QED
      BY <2>1, <3>1, <3>2, SignedIs
  <2>9. Signed(n, LongOctets) = n
    <3>1. n \in -Half(LongOctets) .. Half(LongOctets) - 1
      BY LongHalf
    <3> QED
      BY <1>1, <3>1, SignedIs
  <2>10. (High + k) - High = k /\ ~(High + k < High) /\ k # 0 /\ ~(k > LongOctets) /\ ~(n < 0)
    BY <1>1
  <2>11. ParseLength(s, p) = [used |-> k + 1, length |-> n]
    <3> DEFINE d == s[p] - High
               m == Number(0, SubSeq(s, p + 1, p + d), Octet)
    <3>1. d = k /\ ~(s[p] < High)
      BY <2>6, <2>10
    <3>2. m = n
      BY <2>7, <2>8, <3>1
    <3>3. ~(d = 0 \/ d > LongOctets \/ Signed(m, LongOctets) < 0)
      BY <2>9, <2>10, <3>1, <3>2
    <3>4. ParseLength(s, p) = IF s[p] < High THEN [used |-> 1, length |-> s[p]]
                              ELSE IF d = 0 \/ d > LongOctets \/ Signed(m, LongOctets) < 0 THEN NoLength
                              ELSE [used |-> d + 1, length |-> m]
      BY DEF ParseLength
    <3> HIDE DEF d, m
    <3> QED
      BY <3>1, <3>2, <3>3, <3>4
  <2> QED
    BY <2>5, <2>11
<1> QED
  BY <1>2, <1>3 DEF SaysLength

\* Behind a length are the contents it tells of, if they have been received.
LEMMA ContentsIs ==
    ASSUME NEW n \in Nat, n < Word \div 2, NEW u, SaysLength(u, n), NEW s \in Seq(Int),
           NEW p \in Nat \ {0}, StandsAt(u, s, p), NEW available \in Int
    PROVE  Contents(s, p, available) = IF p - 1 + Len(u) + n > available THEN {}
                                       ELSE {SubSeq(s, p + Len(u), p + Len(u) + n - 1)}
<1> DEFINE l == ParseLength(s, p)
<1>1. l = [used |-> Len(u), length |-> n] /\ Len(u) \in Nat \ {0}
  BY ParseLengthIs
<1>2. Contents(s, p, available) = IF l = NoLength \/ p - 1 + l.used + l.length > available THEN {}
                                  ELSE {SubSeq(s, p + l.used, p + l.used + l.length - 1)}
  BY DEF Contents
<1> HIDE DEF l
<1>3. l.used = Len(u) /\ l.length = n
  BY <1>1
<1>4. l # NoLength
  BY <1>1, <1>3 DEF NoLength
<1> QED
  BY <1>2, <1>3, <1>4

\* A part of a list that stands at a place of it.
LEMMA PartIs ==
    ASSUME NEW c \in Seq(Int), NEW s \in Seq(Int), NEW p \in Nat \ {0}, StandsAt(c, s, p)
    PROVE  SubSeq(s, p, p + Len(c) - 1) = c
<1> DEFINE m == Len(c)
           q == p + m - 1
           v == SubSeq(s, p, q)
<1>1. m \in Nat /\ \A j \in 1 .. m : c[j] \in Int
  BY LenProperties
<1>2. \A j \in 1 .. m : s[p + j - 1] = c[j]
  BY DEF StandsAt
<1> HIDE DEF m
<1>3. q \in Int /\ p \in Int /\ q - p + 1 = m
  BY <1>1
<1>4. \A i \in p .. q : s[i] \in Int
  <2> TAKE i \in p .. q
  <2>1. i - p + 1 \in 1 .. m /\ p + (i - p + 1) - 1 = i
    BY <1>1
  <2> QED
    BY <1>1, <1>2, <2>1
<1> HIDE DEF q
<1>5. /\ v \in Seq(Int) /\ Len(v) = (IF p <= q THEN q - p + 1 ELSE 0)
      /\ \A i \in 1 .. q - p + 1 : v[i] = s[p + i - 1]
  BY <1>3, <1>4, SubSeqProperties
<1> HIDE DEF v
<1>6. Len(v) = m
  BY <1>1, <1>3, <1>5
<1>7. \A i \in 1 .. m : v[i] = c[i]
  BY <1>2, <1>3, <1>5
<1>8. v = c
  BY <1>5, <1>6, <1>7, SeqEqual DEF m
<1> QED
  BY <1>8 DEF v, q, m

\* One list stands behind the other.
LEMMA BehindStands ==
    ASSUME NEW u \in Seq(Int), NEW c \in Seq(Int)
    PROVE  /\ u \o c \in Seq(Int) /\ Len(u \o c) = Len(u) + Len(c)
           /\ StandsAt(u, u \o c, 1) /\ StandsAt(c, u \o c, Len(u) + 1)
<1> DEFINE a == Len(u)
           b == Len(c)
           s == u \o c
<1>1. a \in Nat /\ b \in Nat
  BY LenProperties
<1>2. s \in Seq(Int) /\ Len(s) = a + b /\ \A i \in 1 .. a + b : s[i] = IF i <= a THEN u[i] ELSE c[i - a]
  BY ConcatProperties
<1> HIDE DEF a, b, s
<1>3. \A j \in 1 .. a : s[1 + j - 1] = u[j]
  <2> TAKE j \in 1 .. a
  <2>1. 1 + j - 1 = j /\ j \in 1 .. a + b /\ j <= a
    BY <1>1
  <2> QED
    BY <1>2, <2>1
<1>4. \A j \in 1 .. b : s[(a + 1) + j - 1] = c[j]
  <2> TAKE j \in 1 .. b
  <2>1. (a + 1) + j - 1 = a + j /\ a + j \in 1 .. a + b /\ ~(a + j <= a) /\ (a + j) - a = j
    BY <1>1
  <2> QED
    BY <1>2, <2>1
<1>5. 1 + a - 1 <= a + b /\ (a + 1) + b - 1 <= a + b
  BY <1>1
<1> QED
  BY <1>2, <1>3, <1>4, <1>5 DEF StandsAt, a, b, s

\* What is behind its length is found if all of it has been received.
LEMMA FramedIs ==
    ASSUME NEW c \in Seq(Int), Len(c) < Word \div 2, NEW u, SaysLength(u, Len(c)),
           NEW available \in 0 .. Len(u \o c)
    PROVE  /\ u \in Seq(Int) /\ Len(u) \in Nat \ {0}
           /\ Contents(u \o c, 1, available) = IF available = Len(u \o c) THEN {c} ELSE {}
<1> DEFINE n == Len(c)
           s == u \o c
<1>1. n \in Nat
  BY LenProperties
<1>2. u \in Seq(Int) /\ Len(u) \in Nat \ {0}
  <2>1. StandsAt(u, u, 1) /\ u \in Seq(Int)
    <3>1. u \in Seq(Int)
      <4>1. CASE n < High /\ u = <<n>>
        BY <1>1, <4>1
      <4>2. ASSUME NEW k \in 1 .. LongOctets, u = <<High + k>> \o Octets(n, k) PROVE u \in Seq(Int)
        <5>1. Octet \in Nat /\ High \in Nat
          BY Widths
        <5>2. Octets(n, k) \in Seq(0 .. Octet - 1)
          <6>1. n \in Int /\ k \in Nat \ {0}
            BY <1>1
          <6> HIDE DEF n
          <6> QED
            BY <6>1, FirstOctet
        <5>3. Octets(n, k) \in Seq(Int)
          <6>1. 0 .. Octet - 1 \subseteq Int
            BY <5>1
          <6> HIDE DEF n
          <6> QED
            BY <5>2, <6>1, SeqMonotonic
        <5>4. <<High + k>> \in Seq(Int)
          BY <5>1
        <5> HIDE DEF n
        <5> QED
          BY <4>2, <5>3, <5>4, ConcatProperties
      <4> QED
        BY <4>1, <4>2 DEF SaysLength
    <3>2. Len(u) \in Nat
      BY <3>1, LenProperties
    <3>3. 1 + Len(u) - 1 <= Len(u) /\ \A j \in 1 .. Len(u) : 1 + j - 1 = j
      BY <3>2
    <3> QED
      BY <3>1, <3>3 DEF StandsAt
  <2>2. 1 \in Nat \ {0}
    OBVIOUS
  <2> HIDE DEF n
  <2> QED
    BY <1>1, <2>1, <2>2, ParseLengthIs DEF n
<1>3. /\ s \in Seq(Int) /\ Len(s) = Len(u) + n
      /\ StandsAt(u, s, 1) /\ StandsAt(c, s, Len(u) + 1)
  BY <1>2, BehindStands
<1> HIDE DEF s
<1>4. available \in Int
  BY <1>1, <1>2, <1>3 DEF s
<1>5. Contents(s, 1, available) = IF 1 - 1 + Len(u) + n > available THEN {}
                                  ELSE {SubSeq(s, 1 + Len(u), 1 + Len(u) + n - 1)}
  <2>1. 1 \in Nat \ {0} /\ n < Word \div 2 /\ SaysLength(u, n)
    OBVIOUS
  <2> HIDE DEF n
  <2> QED
    BY <1>1, <1>3, <1>4, <2>1, ContentsIs, ZenonT(40)
<1>6. SubSeq(s, Len(u) + 1, Len(u) + 1 + n - 1) = c
  <2>1. Len(u) + 1 \in Nat \ {0}
    BY <1>2
  <2> QED
    BY <1>3, <2>1, PartIs
<1>7. Len(u) + 1 = 1 + Len(u)
  BY <1>2
<1>8. 1 - 1 + Len(u) + n > available <=> available # Len(s)
  BY <1>1, <1>2, <1>3, SMTT(30) DEF s
<1> QED
  BY <1>2, <1>5, <1>6, <1>7, <1>8 DEF s

\* Tags, the length and the contents of a wrapped integer, within an Opaque.
LEMMA OpaqueIs ==
    ASSUME NEW x \in Int, NEW y \in Int, Tags(item.kind) = <<x, y>>,
           NEW b \in Seq(Int), Len(b) <= WideOctets + 1,
           NEW c, c = <<x, y>> \o <<Len(b)>> \o b,
           NEW u, SaysLength(u, Len(c)), octets = u \o c, NEW available \in 0 .. Len(octets)
    PROVE  /\ c \in Seq(Int) /\ Len(c) = Len(b) + 3
           /\ OpaqueContents(available) = IF available = Len(octets) THEN {b} ELSE {}
<1> DEFINE n == Len(b)
           t == <<x, y>>
           l == <<n>>
<1>1. n \in Nat
  BY LenProperties
<1>2. t \in Seq(Int) /\ Len(t) = 2 /\ t[1] = x /\ t[2] = y
  OBVIOUS
<1>3. l \in Seq(Int) /\ Len(l) = 1 /\ l[1] = n
  <2> HIDE DEF n
  <2> QED
    BY <1>1
<1> HIDE DEF n, t, l
<1> DEFINE tl == t \o l
<1>4. tl \in Seq(Int) /\ Len(tl) = 3 /\ StandsAt(t, tl, 1) /\ StandsAt(l, tl, 3)
  <2>1. tl \in Seq(Int) /\ Len(tl) = Len(t) + Len(l) /\ StandsAt(t, tl, 1) /\ StandsAt(l, tl, Len(t) + 1)
    BY <1>2, <1>3, BehindStands
  <2>2. Len(t) + Len(l) = 3 /\ Len(t) + 1 = 3
    BY <1>2, <1>3
  <2> QED
    BY <2>1, <2>2
<1> HIDE DEF tl
<1>5. c = tl \o b
  BY DEF tl, t, l, n
<1>6. c \in Seq(Int) /\ Len(c) = n + 3 /\ StandsAt(tl, c, 1) /\ StandsAt(b, c, 4)
  <2>1. c \in Seq(Int) /\ Len(c) = Len(tl) + Len(b) /\ StandsAt(tl, c, 1) /\ StandsAt(b, c, Len(tl) + 1)
    BY <1>4, <1>5, BehindStands
  <2>2. Len(tl) + Len(b) = n + 3 /\ Len(tl) + 1 = 4
    BY <1>1, <1>4 DEF n
  <2> QED
    BY <2>1, <2>2
<1>7. WideOctets + 4 < Word \div 2 /\ WideOctets \in Nat /\ WideOctets + 4 <= High
  BY BerAssumption, Widths
<1>8. Len(c) < Word \div 2 /\ Len(c) <= WideOctets + 4 /\ Word \div 2 \in Nat
  BY <1>1, <1>6, <1>7, LongHalf, SMTT(30) DEF n
<1>9. /\ u \in Seq(Int) /\ Len(u) \in Nat \ {0}
      /\ Contents(octets, 1, available) = IF available = Len(octets) THEN {c} ELSE {}
  BY <1>6, <1>8, FramedIs
<1>10. octets \in Seq(Int) /\ Len(octets) = Len(u) + Len(c) /\ StandsAt(u, octets, 1)
       /\ StandsAt(c, octets, Len(u) + 1)
  BY <1>6, <1>9, BehindStands
<1> DEFINE p == ParseLength(octets, 1).used + 1
           A == {s \in Contents(octets, 1, available) :
                     Len(s) <= WideOctets + 4 /\ SubSeq(octets, p, p + 1) = Tags(item.kind)}
<1>11. p = Len(u) + 1
  <2> DEFINE m == Len(c)
  <2>1. 1 \in Nat \ {0} /\ m \in Nat /\ m < Word \div 2 /\ SaysLength(u, m)
    BY <1>1, <1>6, <1>8
  <2> HIDE DEF m
  <2>2. ParseLength(octets, 1) = [used |-> Len(u), length |-> m]
    BY <1>10, <2>1, ParseLengthIs, ZenonT(40)
  <2> QED
    BY <2>2
<1>12. OpaqueContents(available) = UNION {Contents(octets, p + 2, available) : s \in A}
  BY DEF OpaqueContents
<1> DEFINE q == Len(u) + 1
<1>13. q \in Nat \ {0} /\ q + 2 \in Nat \ {0} /\ q + 3 \in Nat \ {0}
  BY <1>9, SMTT(30)
<1>14. \A j \in 1 .. n + 3 : octets[q + j - 1] = c[j]
  BY <1>6, <1>10 DEF StandsAt
<1> HIDE DEF q, p
<1>15. p = q /\ Len(octets) = q + n + 2
  <2>1. Len(octets) = Len(u) + (n + 3) /\ Len(u) \in Nat
    BY <1>6, <1>9, <1>10
  <2> DEFINE m == Len(u)
  <2> HIDE DEF m
  <2>2. m + (n + 3) = (m + 1) + n + 2
    BY <1>1, <2>1 DEF m
  <2> QED
    BY <1>11, <2>1, <2>2 DEF m, q
<1>16. c[1] = x /\ c[2] = y /\ c[3] = n /\ \A j \in 1 .. n : c[j + 3] = b[j]
  <2>1. \A j \in 1 .. 3 : c[j] = tl[j]
    <3>1. \A j \in 1 .. Len(tl) : c[1 + j - 1] = tl[j]
      BY <1>6 DEF StandsAt
    <3>2. \A j \in 1 .. 3 : 1 + j - 1 = j
      OBVIOUS
    <3> QED
      BY <1>4, <3>1, <3>2
  <2>2. tl[1] = x /\ tl[2] = y /\ tl[3] = n
    <3>1. \A j \in 1 .. 2 : tl[1 + j - 1] = t[j]
      BY <1>2, <1>4 DEF StandsAt
    <3>2. \A j \in 1 .. 1 : tl[3 + j - 1] = l[j]
      BY <1>3, <1>4 DEF StandsAt
    <3>3. 1 \in 1 .. 2 /\ 2 \in 1 .. 2 /\ 1 \in 1 .. 1 /\ 1 + 1 - 1 = 1 /\ 1 + 2 - 1 = 2 /\ 3 + 1 - 1 = 3
      OBVIOUS
    <3>4. tl[1] = t[1] /\ tl[2] = t[2] /\ tl[3] = l[1]
      BY <3>1, <3>2, <3>3
    <3> QED
      BY <1>2, <1>3, <3>4
  <2>3. \A j \in 1 .. n : c[4 + j - 1] = b[j] /\ 4 + j - 1 = j + 3
    BY <1>1, <1>6 DEF StandsAt, n
  <2>4. 1 \in 1 .. 3 /\ 2 \in 1 .. 3 /\ 3 \in 1 .. 3
    OBVIOUS
  <2> QED
    BY <2>1, <2>2, <2>3, <2>4
<1>17. SubSeq(octets, q, q + 1) = <<x, y>>
  <2>1. StandsAt(t, octets, q)
    <3>1. \A j \in 1 .. 2 : octets[q + j - 1] = t[j]
      <4> TAKE j \in 1 .. 2
      <4>1. j \in 1 .. n + 3 /\ (j = 1 \/ j = 2)
        BY <1>1
      <4>2. octets[q + j - 1] = c[j]
        BY <1>14, <4>1
      <4> QED
        BY <1>2, <1>16, <4>1, <4>2
    <3>2. q + 2 - 1 <= q + n + 2
      BY <1>1, <1>13
    <3> QED
      BY <1>2, <1>15, <3>1, <3>2 DEF StandsAt
  <2>2. SubSeq(octets, q, q + Len(t) - 1) = t
    BY <1>2, <1>10, <1>13, <2>1, PartIs, ZenonT(40)
  <2>3. q + Len(t) - 1 = q + 1
    BY <1>2, <1>13
  <2> QED
    BY <2>2, <2>3 DEF t
<1>18. SaysLength(<<n>>, n) /\ n < Word \div 2
  <2>1. n <= WideOctets + 1
    BY DEF n
  <2>2. n < High /\ n < Word \div 2
    BY <1>1, <1>7, <1>8, <2>1, Widths, SMTT(30)
  <2> QED
    BY <2>2 DEF SaysLength
<1>19. StandsAt(<<n>>, octets, q + 2)
  <2>1. octets[q + 3 - 1] = n
    <3>1. 3 \in 1 .. n + 3
      BY <1>1
    <3> QED
      BY <1>14, <1>16, <3>1
  <2>2. \A j \in 1 .. 1 : (q + 2) + j - 1 = q + 3 - 1 /\ l[j] = n
    <3> TAKE j \in 1 .. 1
    <3>1. j = 1
      OBVIOUS
    <3> QED
      BY <1>3, <1>13, <3>1
  <2>3. (q + 2) + 1 - 1 <= Len(octets)
    BY <1>1, <1>13, <1>15
  <2> QED
    BY <1>3, <2>1, <2>2, <2>3 DEF StandsAt, l
<1>20. CASE available # Len(octets)
  <2>1. A = {}
    BY <1>9, <1>20
  <2> HIDE DEF A
  <2> QED
    BY <1>6, <1>12, <1>20, <2>1 DEF n
<1>21. CASE available = Len(octets)
  <2>1. A = {c}
    <3>1. Contents(octets, 1, available) = {c}
      BY <1>9, <1>21
    <3>2. Len(c) <= WideOctets + 4 /\ SubSeq(octets, p, p + 1) = Tags(item.kind)
      BY <1>8, <1>15, <1>17
    <3> QED
      BY <3>1, <3>2
  <2> HIDE DEF A
  <2>2. OpaqueContents(available) = Contents(octets, q + 2, available)
    BY <1>12, <1>15, <2>1
  <2>3. Contents(octets, q + 2, available) = IF (q + 2) - 1 + Len(<<n>>) + n > available THEN {}
                                   ELSE {SubSeq(octets, (q + 2) + Len(<<n>>), (q + 2) + Len(<<n>>) + n - 1)}
    <3>1. available \in Int
      BY <1>1, <1>13, <1>15
    <3> DEFINE r == q + 2
               v == <<n>>
    <3>2. r \in Nat \ {0} /\ SaysLength(v, n) /\ StandsAt(v, octets, r) /\ n < Word \div 2
      BY <1>13, <1>18, <1>19
    <3> HIDE DEF r, v
    <3>3. Contents(octets, r, available) = IF r - 1 + Len(v) + n > available THEN {}
                                   ELSE {SubSeq(octets, r + Len(v), r + Len(v) + n - 1)}
      <4>1. octets \in Seq(Int)
        BY <1>10
      <4> QED
        BY ONLY <1>1, <3>1, <3>2, <4>1, ContentsIs
    <3> QED
      BY <3>3 DEF r, v
  <2>4. ~((q + 2) - 1 + 1 + n > available) /\ (q + 2) + 1 = q + 3 /\ Len(<<n>>) = 1
    BY <1>1, <1>13, <1>15, <1>21
  <2>5. SubSeq(octets, q + 3, q + 3 + n - 1) = b
    <3>1. StandsAt(b, octets, q + 3)
      <4>1. \A j \in 1 .. n : octets[(q + 3) + j - 1] = b[j]
        <5> TAKE j \in 1 .. n
        <5>1. j + 3 \in 1 .. n + 3 /\ q + (j + 3) - 1 = (q + 3) + j - 1
          BY <1>1, <1>13
        <5>2. octets[q + (j + 3) - 1] = c[j + 3]
          BY <1>14, <5>1
        <5> QED
          BY <1>16, <5>1, <5>2
      <4>2. (q + 3) + n - 1 <= Len(octets)
        BY <1>1, <1>13, <1>15
      <4> QED
        BY <4>1, <4>2 DEF StandsAt, n
    <3> QED
      BY <1>10, <1>13, <3>1, PartIs DEF n
  <2> QED
    BY <1>6, <1>21, <2>2, <2>3, <2>4, <2>5 DEF n
<1> QED
  BY <1>20, <1>21

-----------------------------------------------------------------------------
(* BerCodec: object identifiers                                            *)

\* A long fits into twice as many octets with seven bits each.
LEMMA SubidFits ==
    ASSUME NEW i \in Nat
    PROVE  Power(Octet, i) <= Power(High, 2 * i)
<1>1. Octet \in Nat \ {0} /\ High \in Nat \ {0} /\ High >= 2 /\ Octet = 2 * High
  BY Widths
<1> DEFINE T == {k \in Nat : Power(Octet, k) <= Power(High, 2 * k)}
<1>2. 0 \in T
  <2>1. Power(Octet, 0) = 1 /\ Power(High, 0) = 1 /\ 2 * 0 = 0
    BY <1>1, PowerNext
  <2> QED
    BY <2>1
<1>3. ASSUME NEW k \in Nat, k \in T PROVE k + 1 \in T
  <2>1. Power(Octet, k + 1) = Power(Octet, k) * Octet /\ Power(Octet, k) \in Nat
    BY <1>1, PowerNext
  <2>2. 2 * k \in Nat /\ 2 * k + 1 \in Nat /\ 2 * (k + 1) = (2 * k + 1) + 1
    OBVIOUS
  <2>3. Power(High, 2 * k + 1) = Power(High, 2 * k) * High /\ Power(High, 2 * k) \in Nat
    BY <1>1, <2>2, PowerNext
  <2>4. Power(High, (2 * k + 1) + 1) = Power(High, 2 * k + 1) * High
    BY <1>1, <2>2, PowerNext
  <2> DEFINE x == Power(Octet, k)
             y == Power(High, 2 * k)
             h == High
  <2>5. x \in Nat /\ y \in Nat /\ x <= y /\ h \in Nat /\ h >= 2
    BY <1>1, <1>3, <2>1, <2>3
  <2> HIDE DEF x, y, h
  <2>6. x * (2 * h) <= (y * h) * h
    <3>1. x * (2 * h) <= y * (2 * h)
      <4>1. (y - x) * (2 * h) >= 0 /\ (y - x) * (2 * h) = y * (2 * h) - x * (2 * h)
        BY <2>5
      <4> DEFINE a == y * (2 * h)
                 b == x * (2 * h)
      <4>2. a \in Int /\ b \in Int
        BY <2>5
      <4> HIDE DEF a, b
      <4> QED
        BY <4>1, <4>2 DEF a, b
    <3>2. y * (2 * h) <= (y * h) * h
      <4> DEFINE c == y * h
      <4>1. c \in Nat /\ y * (2 * h) = c * 2
        BY <2>5
      <4> HIDE DEF c
      <4>2. c * h >= c * 2
        <5>1. c * (h - 2) >= 0 /\ c * (h - 2) = c * h - c * 2
          BY <2>5, <4>1
        <5> DEFINE a == c * h
        <5>2. a \in Int
          BY <2>5, <4>1
        <5> HIDE DEF a
        <5> QED
          BY <4>1, <5>1, <5>2 DEF a
      <4> QED
        BY <4>1, <4>2 DEF c
    <3> DEFINE a == x * (2 * h)
               b == y * (2 * h)
               c == (y * h) * h
    <3>3. a \in Int /\ b \in Int /\ c \in Int
      <4>1. y * h \in Int
        BY <2>5
      <4> DEFINE d == y * h
      <4> HIDE DEF d
      <4>2. d * h \in Int
        BY <2>5, <4>1 DEF d
      <4> QED
        BY <2>5, <4>2 DEF d
    <3> HIDE DEF a, b, c
    <3> QED
      BY <3>1, <3>2, <3>3 DEF a, b, c
  <2> QED
    BY <1>1, <2>1, <2>2, <2>3, <2>4, <2>6 DEF x, y, h
<1> HIDE DEF T
<1>4. i \in T
  BY <1>2, <1>3, SetInduction
<1> QED
  BY <1>4 DEF T

\* s is n in octets of which the last one alone has no high bit.
SaysSubid(s, n) ==
    /\ s \in Seq(Int) /\ Len(s) \in 1 .. WideOctets /\ n < Power(High, Len(s))
    /\ \A j \in 1 .. Len(s) : /\ s[j] % High = Digits(n, Len(s), High)[j]
                              /\ s[j] < High <=> j = Len(s)

\* A subidentifier is built with the high bit in all of its octets but the last.
LEMMA BuildSubidSays ==
    ASSUME NEW n \in 0 .. Word - 1
    PROVE  SaysSubid(BuildSubid(n), n)
<1>1. High \in Nat \ {0} /\ WideOctets = 2 * LongOctets /\ LongOctets \in Nat \ {0} /\ Octet \in Nat \ {0}
  BY Widths
<1> DEFINE I == {j \in 1 .. WideOctets : n < Power(High, j)}
           k == Least(I)
           d == Digits(n, k, High)
           s == BuildSubid(n)
<1>2. WideOctets \in I
  <2>1. Word <= Power(High, WideOctets)
    <3>1. LongOctets \in Nat
      BY <1>1
    <3>2. Power(Octet, LongOctets) <= Power(High, 2 * LongOctets)
      BY <3>1, SubidFits
    <3> QED
      BY <1>1, <3>2 DEF Word
  <2>2. Word \in Nat /\ Power(High, WideOctets) \in Nat
    <3>1. LongOctets \in Nat /\ WideOctets \in Nat
      BY <1>1
    <3>2. Power(Octet, LongOctets) \in Nat
      BY <1>1, <3>1, PowerNext
    <3>3. Power(High, WideOctets) \in Nat
      BY <1>1, <3>1, PowerNext
    <3> QED
      BY <3>2, <3>3 DEF Word
  <2>3. n < Power(High, WideOctets)
    BY <2>1, <2>2
  <2>4. WideOctets \in 1 .. WideOctets
    BY <1>1
  <2> QED
    BY <2>3, <2>4
<1>3. k \in I
  <2>1. I \in SUBSET Nat
    OBVIOUS
  <2> HIDE DEF I
  <2> QED
    BY <1>2, <2>1, LeastIs
<1>4. k \in 1 .. WideOctets /\ n < Power(High, k)
  <2> HIDE DEF k
  <2> QED
    BY <1>3
<1>5. s = [j \in 1 .. k |-> d[j] + IF j < k THEN High ELSE 0]
  BY DEF BuildSubid
<1> HIDE DEF k, s, d
<1>6. k \in Nat /\ n \in Int
  BY <1>4
<1>7. \A j \in 1 .. k : d[j] \in 0 .. High - 1
  <2>1. d \in Seq(0 .. High - 1) /\ Len(d) = k
    BY <1>1, <1>6, DigitsNext DEF d
  <2> QED
    BY <2>1, ElementOfSeq
<1>8. ASSUME NEW j \in 1 .. k PROVE s[j] \in Int /\ s[j] % High = d[j] /\ (s[j] < High <=> j = k)
  <2> DEFINE e == d[j]
  <2>1. e \in 0 .. High - 1
    BY <1>7
  <2>2. s[j] = e + IF j < k THEN High ELSE 0
    BY <1>5
  <2> HIDE DEF e
  <2>3. CASE j < k
    <3>1. s[j] = 1 * High + e
      BY <1>1, <2>1, <2>2, <2>3
    <3>2. (1 * High + e) % High = e
      BY <1>1, <2>1, DivUnique
    <3>3. s[j] \in Int /\ ~(s[j] < High)
      BY <1>1, <2>1, <2>2, <2>3
    <3> QED
      BY <2>3, <3>1, <3>2, <3>3 DEF e
  <2>4. CASE ~(j < k)
    <3>1. s[j] = 0 * High + e
      BY <1>1, <2>1, <2>2, <2>4
    <3>2. (0 * High + e) % High = e
      BY <1>1, <2>1, DivUnique
    <3>3. s[j] \in Int /\ s[j] < High /\ j = k
      BY <1>1, <1>6, <2>1, <2>2, <2>4
    <3> QED
      BY <3>1, <3>2, <3>3 DEF e
  <2> QED
    BY <2>3, <2>4
<1>9. s \in [1 .. k -> Int]
  BY <1>5, <1>8
<1>10. s \in Seq(Int) /\ Len(s) = k
  BY <1>6, <1>9, FunctionIsSeq
<1> QED
  BY <1>4, <1>8, <1>10 DEF SaysSubid, s, d

\* What stands between i and j in f is read as what was written.
LEMMA SubidRead ==
    ASSUME NEW n \in 0 .. Word - 1, NEW s, SaysSubid(s, n), NEW f, NEW i \in Nat,
           \A m \in 1 .. Len(s) : f[i + m] = s[m]
    PROVE  SubidOf(f, i + 1, i + Len(s)) = n
<1>1. High \in Nat \ {0} /\ LongOctets \in Nat \ {0}
  BY Widths
<1> DEFINE k == Len(s)
           d == Digits(n, k, High)
           t == [m \in 1 .. (i + k) - (i + 1) + 1 |-> f[(i + 1) + m - 1] % High]
<1>2. k \in Nat /\ n \in Int /\ n < Power(High, k) /\ \A j \in 1 .. k : s[j] % High = d[j]
  BY DEF SaysSubid
<1> HIDE DEF k
<1>3. d \in Seq(0 .. High - 1) /\ Len(d) = k
  BY <1>1, <1>2, DigitsNext
<1>4. d = [j \in 1 .. k |-> d[j]]
  BY DEF Digits
<1> HIDE DEF d
<1>5. t = d
  <2>1. (i + k) - (i + 1) + 1 = k
    BY <1>2
  <2>2. \A m \in 1 .. k : f[(i + 1) + m - 1] % High = d[m]
    <3> TAKE m \in 1 .. k
    <3>1. (i + 1) + m - 1 = i + m
      OBVIOUS
    <3>2. f[i + m] = s[m]
      BY DEF k
    <3> QED
      BY <1>2, <3>1, <3>2
  <2> QED
    BY <1>4, <2>1, <2>2
<1>6. SubidOf(f, i + 1, i + k) = Cut(Number(0, t, High), LongOctets)
  BY DEF SubidOf
<1> HIDE DEF t
<1>7. Number(0, d, High) = 0 * Power(High, k) + (n % Power(High, k))
  <2>1. 0 \in Int
    OBVIOUS
  <2> QED
    BY <1>1, <1>2, <2>1, NumberDigits DEF d
<1>8. Number(0, d, High) = n
  <2> DEFINE p == Power(High, k)
  <2>1. p \in Nat \ {0}
    BY <1>1, <1>2, PowerNext
  <2>2. n \in 0 .. p - 1
    BY <1>2, <2>1
  <2> HIDE DEF p
  <2>3. n = 0 * p + n
    BY <2>1, <2>2
  <2>4. (0 * p + n) % p = n
    BY <2>1, <2>2, DivUnique
  <2>5. n % p = n
    BY <2>3, <2>4
  <2>6. 0 * p + n = n
    BY <2>3
  <2> QED
    BY <1>7, <2>5, <2>6 DEF p
<1>9. Cut(n, LongOctets) = n
  <2>1. n \in 0 .. Power(Octet, LongOctets) - 1
    BY DEF Word
  <2> QED
    BY <1>1, <1>2, <2>1, SignedIs
<1> QED
  BY <1>5, <1>6, <1>8, <1>9 DEF k

\* Each end comes from the one before.
EndsFollow(e, f) == /\ e[0] = 0
                    /\ \A n \in 1 .. Len(f) :
                          e[n] = Least({j \in e[n - 1] + 1 .. Len(f) : f[j] < High} \cup {Len(f)})

\* The ends that the parser finds.
LEMMA SubidEndsFollow ==
    ASSUME NEW f \in Seq(Int)
    PROVE  SubidEnds(f) \in [0 .. Len(f) -> 0 .. Len(f)] /\ EndsFollow(SubidEnds(f), f)
<1> DEFINE N == Len(f)
           V == 0 .. N
           After(u) == Least({j \in u + 1 .. Len(f) : f[j] < High} \cup {Len(f)})
           step == [x \in (1 .. N) \X V |-> After(x[2])]
           end[n \in 0 .. Len(f)] ==
               IF n = 0 THEN 0
               ELSE Least({j \in end[n - 1] + 1 .. Len(f) : f[j] < High} \cup {Len(f)})
           Eqn(g) == [n \in 0 .. N |-> IF n = 0 THEN 0 ELSE After(g[n - 1])]
<1>1. N \in Nat
  BY LenProperties
<1>2. \A u \in V : After(u) \in V
  <2> TAKE u \in V
  <2> DEFINE I == {j \in u + 1 .. N : f[j] < High} \cup {N}
  <2>1. I \in SUBSET Nat /\ I # {} /\ I \subseteq V
    <3> HIDE DEF N
    <3> QED
      BY <1>1
  <2> HIDE DEF I
  <2>2. Least(I) \in I
    BY <2>1, LeastIs
  <2> QED
    BY <2>1, <2>2 DEF I
<1> HIDE DEF After
<1>3. step \in [(1 .. N) \X V -> V] /\ 0 \in V
  <2>1. 0 \in V
    <3> HIDE DEF N
    <3> QED
      BY <1>1
  <2> HIDE DEF N, V
  <2>2. \A x \in (1 .. N) \X V : After(x[2]) \in V
    BY <1>2
  <2> QED
    BY <2>1, <2>2
<1>4. PICK g \in [0 .. N -> V] : Stepwise(g, step, 0, N)
  <2> HIDE DEF N, V, step
  <2> QED
    BY <1>1, <1>3, StepwiseExists
<1>5. g = Eqn(g)
  <2>1. \A n \in 1 .. N : g[n - 1] \in V /\ g[n] = step[<<n, g[n - 1]>>]
    <3> HIDE DEF N, V, step
    <3>1. \A n \in 1 .. N : n - 1 \in 0 .. N
      BY <1>1
    <3> QED
      BY <1>4, <3>1 DEF Stepwise
  <2>2. \A n \in 1 .. N : g[n] = After(g[n - 1])
    <3> HIDE DEF N, V
    <3> QED
      BY <2>1
  <2>3. g[0] = 0
    BY <1>4 DEF Stepwise
  <2> HIDE DEF N, V
  <2>4. \A n \in 0 .. N : n = 0 \/ n \in 1 .. N
    BY <1>1
  <2>5. \A n \in 0 .. N : g[n] = IF n = 0 THEN 0 ELSE After(g[n - 1])
    BY <2>2, <2>3, <2>4
  <2> QED
    BY <2>5
<1>6. end = Eqn(end)
  BY <1>5 DEF After
<1> HIDE DEF end
<1>7. SubidEnds(f) = end
  BY DEF SubidEnds, end
<1> HIDE DEF N
<1>8. end[0] = 0 /\ \A n \in 1 .. N : end[n] = After(end[n - 1])
  <2>1. 0 \in 0 .. N /\ \A n \in 1 .. N : n \in 0 .. N /\ n # 0
    BY <1>1
  <2> QED
    BY <1>6, <2>1
<1>9. \A n \in 0 .. N : end[n] \in V
  <2> DEFINE T == {n \in Nat : n <= N => end[n] \in V}
  <2>1. 0 \in T
    BY <1>1, <1>8
  <2>2. ASSUME NEW n \in Nat, n \in T PROVE n + 1 \in T
    <3> SUFFICES ASSUME n + 1 <= N PROVE end[n + 1] \in V
      OBVIOUS
    <3>1. n + 1 \in 1 .. N /\ (n + 1) - 1 = n /\ end[n] \in V
      BY <1>1, <2>2
    <3>2. end[n + 1] = After(end[n])
      BY <1>8, <3>1
    <3> HIDE DEF V
    <3> QED
      BY <1>2, <3>1, <3>2
  <2> HIDE DEF T
  <2>3. Nat \subseteq T
    BY <2>1, <2>2, SetInduction
  <2> QED
    BY <1>1, <2>3 DEF T
<1>10. end \in [0 .. N -> V]
  BY <1>6, <1>9
<1>11. EndsFollow(end, f)
  BY <1>8 DEF EndsFollow, After, N
<1> QED
  BY <1>7, <1>10, <1>11 DEF N

\* Subidentifiers one behind the other end where their last octets are.
LEMMA SubidEndsAre ==
    ASSUME NEW ss \in Seq(Seq(Int)), NEW v, \A i \in 1 .. Len(ss) : SaysSubid(ss[i], v[i]),
           NEW f \in Seq(Int), NEW end \in [0 .. Len(ss) -> Nat], PartsOf(f, ss, end, Len(ss)),
           NEW m \in 0 .. Len(ss)
    PROVE  /\ m <= end[m] /\ end[m] <= m * WideOctets /\ end[m] <= Len(f)
           /\ SubidEnds(f)[m] = end[m]
           /\ m # Len(ss) => end[m] < Len(f)
<1> DEFINE M == Len(ss)
           N == Len(f)
           e == SubidEnds(f)
<1>1. M \in Nat /\ N \in Nat /\ \A i \in 1 .. M : ss[i] \in Seq(Int) /\ Len(ss[i]) \in Nat
  BY LenProperties
<1>2. WideOctets \in Nat
  BY Widths
<1>3. e[0] = 0 /\ \A n \in 1 .. N : e[n] = Least({j \in e[n - 1] + 1 .. N : f[j] < High} \cup {N})
  BY SubidEndsFollow DEF EndsFollow
<1>4. /\ end[0] = 0 /\ end[M] = N
      /\ \A i \in 1 .. M : end[i] = end[i - 1] + Len(ss[i])
      /\ \A i \in 1 .. M : \A j \in 1 .. Len(ss[i]) : f[end[i - 1] + j] = ss[i][j]
      /\ \A i, k \in 0 .. M : i <= k => end[i] <= end[k]
  BY DEF PartsOf
<1>5. \A i \in 1 .. M : /\ Len(ss[i]) \in 1 .. WideOctets
                        /\ \A j \in 1 .. Len(ss[i]) : ss[i][j] < High <=> j = Len(ss[i])
  BY DEF SaysSubid
<1>6. \A i \in 0 .. M : end[i] \in Nat
  OBVIOUS
<1> HIDE DEF M, N, e
<1> DEFINE Good(n) == n <= end[n] /\ end[n] <= n * WideOctets /\ e[n] = end[n]
           T == {n \in Nat : n <= M => Good(n)}
<1>7. 0 \in T
  BY <1>2, <1>3, <1>4
<1>8. ASSUME NEW n \in Nat, n \in T PROVE n + 1 \in T
  <2> SUFFICES ASSUME n + 1 <= M PROVE Good(n + 1)
    OBVIOUS
  <2> DEFINE i == n + 1
             l == Len(ss[i])
             a == end[n]
             b == end[i]
  <2>1. i \in 1 .. M /\ i - 1 = n /\ n \in 0 .. M /\ i \in 0 .. M /\ M \in 0 .. M
    BY <1>1
  <2>2. /\ l \in 1 .. WideOctets /\ \A j \in 1 .. l : ss[i][j] < High <=> j = l
        /\ b = a + l /\ \A j \in 1 .. l : f[a + j] = ss[i][j]
    <3> HIDE DEF i
    <3> QED
      BY <1>4, <1>5, <2>1
  <2>3. n <= a /\ a <= n * WideOctets /\ e[n] = a /\ a \in Nat /\ b \in Nat
    BY <1>1, <1>6, <1>8, <2>1
  <2>4. b <= N
    <3>1. end[i] <= end[M]
      <4>1. i <= M
        OBVIOUS
      <4> HIDE DEF i
      <4> QED
        BY <1>4, <2>1, <4>1
    <3> QED
      BY <1>4, <3>1
  <2> HIDE DEF i, l, a, b
  <2>5. i <= b
    BY <2>1, <2>2, <2>3
  <2>6. b <= i * WideOctets
    <3>1. i * WideOctets = n * WideOctets + WideOctets
      BY <1>2, <2>1
    <3> DEFINE x == n * WideOctets
    <3>2. x \in Int
      BY <1>2
    <3> HIDE DEF x
    <3> QED
      BY <1>2, <2>2, <2>3, <3>1, <3>2, SMTT(30) DEF x
  <2>7. i \in 1 .. N
    BY <1>1, <2>1, <2>3, <2>4, <2>5
  <2>8. e[i] = Least({j \in a + 1 .. N : f[j] < High} \cup {N})
    BY <1>3, <2>1, <2>3, <2>7
  <2> DEFINE I == {j \in a + 1 .. N : f[j] < High} \cup {N}
  <2>9. b \in I
    <3>1. l \in 1 .. l /\ b \in a + 1 .. N
      BY <1>1, <2>2, <2>3, <2>4
    <3>2. f[b] < High
      BY <2>2, <3>1
    <3> QED
      BY <3>1, <3>2
  <2>10. \A j \in I : b <= j
    <3> SUFFICES ASSUME NEW j \in a + 1 .. N, f[j] < High PROVE b <= j
      BY <2>4
    <3> SUFFICES ASSUME j < b PROVE FALSE
      BY <1>1, <2>3
    <3>1. j - a \in 1 .. l /\ j - a # l /\ a + (j - a) = j
      BY <1>1, <2>2, <2>3
    <3>2. f[j] = ss[i][j - a]
      BY <2>2, <3>1
    <3> QED
      BY <2>2, <3>1, <3>2
  <2>11. I \in SUBSET Nat /\ I # {}
    BY <1>1, <2>3
  <2>12. e[i] = b
    <3> DEFINE c == Least(I)
    <3>1. c \in I /\ \A j \in I : c <= j
      <4> HIDE DEF I
      <4> QED
        BY <2>11, LeastIs
    <3>2. c \in Nat
      BY <2>11, <3>1
    <3>3. c <= b /\ b <= c
      <4> HIDE DEF I, c
      <4> QED
        BY <2>9, <2>10, <3>1
    <3>4. e[i] = c
      BY <2>8
    <3> HIDE DEF c
    <3> QED
      BY <2>3, <3>2, <3>3, <3>4
  <2> QED
    BY <2>5, <2>6, <2>12 DEF b, i
<1> HIDE DEF T
<1>9. m \in T /\ m \in 0 .. M
  <2>1. m \in Nat /\ m \in 0 .. M
    BY <1>1 DEF M
  <2> QED
    BY <1>7, <1>8, <2>1, SetInduction
<1>10. Good(m)
  BY <1>1, <1>9 DEF T
<1>11. end[m] <= N
  <2>1. M \in 0 .. M /\ m <= M
    BY <1>1, <1>9
  <2> QED
    BY <1>4, <1>9, <2>1
<1>12. m # M => end[m] < N
  <2> SUFFICES ASSUME m # M PROVE end[m] < N
    OBVIOUS
  <2>1. m + 1 \in 1 .. M /\ m + 1 \in 0 .. M /\ M \in 0 .. M /\ m + 1 <= M /\ (m + 1) - 1 = m
    BY <1>1, <1>9
  <2>2. end[m + 1] = end[m] + Len(ss[m + 1]) /\ Len(ss[m + 1]) \in 1 .. WideOctets
    BY <1>4, <1>5, <2>1
  <2>3. end[m + 1] <= N
    BY <1>4, <2>1
  <2> QED
    BY <1>1, <1>6, <1>9, <2>1, <2>2, <2>3
<1> QED
  BY <1>10, <1>11, <1>12 DEF M, N, e

\* A long holds what the first two subidentifiers are combined to.
LEMMA WordIs == Word \in Nat /\ 80 <= Word
<1>1. Octet \in Nat \ {0} /\ LongOctets \in Nat
  BY Widths
<1>2. Power(Octet, LongOctets) \in Nat
  BY <1>1, PowerNext
<1> QED
  BY <1>2, BerAssumption DEF Word

\* What the first two subidentifiers are combined to tells them apart.
LEMMA FirstTwoIs ==
    ASSUME NEW x \in 0 .. 2, NEW y \in 0 .. Word - 1, IF x < 2 THEN y < 40 ELSE y + 80 < Word
    PROVE  FirstTwo((x * 40 + y) % Word) = <<x, y>>
<1>1. Word \in Nat /\ 80 <= Word
  BY WordIs
<1> DEFINE n == x * 40 + y
<1>2. n \in 0 .. Word - 1
  <2>1. x = 0 \/ x = 1 \/ x = 2
    OBVIOUS
  <2> QED
    BY <1>1, <2>1
<1>3. n % Word = n
  <2>1. n = 0 * Word + n /\ 0 \in Int /\ Word \in Nat \ {0}
    BY <1>1, <1>2
  <2> HIDE DEF n
  <2>2. (0 * Word + n) % Word = n
    BY <1>2, <2>1, DivUnique
  <2> QED
    BY <2>1, <2>2
<1>4. FirstTwo(n) = <<x, y>>
  <2>1. CASE x = 0
    <3>1. n = y /\ y < 40
      BY <2>1
    <3> QED
      BY <2>1, <3>1 DEF FirstTwo
  <2>2. CASE x = 1
    <3>1. n = 40 + y /\ y < 40 /\ y >= 0
      BY <2>2
    <3>2. ~(n < 40) /\ n < 80 /\ n - 40 = y
      BY <3>1
    <3> HIDE DEF n
    <3> QED
      BY <2>2, <3>2 DEF FirstTwo
  <2>3. CASE x = 2
    <3>1. n = 80 + y /\ y >= 0
      BY <2>3
    <3>2. ~(n < 40) /\ ~(n < 80) /\ n - 80 = y
      BY <3>1
    <3> HIDE DEF n
    <3> QED
      BY <2>3, <3>2 DEF FirstTwo
  <2> QED
    BY <2>1, <2>2, <2>3
<1> QED
  BY <1>3, <1>4

\* An object identifier is parsed as it was built.
LEMMA ObjidIs ==
    ASSUME NEW oid \in Seq(0 .. Word - 1), Len(oid) \in 2 .. MaxSubids, oid[1] \in 0 .. 2,
           BuildObjid(oid) # <<>>
    PROVE  /\ BuildObjid(oid) \in Seq(Int) /\ Len(BuildObjid(oid)) <= MaxSubids * WideOctets
           /\ Distinct(oid) => ParseObjid(BuildObjid(oid)) = {oid}
<1> DEFINE M == Len(oid) - 1
           first == (oid[1] * 40 + oid[2]) % Word
           w(n) == IF n = 1 THEN first ELSE oid[n + 1]
           v == [n \in 1 .. M |-> w(n)]
           ss == [n \in 1 .. M |-> BuildSubid(w(n))]
           f == BuildObjid(oid)
           e == SubidEnds(f)
<1>1. /\ M \in Nat \ {0} /\ Len(oid) = M + 1 /\ M + 1 <= MaxSubids /\ MaxSubids \in Nat
      /\ \A i \in 1 .. M + 1 : oid[i] \in 0 .. Word - 1
  <2>1. Len(oid) \in Nat /\ Len(oid) >= 2 /\ Len(oid) <= MaxSubids /\ MaxSubids \in Nat
    BY LenProperties, BerAssumption
  <2>2. \A i \in 1 .. Len(oid) : oid[i] \in 0 .. Word - 1
    BY ElementOfSeq
  <2> QED
    BY <2>1, <2>2
<1>2. Word \in Nat /\ 80 <= Word
  BY WordIs
<1>3. 1 \in 1 .. M + 1 /\ 2 \in 1 .. M + 1 /\ oid[1] \in Int /\ oid[2] \in 0 .. Word - 1
  BY <1>1
<1>4. first \in 0 .. Word - 1
  <2> DEFINE x == oid[1] * 40 + oid[2]
  <2>1. x \in Int /\ Word \in Nat \ {0}
    BY <1>2, <1>3
  <2> HIDE DEF x
  <2>2. x % Word \in 0 .. Word - 1
    BY <2>1, DivMod
  <2> QED
    BY <2>2 DEF x
<1>5. f = FlattenSeq(ss)
  BY DEF BuildObjid
<1> HIDE DEF M, first, f
<1>6. \A n \in 1 .. M : v[n] = w(n) /\ v[n] \in 0 .. Word - 1 /\ ss[n] = BuildSubid(v[n])
  <2> TAKE n \in 1 .. M
  <2>1. n + 1 \in 1 .. M + 1
    BY <1>1
  <2> QED
    BY <1>1, <1>4, <2>1
<1>7. ss \in [1 .. M -> Seq(Int)] /\ \A n \in 1 .. M : SaysSubid(ss[n], v[n])
  <2>1. \A n \in 1 .. M : SaysSubid(ss[n], v[n])
    <3> TAKE n \in 1 .. M
    <3> HIDE DEF v, ss
    <3> QED
      BY <1>6, BuildSubidSays
  <2>2. \A n \in 1 .. M : ss[n] \in Seq(Int)
    BY <2>1 DEF SaysSubid
  <2> QED
    BY <2>1, <2>2
<1> HIDE DEF v, ss
<1>8. ss \in Seq(Seq(Int)) /\ Len(ss) = M
  BY <1>1, <1>7, FunctionIsSeq
<1>9. f \in Seq(Int) /\ \E end \in [0 .. M -> Nat] : PartsOf(f, ss, end, M)
  BY <1>5, <1>8, FlattenParts
<1>10. PICK end \in [0 .. M -> Nat] : PartsOf(f, ss, end, M)
  BY <1>9
<1> DEFINE N == Len(f)
<1>11. N \in Nat
  BY <1>9, LenProperties
<1>12. \A m \in 0 .. M : /\ m <= end[m] /\ end[m] <= m * WideOctets /\ end[m] <= N
                         /\ e[m] = end[m]
                         /\ m # M => end[m] < N
  <2> TAKE m \in 0 .. M
  <2>1. PartsOf(f, ss, end, Len(ss)) /\ end \in [0 .. Len(ss) -> Nat] /\ m \in 0 .. Len(ss)
    BY <1>8, <1>10
  <2>2. \A i \in 1 .. Len(ss) : SaysSubid(ss[i], v[i])
    BY <1>7, <1>8
  <2>3. /\ m <= end[m] /\ end[m] <= m * WideOctets /\ end[m] <= Len(f)
        /\ SubidEnds(f)[m] = end[m]
        /\ m # Len(ss) => end[m] < Len(f)
    BY <1>8, <1>9, <2>1, <2>2, SubidEndsAre
  <2> QED
    BY <1>8, <2>3
<1>13. /\ end[M] = N
       /\ \A i \in 1 .. M : end[i] = end[i - 1] + Len(ss[i])
       /\ \A i \in 1 .. M : \A j \in 1 .. Len(ss[i]) : f[end[i - 1] + j] = ss[i][j]
  BY <1>10 DEF PartsOf
<1> HIDE DEF N, e
<1>14. M \in 0 .. M /\ M \in 1 .. M /\ M - 1 \in 0 .. M
  BY <1>1
<1>15. N <= MaxSubids * WideOctets /\ M <= N
  <2>1. N <= M * WideOctets /\ M <= N
    BY <1>12, <1>13, <1>14
  <2>2. (MaxSubids - M) * WideOctets >= 0
    <3> DEFINE d == MaxSubids - M
    <3>1. d \in Nat /\ WideOctets \in Nat
      BY <1>1, Widths
    <3> HIDE DEF d
    <3>2. d * WideOctets >= 0
      BY <3>1
    <3> QED
      BY <3>2 DEF d
  <2>3. (MaxSubids - M) * WideOctets = MaxSubids * WideOctets - M * WideOctets
    BY <1>1, Widths
  <2> DEFINE a == MaxSubids * WideOctets
             b == M * WideOctets
  <2>4. a \in Int /\ b \in Int
    BY <1>1, Widths
  <2> HIDE DEF a, b
  <2> QED
    BY <1>11, <2>1, <2>2, <2>3, <2>4 DEF a, b
<1>16. SUFFICES ASSUME Distinct(oid) PROVE ParseObjid(f) = {oid}
  BY <1>9, <1>15 DEF f, N
<1>17. f[N] < High
  <2>1. Len(ss[M]) \in 1 .. WideOctets /\ \A j \in 1 .. Len(ss[M]) : ss[M][j] < High <=> j = Len(ss[M])
    BY <1>7, <1>14 DEF SaysSubid
  <2>2. N = end[M - 1] + Len(ss[M]) /\ Len(ss[M]) \in 1 .. Len(ss[M])
    BY <1>13, <1>14, <2>1
  <2>3. f[N] = ss[M][Len(ss[M])]
    BY <1>13, <1>14, <2>2
  <2> QED
    BY <2>1, <2>2, <2>3
<1> DEFINE I == {n \in 0 .. Len(f) : e[n] = Len(f)}
           count == Least(I)
<1>18. count = M
  <2>1. M \in I
    BY <1>1, <1>11, <1>12, <1>13, <1>14, <1>15 DEF N
  <2>2. I \in SUBSET Nat /\ I # {}
    BY <1>11, <2>1 DEF N
  <2>3. count \in I /\ \A j \in I : count <= j
    <3> HIDE DEF I
    <3> QED
      BY <2>2, LeastIs
  <2>4. \A j \in I : j >= M
    <3> SUFFICES ASSUME NEW j \in I, j < M PROVE FALSE
      BY <1>1, <2>2
    <3>1. j \in 0 .. M /\ j # M /\ e[j] = N
      BY <1>1, <1>11 DEF N
    <3>2. end[j] < N /\ end[j] = N /\ N \in Nat
      BY <1>11, <1>12, <3>1
    <3> QED
      BY <3>2
  <2>5. count \in Nat /\ M \in Nat /\ count <= M /\ count >= M
    <3> HIDE DEF count
    <3> QED
      BY <1>1, <2>1, <2>2, <2>3, <2>4
  <2> HIDE DEF count
  <2> QED
    BY <2>5
<1> HIDE DEF I, count
<1> DEFINE subid(n) == SubidOf(f, e[n - 1] + 1, e[n])
<1>19. \A n \in 1 .. M : subid(n) = v[n]
  <2> TAKE n \in 1 .. M
  <2>1. n - 1 \in 0 .. M /\ n \in 0 .. M /\ end[n - 1] \in Nat
    BY <1>1
  <2>2. e[n - 1] = end[n - 1] /\ e[n] = end[n - 1] + Len(ss[n])
    BY <1>12, <1>13, <2>1
  <2>3. SubidOf(f, end[n - 1] + 1, end[n - 1] + Len(ss[n])) = v[n]
    <3> DEFINE s == ss[n]
               i == end[n - 1]
               x == v[n]
    <3>1. x \in 0 .. Word - 1 /\ SaysSubid(s, x) /\ i \in Nat /\ \A j \in 1 .. Len(s) : f[i + j] = s[j]
      BY <1>6, <1>7, <1>13, <2>1
    <3> HIDE DEF s, i, x
    <3>2. SubidOf(f, i + 1, i + Len(s)) = x
      BY <3>1, SubidRead
    <3> QED
      BY <3>2 DEF s, i, x
  <2> QED
    BY <2>2, <2>3
<1> DEFINE rest == [n \in 1 .. count - 1 |-> subid(n + 1)]
<1>20. ParseObjid(f) = {FirstTwo(subid(1)) \o rest}
  <2>1. f # <<>>
    BY DEF f
  <2>2. ~(f[Len(f)] >= High)
    <3>1. N \in 1 .. N
      BY <1>1, <1>11, <1>15
    <3>2. f[N] \in Int
      BY <1>9, <3>1, ElementOfSeq DEF N
    <3> QED
      BY <1>17, <3>2, Widths DEF N
  <2>3. ~(count + 1 > MaxSubids)
    BY <1>1, <1>18
  <2>4. ParseObjid(f) = IF f = <<>> THEN {<<0>>}
                        ELSE IF f[Len(f)] >= High \/ count + 1 > MaxSubids THEN {}
                        ELSE {FirstTwo(subid(1)) \o rest}
    BY DEF ParseObjid, count, I, e
  <2> HIDE DEF subid, rest
  <2> QED
    BY <2>1, <2>2, <2>3, <2>4
<1>21. FirstTwo(subid(1)) = <<oid[1], oid[2]>>
  <2>1. subid(1) = first
    BY <1>1, <1>6, <1>19
  <2>2. FirstTwo(first) = <<oid[1], oid[2]>>
    BY <1>3, <1>16, FirstTwoIs DEF Distinct, first
  <2> HIDE DEF subid
  <2> QED
    BY <2>1, <2>2
<1>22. rest = [n \in 1 .. M - 1 |-> oid[n + 2]]
  <2>1. \A n \in 1 .. M - 1 : subid(n + 1) = oid[n + 2]
    <3> TAKE n \in 1 .. M - 1
    <3>1. n + 1 \in 1 .. M /\ n + 1 # 1 /\ (n + 1) + 1 = n + 2
      BY <1>1
    <3> DEFINE i == n + 1
    <3>2. v[i] = oid[i + 1] /\ subid(i) = v[i]
      <4> HIDE DEF i, subid
      <4>1. i \in 1 .. M /\ i # 1
        BY <3>1 DEF i
      <4> QED
        BY <1>6, <1>19, <4>1
    <3> HIDE DEF subid
    <3> QED
      BY <3>1, <3>2
  <2> HIDE DEF subid
  <2> QED
    BY <1>18, <2>1
<1> DEFINE a == <<oid[1], oid[2]>>
           b == [n \in 1 .. M - 1 |-> oid[n + 2]]
           S == 0 .. Word - 1
<1>23. b \in Seq(S) /\ Len(b) = M - 1 /\ a \in Seq(S) /\ Len(a) = 2 /\ a[1] = oid[1] /\ a[2] = oid[2]
  <2>1. M - 1 \in Nat
    BY <1>1
  <2>2. \A n \in 1 .. M - 1 : oid[n + 2] \in S
    BY <1>1
  <2>3. b \in [1 .. M - 1 -> S]
    <3> HIDE DEF S
    <3> QED
      BY <2>2
  <2> HIDE DEF b, S
  <2>4. b \in Seq(S) /\ Len(b) = M - 1
    BY <2>1, <2>3, FunctionIsSeq
  <2>5. oid[1] \in S /\ oid[2] \in S
    BY <1>1, <1>3 DEF S
  <2> QED
    BY <2>4, <2>5
<1>24. a \o b = oid
  <2>1. /\ a \o b \in Seq(S) /\ Len(a \o b) = 2 + (M - 1)
        /\ \A i \in 1 .. 2 + (M - 1) : (a \o b)[i] = IF i <= 2 THEN a[i] ELSE b[i - 2]
    <3> HIDE DEF a, b, S
    <3>1. a \in Seq(S) /\ b \in Seq(S)
      BY <1>23
    <3>2. /\ a \o b \in Seq(S) /\ Len(a \o b) = Len(a) + Len(b)
          /\ \A i \in 1 .. Len(a) + Len(b) :
                (a \o b)[i] = IF i <= Len(a) THEN a[i] ELSE b[i - Len(a)]
      BY ONLY <3>1, ConcatProperties
    <3> QED
      BY <1>23, <3>2
  <2>2. \A i \in 1 .. M + 1 : (a \o b)[i] = oid[i]
    <3> TAKE i \in 1 .. M + 1
    <3>1. CASE i <= 2
      <4>1. i = 1 \/ i = 2
        BY <1>1, <3>1
      <4>2. i \in 1 .. 2 + (M - 1)
        BY <1>1
      <4>3. (a \o b)[i] = a[i]
        <5> HIDE DEF a, b
        <5> QED
          BY <2>1, <3>1, <4>2
      <4> HIDE DEF a, b
      <4> QED
        BY <1>23, <4>1, <4>3
    <3>2. CASE i > 2
      <4>1. i - 2 \in 1 .. M - 1 /\ (i - 2) + 2 = i /\ i \in 1 .. 2 + (M - 1) /\ ~(i <= 2)
        BY <1>1, <3>2
      <4>2. (a \o b)[i] = b[i - 2]
        <5> HIDE DEF a, b
        <5> QED
          BY <2>1, <4>1
      <4>3. b[i - 2] = oid[i]
        BY <4>1
      <4> HIDE DEF a, b
      <4> QED
        BY <4>2, <4>3
    <3> QED
      BY <1>1, <3>1, <3>2
  <2>3. Len(a \o b) = Len(oid)
    BY <1>1, <2>1
  <2> HIDE DEF a, b
  <2> QED
    BY <1>1, <2>1, <2>2, <2>3, SeqEqual DEF S
<1> QED
  BY <1>20, <1>21, <1>22, <1>24

\* How long what shows a value may be.
LEMMA EncodedIs ==
    ASSUME NEW k \in Nat \ {0}, NEW n \in Int, NEW s, Encoded(s, n, k)
    PROVE  s \in Seq(Int) /\ Len(s) \in 1 .. k + 1
<1>1. PICK m \in 1 .. k + 1 : s = Octets(n, m)
  BY DEF Encoded, Shown
<1>2. m \in Nat \ {0}
  OBVIOUS
<1>3. s \in Seq(0 .. Octet - 1) /\ Len(s) = m
  BY <1>1, <1>2, FirstOctet
<1>4. 0 .. Octet - 1 \subseteq Int
  OBVIOUS
<1> QED
  BY <1>3, <1>4, SeqMonotonic

\* The width of a 64-bit integer.
LEMMA WideHalf ==
  /\ WideOctets \in Nat /\ WideOctets \in Nat \ {0} /\ Half(WideOctets) \in Nat
  /\ Power(Octet, WideOctets) \in Nat /\ Power(Octet, WideOctets) = 2 * Half(WideOctets)
<1>1. WideOctets \in Nat \ {0} /\ WideOctets \in Nat /\ Octet \in Nat \ {0}
  BY Widths
<1> QED
  BY <1>1, HalfIs, PowerNext

\* A 64-bit integer fits into twice as many octets as a long.
LEMMA WideIs ==
    ASSUME NEW n \in WideValues
    PROVE  n \in 0 .. Power(Octet, WideOctets) - 1
<1>1. Word \in Nat /\ LongOctets \in Nat \ {0} /\ Octet \in Nat \ {0} /\ WideOctets = LongOctets + LongOctets
  BY WordIs, Widths
<1>2. PICK high \in Halves, low \in Halves : n = high * Word + low
  BY DEF WideValues
<1>3. high \in 0 .. Word - 1 /\ low \in 0 .. Word - 1
  BY BerAssumption
<1>4. Power(Octet, WideOctets) = Word * Word
  <2>1. LongOctets \in Nat
    BY <1>1
  <2>2. Power(Octet, LongOctets + LongOctets) = Power(Octet, LongOctets) * Power(Octet, LongOctets)
    BY <1>1, <2>1, PowerAdd
  <2> QED
    BY <1>1, <2>2 DEF Word
<1> DEFINE w == Word
           d == Word - 1 - high
<1>5. d \in Nat /\ w \in Nat /\ high \in Nat /\ low \in Nat /\ low < w /\ high = w - 1 - d
  BY <1>1, <1>3
<1> HIDE DEF w, d
<1>6. high * w \in Nat /\ d * w \in Nat /\ w * w \in Nat
  BY <1>5
<1>7. high * w = w * w - w - d * w
  BY <1>5
<1> DEFINE a == high * w
           b == d * w
           c == w * w
<1> HIDE DEF a, b, c
<1>8. a \in Nat /\ b \in Nat /\ c \in Nat /\ a = c - w - b
  BY <1>6, <1>7 DEF a, b, c
<1>9. a + low \in 0 .. c - 1
  BY <1>5, <1>8
<1> QED
  BY <1>2, <1>4, <1>9 DEF a, c, w

\* Lengths that two octets and a long hold.
Fits(n) == n < Octet * Octet /\ n < Word \div 2

\* What is not longer than the longest that is encoded fits.
LEMMA LengthsFit ==
    ASSUME NEW n \in Nat, NEW m \in StringSizes \cup {WideOctets + 4, MaxSubids * WideOctets},
           n <= m, m \in Nat
    PROVE  Fits(n)
<1> DEFINE a == Octet * Octet
           b == Word \div 2
<1>1. m < a /\ m < b
  BY BerAssumption
<1>2. a \in Nat /\ b \in Nat
  <2>1. a \in Nat
    BY Widths
  <2>2. b \in Nat
    BY LongHalf
  <2> QED
    BY <2>1, <2>2
<1> HIDE DEF a, b
<1>3. n < a /\ n < b
  BY <1>1, <1>2
<1> QED
  BY <1>3 DEF Fits, a, b

\* What an item's contents are and what they are read as.
ReadsAs(c, kind, v) ==
    /\ c \in Seq(Int)
    /\ IF Tags(kind) = <<>> THEN Fits(Len(c)) ELSE Len(c) <= WideOctets + 1
    /\ (kind = "objid" => Distinct(v)) => Values(kind, c) = {v}

\* Integers fit.
LEMMA ShortFits ==
    ASSUME NEW n \in 0 .. WideOctets + 1
    PROVE  Fits(n)
<1>1. WideOctets \in Nat
  BY Widths
<1>2. n \in Nat /\ n <= WideOctets + 4 /\ WideOctets + 4 \in Nat
  BY <1>1
<1> QED
  BY <1>2, LengthsFit

\* An INTEGER is read as it was built.
LEMMA IntReads ==
    ASSUME NEW v \in -(Word \div 2) .. Word \div 2 - 1,
           NEW c \in {ContentsOf("int", v), RContentsOf("int", v)}
    PROVE  ReadsAs(c, "int", v)
<1>1. /\ LongOctets \in Nat \ {0} /\ WideOctets = 2 * LongOctets
      /\ Half(LongOctets) \in Nat \ {0} /\ Word = 2 * Half(LongOctets)
  BY Widths, LongHalf, HalfIs
<1>2. v \in -Half(LongOctets) .. Half(LongOctets) - 1
  BY LongHalf
<1>3. Encoded(c, v, LongOctets)
  <2>1. ContentsOf("int", v) = BuildSigned(v, LongOctets) /\ RContentsOf("int", v) = RBuild(v, IF v < 0 THEN -1 ELSE 0)
    BY DEF ContentsOf, RContentsOf
  <2>2. v \in -Half(LongOctets) .. Word - 1
    BY <1>1, <1>2
  <2>3. Encoded(BuildSigned(v, LongOctets), v, LongOctets)
    BY <1>1, <1>2, BuildSignedIs
  <2>4. Encoded(RBuild(v, IF v < 0 THEN -1 ELSE 0), v, LongOctets)
    BY <2>2, RBuildIs
  <2> QED
    BY <2>1, <2>3, <2>4
<1>4. ParseSigned(c, 1, LongOctets, LongOctets) = {v} /\ Len(c) \in 1 .. LongOctets
  BY <1>1, <1>2, <1>3, ParseSignedIs
<1>5. c \in Seq(Int)
  BY <1>1, <1>2, <1>3, EncodedIs
<1>6. Fits(Len(c))
  <2>1. Len(c) \in 0 .. WideOctets + 1
    BY <1>1, <1>4
  <2> QED
    BY <2>1, ShortFits
<1>7. Tags("int") = <<>> /\ Values("int", c) = ParseSigned(c, 1, LongOctets, LongOctets)
  BY DEF Tags, Values
<1> QED
  BY <1>4, <1>5, <1>6, <1>7 DEF ReadsAs

\* So is an unsigned integer,
LEMMA UnsignedReads ==
    ASSUME NEW v \in 0 .. Word - 1,
           NEW c \in {ContentsOf("unsigned", v), RContentsOf("unsigned", v)}
    PROVE  ReadsAs(c, "unsigned", v)
<1>1. /\ LongOctets \in Nat \ {0} /\ WideOctets = 2 * LongOctets
      /\ Half(LongOctets) \in Nat \ {0} /\ Word = Power(Octet, LongOctets) /\ Word \in Nat
  BY Widths, LongHalf, WordIs
<1>2. v \in 0 .. Power(Octet, LongOctets) - 1 /\ v \in Int /\ ~(v < 0)
  BY <1>1
<1>3. Encoded(c, v, LongOctets)
  <2>1. ContentsOf("unsigned", v) = BuildUnsigned(v, LongOctets) /\ RContentsOf("unsigned", v) = RBuild(v, 0)
    BY DEF ContentsOf, RContentsOf
  <2>2. v \in -Half(LongOctets) .. Word - 1
    BY <1>1
  <2>3. Encoded(BuildUnsigned(v, LongOctets), v, LongOctets)
    BY <1>1, <1>2, BuildUnsignedIs
  <2>4. Encoded(RBuild(v, IF v < 0 THEN -1 ELSE 0), v, LongOctets)
    BY <2>2, RBuildIs
  <2>5. (IF v < 0 THEN -1 ELSE 0) = 0
    BY <1>2
  <2> QED
    BY <2>1, <2>3, <2>4, <2>5
<1>4. ParseUnsigned(c) = {v} /\ Len(c) \in 1 .. LongOctets + 1
  BY <1>1, <1>2, <1>3, ParseUnsignedIs DEF ParseUnsigned
<1>5. c \in Seq(Int)
  BY <1>1, <1>2, <1>3, EncodedIs
<1>6. Fits(Len(c))
  <2>1. Len(c) \in 0 .. WideOctets + 1
    BY <1>1, <1>4
  <2> QED
    BY <2>1, ShortFits
<1>7. Tags("unsigned") = <<>> /\ Values("unsigned", c) = ParseUnsigned(c)
  BY DEF Tags, Values
<1> QED
  BY <1>4, <1>5, <1>6, <1>7 DEF ReadsAs

\* a 64-bit one,
LEMMA WideEncoded ==
    ASSUME NEW v \in 0 .. Power(Octet, WideOctets) - 1
    PROVE  Encoded(BuildUnsigned(v, WideOctets), v, WideOctets) /\ Encoded(RBuildWide(v, 0, FALSE), v, WideOctets)
<1>1. WideOctets \in Nat \ {0} /\ Half(WideOctets) \in Nat /\ Power(Octet, WideOctets) \in Nat
  BY WideHalf
<1>2. v \in -Half(WideOctets) .. Power(Octet, WideOctets) - 1 /\ ~(v < 0)
  BY <1>1
<1>3. Encoded(BuildUnsigned(v, WideOctets), v, WideOctets)
  BY <1>1, BuildUnsignedIs
<1>4. Encoded(RBuildWide(v, IF v < 0 THEN -1 ELSE 0, FALSE), v, WideOctets)
  BY <1>2, RBuildWideIs
<1>5. (IF v < 0 THEN -1 ELSE 0) = 0
  BY <1>2
<1> QED
  BY <1>3, <1>4, <1>5

\* which is parsed as its value,
LEMMA WideParsed ==
    ASSUME NEW v \in 0 .. Power(Octet, WideOctets) - 1, NEW c, Encoded(c, v, WideOctets)
    PROVE  /\ c \in Seq(Int) /\ Len(c) <= WideOctets + 1 /\ Fits(Len(c))
           /\ ParseUnsignedWide(c) = {v}
<1>1. WideOctets \in Nat /\ WideOctets \in Nat \ {0} /\ Power(Octet, WideOctets) \in Nat
  BY WideHalf
<1>2. v \in Int
  BY <1>1
<1>3. ParseUnsignedWide(c) = {v} /\ Len(c) \in 1 .. WideOctets + 1
  BY <1>1, ParseUnsignedIs DEF ParseUnsignedWide
<1>4. c \in Seq(Int)
  BY <1>1, <1>2, EncodedIs
<1>5. Len(c) \in 0 .. WideOctets + 1 /\ Len(c) <= WideOctets + 1
  BY <1>1, <1>3
<1>6. Fits(Len(c))
  BY <1>5, ShortFits
<1> QED
  BY <1>3, <1>4, <1>5, <1>6

\* in an Opaque or not,
LEMMA WideReads ==
    ASSUME NEW v \in 0 .. Power(Octet, WideOctets) - 1, NEW kind \in {"counter64", "opaque u64"},
           NEW c \in {ContentsOf(kind, v), RContentsOf(kind, v)}
    PROVE  ReadsAs(c, kind, v)
<1>1. Encoded(c, v, WideOctets)
  <2>1. ContentsOf(kind, v) = BuildUnsigned(v, WideOctets) /\ RContentsOf(kind, v) = RBuildWide(v, 0, FALSE)
    BY DEF ContentsOf, RContentsOf
  <2> QED
    BY <2>1, WideEncoded
<1>2. c \in Seq(Int) /\ Len(c) <= WideOctets + 1 /\ Fits(Len(c)) /\ ParseUnsignedWide(c) = {v}
  BY <1>1, WideParsed
<1>3. Values(kind, c) = ParseUnsignedWide(c) /\ kind # "objid"
  BY DEF Values
<1> QED
  BY <1>2, <1>3 DEF ReadsAs

\* a signed one,
LEMMA SignedEncoded ==
    ASSUME NEW v \in -Half(WideOctets) .. Half(WideOctets) - 1
    PROVE  /\ Encoded(BuildSigned(v, WideOctets), v, WideOctets)
           /\ Encoded(RBuildWide(v, IF v < 0 THEN -1 ELSE 0, TRUE), v, WideOctets)
<1>1. /\ WideOctets \in Nat \ {0} /\ Half(WideOctets) \in Nat
      /\ Power(Octet, WideOctets) \in Nat /\ Power(Octet, WideOctets) = 2 * Half(WideOctets)
  BY WideHalf
<1>2. v \in -Half(WideOctets) .. Power(Octet, WideOctets) - 1
  BY <1>1
<1>3. Encoded(BuildSigned(v, WideOctets), v, WideOctets)
  BY <1>1, BuildSignedIs
<1>4. Encoded(RBuildWide(v, IF v < 0 THEN -1 ELSE 0, TRUE), v, WideOctets)
  BY <1>2, RBuildWideIs
<1> QED
  BY <1>3, <1>4

\* which is parsed as its value as well,
LEMMA SignedParsed ==
    ASSUME NEW v \in -Half(WideOctets) .. Half(WideOctets) - 1, NEW c, Encoded(c, v, WideOctets)
    PROVE  /\ c \in Seq(Int) /\ Len(c) <= WideOctets + 1
           /\ ParseSigned(c, 0, WideOctets + 1, WideOctets) = {v}
<1>1. WideOctets \in Nat /\ WideOctets \in Nat \ {0} /\ Half(WideOctets) \in Nat
  BY WideHalf
<1>2. v \in Int
  BY <1>1
<1>3. ParseSigned(c, 0, WideOctets + 1, WideOctets) = {v} /\ Len(c) \in 1 .. WideOctets
  BY <1>1, ParseSignedIs
<1>4. c \in Seq(Int)
  BY <1>1, <1>2, EncodedIs
<1>5. Len(c) <= WideOctets + 1
  BY <1>1, <1>3
<1> QED
  BY <1>3, <1>4, <1>5

\* in an Opaque,
LEMMA SignedReads ==
    ASSUME NEW v \in -Half(WideOctets) .. Half(WideOctets) - 1,
           NEW c \in {ContentsOf("opaque i64", v), RContentsOf("opaque i64", v)}
    PROVE  ReadsAs(c, "opaque i64", v)
<1>1. Encoded(c, v, WideOctets)
  <2>1. /\ ContentsOf("opaque i64", v) = BuildSigned(v, WideOctets)
        /\ RContentsOf("opaque i64", v) = RBuildWide(v, IF v < 0 THEN -1 ELSE 0, TRUE)
    BY DEF ContentsOf, RContentsOf
  <2> QED
    BY <2>1, SignedEncoded
<1>2. c \in Seq(Int) /\ Len(c) <= WideOctets + 1 /\ ParseSigned(c, 0, WideOctets + 1, WideOctets) = {v}
  BY <1>1, SignedParsed
<1>3. Values("opaque i64", c) = ParseSigned(c, 0, WideOctets + 1, WideOctets)
  BY DEF Values
<1>4. Tags("opaque i64") # <<>>
  BY DEF Tags
<1> QED
  BY <1>2, <1>3, <1>4 DEF ReadsAs

\* a string,
LEMMA StringReads ==
    ASSUME NEW v \in StringSizes, NEW c \in {ContentsOf("string", v), RContentsOf("string", v)}
    PROVE  ReadsAs(c, "string", v)
<1>1. v \in Nat
  BY BerAssumption
<1>2. c = [j \in 1 .. v |-> 0]
  BY DEF ContentsOf, RContentsOf
<1>3. c \in [1 .. v -> Int]
  BY <1>2
<1>4. c \in Seq(Int) /\ Len(c) = v
  BY <1>1, <1>3, FunctionIsSeq
<1>5. Fits(v)
  BY <1>1, LengthsFit
<1>6. Tags("string") = <<>> /\ Values("string", c) = {Len(c)}
  BY DEF Tags, Values
<1> QED
  BY <1>4, <1>5, <1>6 DEF ReadsAs

\* and an object identifier.
LEMMA ObjidReads ==
    ASSUME NEW n \in 2 .. MaxSubids, NEW x \in 0 .. 2, NEW rest \in [1 .. n - 1 -> Subids],
           NEW v, v = <<x>> \o rest, BuildObjid(v) # <<>>,
           NEW c \in {ContentsOf("objid", v), RContentsOf("objid", v)}
    PROVE  ReadsAs(c, "objid", v)
<1> DEFINE S == 0 .. Word - 1
<1>1. MaxSubids \in Nat /\ WideOctets \in Nat /\ Word \in Nat /\ 80 <= Word
  BY BerAssumption, Widths, WordIs
<1>2. n - 1 \in Nat /\ n \in Nat /\ rest \in [1 .. n - 1 -> S] /\ x \in S
  BY <1>1, BerAssumption
<1> HIDE DEF S
<1>3. rest \in Seq(S) /\ Len(rest) = n - 1
  BY <1>2, FunctionIsSeq
<1>4. <<x>> \in Seq(S) /\ Len(<<x>>) = 1 /\ <<x>>[1] = x
  BY <1>2
<1>5. v \in Seq(S) /\ Len(v) = n /\ v[1] = x
  <2> DEFINE a == <<x>>
  <2> HIDE DEF a
  <2>1. a \in Seq(S) /\ Len(a) = 1 /\ a[1] = x /\ v = a \o rest
    BY <1>4 DEF a
  <2>2. /\ a \o rest \in Seq(S) /\ Len(a \o rest) = Len(a) + Len(rest)
        /\ \A i \in 1 .. Len(a) + Len(rest) :
              (a \o rest)[i] = IF i <= Len(a) THEN a[i] ELSE rest[i - Len(a)]
    BY ONLY <1>3, <2>1, ConcatProperties
  <2>3. 1 \in 1 .. Len(a) + Len(rest) /\ 1 <= Len(a)
    BY <1>2, <1>3, <2>1
  <2> QED
    BY <1>2, <1>3, <2>1, <2>2, <2>3
<1>6. c = BuildObjid(v)
  BY DEF ContentsOf, RContentsOf
<1>7. c \in Seq(Int) /\ Len(c) <= MaxSubids * WideOctets /\ (Distinct(v) => ParseObjid(c) = {v})
  <2>1. v \in Seq(0 .. Word - 1) /\ Len(v) \in 2 .. MaxSubids /\ v[1] \in 0 .. 2
    BY <1>5 DEF S
  <2> QED
    BY <1>6, <2>1, ObjidIs
<1>8. Fits(Len(c))
  <2> DEFINE m == MaxSubids * WideOctets
             l == Len(c)
  <2>1. m \in Nat /\ l \in Nat /\ l <= m /\ m \in StringSizes \cup {WideOctets + 4, MaxSubids * WideOctets}
    BY <1>1, <1>7, LenProperties
  <2> HIDE DEF m, l
  <2>2. Fits(l)
    BY <2>1, LengthsFit
  <2> QED
    BY <2>2 DEF l
<1>9. Tags("objid") = <<>> /\ Values("objid", c) = ParseObjid(c)
  BY DEF Tags, Values
<1> QED
  BY <1>7, <1>8, <1>9 DEF ReadsAs

\* Whatever the item is, its contents are read as its value.
LEMMA ItemReads ==
    ASSUME ItemInit, ~Refused,
           NEW c \in {ContentsOf(item.kind, item.value), RContentsOf(item.kind, item.value)}
    PROVE  ReadsAs(c, item.kind, item.value)
<1>1. CASE \E n \in -(Word \div 2) .. Word \div 2 - 1 : item = [kind |-> "int", value |-> n]
  <2>1. PICK n \in -(Word \div 2) .. Word \div 2 - 1 : item = [kind |-> "int", value |-> n]
    BY <1>1
  <2>2. item.kind = "int" /\ item.value = n
    BY <2>1
  <2>3. c \in {ContentsOf("int", n), RContentsOf("int", n)}
    BY <2>2
  <2>4. ReadsAs(c, "int", n)
    BY <2>3, IntReads
  <2> QED
    BY <2>2, <2>4
<1>2. CASE \E n \in 0 .. Word - 1 : item = [kind |-> "unsigned", value |-> n]
  <2>1. PICK n \in 0 .. Word - 1 : item = [kind |-> "unsigned", value |-> n]
    BY <1>2
  <2>2. item.kind = "unsigned" /\ item.value = n
    BY <2>1
  <2>3. c \in {ContentsOf("unsigned", n), RContentsOf("unsigned", n)}
    BY <2>2
  <2>4. ReadsAs(c, "unsigned", n)
    BY <2>3, UnsignedReads
  <2> QED
    BY <2>2, <2>4
<1>3. CASE \E n \in WideValues, k \in {"counter64", "opaque u64"} : item = [kind |-> k, value |-> n]
  <2>1. PICK n \in WideValues, k \in {"counter64", "opaque u64"} : item = [kind |-> k, value |-> n]
    BY <1>3
  <2>2. item.kind = k /\ item.value = n
    BY <2>1
  <2>3. c \in {ContentsOf(k, n), RContentsOf(k, n)}
    BY <2>2
  <2>4. n \in 0 .. Power(Octet, WideOctets) - 1
    BY WideIs
  <2>5. ReadsAs(c, k, n)
    BY <2>3, <2>4, WideReads
  <2> QED
    BY <2>2, <2>5
<1>4. CASE \E n \in WideValues : item = [kind |-> "opaque i64", value |-> Signed(n, WideOctets)]
  <2>1. PICK n \in WideValues : item = [kind |-> "opaque i64", value |-> Signed(n, WideOctets)]
    BY <1>4
  <2> DEFINE v == Signed(n, WideOctets)
  <2>2. item.kind = "opaque i64" /\ item.value = v
    BY <2>1
  <2>3. c \in {ContentsOf("opaque i64", v), RContentsOf("opaque i64", v)}
    BY <2>2
  <2>4. v \in -Half(WideOctets) .. Half(WideOctets) - 1
    <3>1. n \in 0 .. Power(Octet, WideOctets) - 1
      BY WideIs
    <3>2. n \in Int /\ WideOctets \in Nat \ {0}
      BY <3>1, WideHalf
    <3> QED
      BY <3>2, SignedIs
  <2> HIDE DEF v
  <2>5. ReadsAs(c, "opaque i64", v)
    BY <2>3, <2>4, SignedReads
  <2> QED
    BY <2>2, <2>5
<1>5. CASE \E n \in StringSizes : item = [kind |-> "string", value |-> n]
  <2>1. PICK n \in StringSizes : item = [kind |-> "string", value |-> n]
    BY <1>5
  <2>2. item.kind = "string" /\ item.value = n
    BY <2>1
  <2>3. c \in {ContentsOf("string", n), RContentsOf("string", n)}
    BY <2>2
  <2>4. ReadsAs(c, "string", n)
    BY <2>3, StringReads
  <2> QED
    BY <2>2, <2>4
<1>6. CASE \E n \in 2 .. MaxSubids : \E x \in 0 .. 2, rest \in [1 .. n - 1 -> Subids] :
              item = [kind |-> "objid", value |-> <<x>> \o rest]
  <2>1. PICK n \in 2 .. MaxSubids : \E x \in 0 .. 2, rest \in [1 .. n - 1 -> Subids] :
             item = [kind |-> "objid", value |-> <<x>> \o rest]
    BY <1>6
  <2>2. PICK x \in 0 .. 2, rest \in [1 .. n - 1 -> Subids] :
             item = [kind |-> "objid", value |-> <<x>> \o rest]
    BY <2>1
  <2> DEFINE v == <<x>> \o rest
  <2>3. item.kind = "objid" /\ item.value = v
    BY <2>2
  <2>4. c \in {ContentsOf("objid", v), RContentsOf("objid", v)}
    BY <2>3
  <2>5. BuildObjid(v) # <<>>
    BY <2>3 DEF Refused
  <2>6. v = <<x>> \o rest
    OBVIOUS
  <2> HIDE DEF v
  <2>7. ReadsAs(c, "objid", v)
    BY <2>4, <2>5, <2>6, ObjidReads
  <2> QED
    BY <2>3, <2>7
<1> QED
  BY <1>1, <1>2, <1>3, <1>4, <1>5, <1>6 DEF ItemInit

\* What stands in an Opaque behind its tags and its length.
LEMMA TaggedIs ==
    ASSUME NEW x \in Int, NEW y \in Int, NEW b \in Seq(Int)
    PROVE  Len(<<x, y>> \o <<Len(b)>> \o b) = Len(b) + 3
<1> DEFINE t == <<x, y>>
           l == <<Len(b)>>
<1>1. Len(b) \in Nat
  BY LenProperties
<1>2. t \in Seq(Int) /\ l \in Seq(Int) /\ Len(t) = 2 /\ Len(l) = 1
  BY <1>1
<1> HIDE DEF t, l
<1>3. t \o l \in Seq(Int) /\ Len(t \o l) = Len(t) + Len(l)
  BY <1>2, ConcatProperties
<1> DEFINE tl == t \o l
<1> HIDE DEF tl
<1>4. tl \in Seq(Int) /\ Len(tl) = 3
  BY <1>2, <1>3 DEF tl
<1>5. Len(tl \o b) = Len(tl) + Len(b)
  BY <1>4, ConcatProperties
<1>6. Len(tl \o b) = Len(b) + 3
  BY <1>1, <1>4, <1>5
<1> QED
  BY <1>6 DEF tl, t, l

\* A packet is parsed as the item, and as nothing if any of it is missing.
LEMMA EncodingReads ==
    ASSUME ItemInit, octets # <<>>, ~Refused, octets \in Encodings, NEW n \in 0 .. Len(octets),
           item.kind = "objid" => Distinct(item.value)
    PROVE  ParsedFrom(n).values = IF n = Len(octets) THEN {item.value} ELSE {}
<1> DEFINE kind == item.kind
           v == item.value
           forward == Wrapped(kind, ContentsOf(kind, v))
           reverse == Wrapped(kind, RContentsOf(kind, v))
<1>1. octets \in {BuildLength(Len(forward)) \o forward, RBuildLength(Len(reverse)) \o reverse}
  BY DEF Encodings
<1> HIDE DEF forward, reverse
<1> DEFINE Begins(u, c) == u \in {BuildLength(Len(Wrapped(kind, c))), RBuildLength(Len(Wrapped(kind, c)))}
<1>2. PICK c \in {ContentsOf(kind, v), RContentsOf(kind, v)} :
           \E u : Begins(u, c) /\ octets = u \o Wrapped(kind, c)
  <2>1. CASE octets = BuildLength(Len(forward)) \o forward
    <3> DEFINE c == ContentsOf(kind, v)
    <3>1. octets = BuildLength(Len(Wrapped(kind, c))) \o Wrapped(kind, c)
      BY <2>1 DEF forward
    <3> HIDE DEF kind, v
    <3> QED
      BY <3>1
  <2>2. CASE octets = RBuildLength(Len(reverse)) \o reverse
    <3> DEFINE c == RContentsOf(kind, v)
    <3>1. octets = RBuildLength(Len(Wrapped(kind, c))) \o Wrapped(kind, c)
      BY <2>2 DEF reverse
    <3> HIDE DEF kind, v
    <3> QED
      BY <3>1
  <2> QED
    BY <1>1, <2>1, <2>2
<1>3. PICK u : Begins(u, c) /\ octets = u \o Wrapped(kind, c)
  BY <1>2
<1>4. ReadsAs(c, kind, v)
  BY ItemReads
<1>5. c \in Seq(Int) /\ Values(kind, c) = {v}
  BY <1>4 DEF ReadsAs
<1> DEFINE w == Wrapped(kind, c)
           found == IF Tags(kind) = <<>> THEN Contents(octets, 1, n) ELSE OpaqueContents(n)
<1>6. ParsedFrom(n).values = UNION {Values(kind, s) : s \in found}
  BY DEF ParsedFrom
<1>7. Len(c) \in Nat
  BY <1>5, LenProperties
<1>8. ASSUME NEW m \in Nat, Fits(m) PROVE SaysLength(BuildLength(m), m) /\ SaysLength(RBuildLength(m), m)
  BY <1>8, BuildLengthSays, RBuildLengthSays DEF Fits
<1>9. found = IF n = Len(octets) THEN {c} ELSE {}
  <2>1. CASE Tags(kind) = <<>>
    <3>1. w = c
      BY <2>1 DEF Wrapped
    <3>2. Fits(Len(c))
      BY <1>4, <2>1 DEF ReadsAs
    <3>3. SaysLength(u, Len(c)) /\ octets = u \o c /\ Len(c) < Word \div 2
      BY <1>3, <1>7, <1>8, <3>1, <3>2 DEF Fits
    <3>4. Contents(u \o c, 1, n) = IF n = Len(u \o c) THEN {c} ELSE {}
      <4>1. n \in 0 .. Len(u \o c)
        BY <3>3
      <4> QED
        BY <1>5, <3>3, <4>1, FramedIs
    <3> QED
      BY <2>1, <3>3, <3>4
  <2>2. CASE Tags(kind) # <<>>
    <3>1. \E x, y \in Int : Tags(kind) = <<x, y>>
      <4>1. High + 1 \in Int /\ High + 2 \in Int /\ High + 3 \in Int
        BY Widths
      <4>2. Tags(kind) = <<High + 1, High + 2>> \/ Tags(kind) = <<High + 1, High + 3>>
        BY <2>2 DEF Tags
      <4> HIDE DEF kind
      <4> QED
        BY <4>1, <4>2
    <3>2. PICK x \in Int, y \in Int : Tags(kind) = <<x, y>>
      BY <3>1
    <3>3. Len(c) <= WideOctets + 1
      BY <1>4, <2>2 DEF ReadsAs
    <3>4. w = <<x, y>> \o <<Len(c)>> \o c
      BY <2>2, <3>2 DEF Wrapped
    <3>5. Len(w) = Len(c) + 3
      BY <1>5, <3>4, TaggedIs
    <3>6. Fits(Len(w)) /\ Len(w) \in Nat
      <4> DEFINE l == Len(w)
                 k == Len(c)
      <4>1. l = k + 3 /\ k \in Nat /\ k <= WideOctets + 1 /\ WideOctets \in Nat
        BY <1>7, <3>3, <3>5, Widths
      <4> HIDE DEF l, k
      <4>2. l \in Nat /\ l <= WideOctets + 4 /\ WideOctets + 4 \in Nat
        BY <4>1
      <4>3. Fits(l)
        BY <4>2, LengthsFit
      <4> QED
        BY <4>2, <4>3 DEF l
    <3>7. SaysLength(u, Len(w)) /\ octets = u \o w
      BY <1>3, <1>8, <3>6
    <3> HIDE DEF w
    <3>8. OpaqueContents(n) = IF n = Len(octets) THEN {c} ELSE {}
      <4> DEFINE t == Tags(item.kind)
      <4>1. Tags(item.kind) = <<x, y>> /\ c \in Seq(Int) /\ Len(c) <= WideOctets + 1
        BY <1>5, <3>2, <3>3
      <4>2. w = <<x, y>> \o <<Len(c)>> \o c /\ SaysLength(u, Len(w)) /\ octets = u \o w
        BY <3>4, <3>7
      <4>3. n \in 0 .. Len(octets) /\ x \in Int /\ y \in Int
        OBVIOUS
      <4> QED
        BY <4>1, <4>2, <4>3, OpaqueIs, ZenonT(60)
    <3> QED
      BY <2>2, <3>8
  <2> QED
    BY <2>1, <2>2
<1> HIDE DEF found
<1> QED
  BY <1>5, <1>6, <1>9

-----------------------------------------------------------------------------
(* BerCodec: the round trip                                                *)

\* A packet is what one of the builders makes of the item, and what was parsed
\* is what the parser makes of it.
BerInvariant ==
    /\ ItemInit
    /\ octets # <<>> => ~Refused /\ octets \in Encodings
    /\ parsed # NotParsed => octets # <<>> /\ \E n \in 0 .. Len(octets) : parsed = ParsedFrom(n)

\* The parser reads nothing but the packet and its kind.
LEMMA Unchanged ==
    ASSUME item' = item, octets' = octets
    PROVE  /\ ItemInit => ItemInit'
           /\ Refused' = Refused /\ Encodings' = Encodings
           /\ \A n : ParsedFrom(n)' = ParsedFrom(n)
<1>1. ItemInit => ItemInit'
  BY DEF ItemInit
<1>2. Refused' = Refused
  BY DEF Refused
<1>3. Encodings' = Encodings
  BY DEF Encodings
<1>4. ASSUME NEW n PROVE ParsedFrom(n)' = ParsedFrom(n)
  <2>1. OpaqueContents(n)' = OpaqueContents(n)
    BY DEF OpaqueContents
  <2> QED
    BY <2>1 DEF ParsedFrom
<1> QED
  BY <1>1, <1>2, <1>3, <1>4

\* A packet is always what the builders make of the item, and what was parsed
\* is what the parser makes of the packet.
THEOREM BerInvariance == BerSpec => []BerInvariant
<1>1. BerInit => BerInvariant
  BY DEF BerInit, BerInvariant
<1>2. BerInvariant /\ [BerNext]_berVars => BerInvariant'
  <2> SUFFICES ASSUME BerInvariant, [BerNext]_berVars PROVE BerInvariant'
    OBVIOUS
  <2>1. CASE BuildItem
    <3>1. octets = <<>> /\ ~Refused /\ octets' \in Encodings /\ item' = item /\ parsed' = parsed
      BY <2>1 DEF BuildItem
    <3>2. ItemInit' /\ ~Refused' /\ Encodings' = Encodings
      BY <3>1 DEF BerInvariant, ItemInit, Refused, Encodings
    <3>3. parsed = NotParsed
      BY <3>1 DEF BerInvariant
    <3> QED
      BY <3>1, <3>2, <3>3 DEF BerInvariant, NotParsed
  <2>2. ASSUME NEW n \in 0 .. Len(octets), ParseItem(n) PROVE BerInvariant'
    <3>1. octets # <<>> /\ parsed' = ParsedFrom(n) /\ item' = item /\ octets' = octets
      BY <2>2 DEF ParseItem
    <3>2. ItemInit' /\ Refused' = Refused /\ Encodings' = Encodings /\ ParsedFrom(n)' = ParsedFrom(n)
      BY <3>1, Unchanged DEF BerInvariant
    <3>3. octets' # <<>> /\ ~Refused' /\ octets' \in Encodings'
      BY <3>1, <3>2 DEF BerInvariant
    <3>4. \E m \in 0 .. Len(octets') : parsed' = ParsedFrom(m)'
      BY <3>1, <3>2
    <3> QED
      BY <3>2, <3>3, <3>4 DEF BerInvariant
  <2>3. CASE UNCHANGED berVars
    <3>1. item' = item /\ octets' = octets /\ parsed' = parsed
      BY <2>3 DEF berVars
    <3>2. ItemInit' /\ Refused' = Refused /\ Encodings' = Encodings /\ \A n : ParsedFrom(n)' = ParsedFrom(n)
      BY <3>1, Unchanged DEF BerInvariant
    <3> QED
      BY <3>1, <3>2 DEF BerInvariant, NotParsed
  <2> QED
    BY <2>1, <2>2, <2>3 DEF BerNext
<1> QED
  BY <1>1, <1>2, PTL DEF BerSpec

\* asn1.c: whatever is built, forward or in reverse, is parsed as the same value,
\* and refused if any of it is missing; for octets and longs of any width.
THEOREM RoundTripAlways == BerSpec => []RoundTrip
<1>1. BerInvariant => RoundTrip
  <2> SUFFICES ASSUME BerInvariant, parsed # NotParsed, item.kind = "objid" => Distinct(item.value)
               PROVE  parsed.values = IF parsed.available = Len(octets) THEN {item.value} ELSE {}
    BY DEF RoundTrip
  <2>1. ItemInit /\ octets # <<>> /\ ~Refused /\ octets \in Encodings
    BY DEF BerInvariant
  <2>2. PICK n \in 0 .. Len(octets) : parsed = ParsedFrom(n)
    BY DEF BerInvariant
  <2>3. parsed.available = n
    BY <2>2 DEF ParsedFrom
  <2>4. ParsedFrom(n).values = IF n = Len(octets) THEN {item.value} ELSE {}
    BY <2>1, EncodingReads
  <2> QED
    BY <2>2, <2>3, <2>4
<1> QED
  BY <1>1, BerInvariance, PTL

-----------------------------------------------------------------------------
(* SnmpMessage: what stands where, and headers                             *)

\* The length in front of contents of n octets.
IsLength(u, n) == u \in Seq(Int) /\ (Fits(n) => SaysLength(u, n))

\* x is a type, a length and the contents c.
Frame(x, t, c) == /\ t \in Int /\ c \in Seq(Int)
                  /\ \E u \in Seq(Int) : IsLength(u, Len(c)) /\ x = <<t>> \o u \o c

\* Lists of numbers.
LEMMA OctetsInt ==
    ASSUME NEW n \in Int, NEW k \in Nat \ {0}
    PROVE  Octets(n, k) \in Seq(Int)
<1>1. Octets(n, k) \in Seq(0 .. Octet - 1) /\ Octet \in Nat
  BY FirstOctet, Widths
<1>2. 0 .. Octet - 1 \subseteq Int
  BY <1>1
<1> QED
  BY <1>1, <1>2, SeqMonotonic

\* A list of numbers with one in front.
LEMMA PrefixInt ==
    ASSUME NEW t \in Int, NEW u \in Seq(Int)
    PROVE  <<t>> \o u \in Seq(Int) /\ Len(<<t>> \o u) = Len(u) + 1
<1> DEFINE a == <<t>>
<1>1. a \in Seq(Int) /\ Len(a) = 1 /\ Len(u) \in Nat
  BY LenProperties
<1> HIDE DEF a
<1>2. a \o u \in Seq(Int) /\ Len(a \o u) = Len(a) + Len(u)
  BY <1>1, ConcatProperties
<1> QED
  BY <1>1, <1>2 DEF a

\* asn_build_length and asn_realloc_rbuild_length: as far as they can they say how long.
LEMMA LengthIs ==
    ASSUME NEW n \in Nat, NEW u \in {BuildLength(n), RBuildLength(n)}
    PROVE  IsLength(u, n)
<1>1. Octet \in Nat /\ High \in Nat /\ LongOctets \in Nat \ {0} /\ n \in Int
  BY Widths
<1>2. BuildLength(n) \in Seq(Int)
  <2>1. <<n>> \in Seq(Int) /\ <<High + 1, n>> \in Seq(Int)
    <3>1. High + 1 \in Int
      BY <1>1
    <3> QED
      BY <1>1, <3>1
  <2>2. <<High + 2>> \o Octets(n, 2) \in Seq(Int)
    <3>1. High + 2 \in Int /\ Octets(n, 2) \in Seq(Int)
      BY <1>1, OctetsInt
    <3> DEFINE h == High + 2
               o == Octets(n, 2)
    <3> HIDE DEF h, o
    <3>2. <<h>> \o o \in Seq(Int)
      BY <3>1, PrefixInt DEF h, o
    <3> QED
      BY <3>2 DEF h, o
  <2> QED
    BY <2>1, <2>2 DEF BuildLength
<1>3. RBuildLength(n) \in Seq(Int)
  <2> DEFINE I == {j \in 1 .. LongOctets : n < Power(Octet, j)} \cup {LongOctets}
             k == Least(I)
  <2>1. I \in SUBSET Nat /\ I # {} /\ \A j \in I : j \in 1 .. LongOctets
    BY <1>1
  <2>2. k \in 1 .. LongOctets
    <3> HIDE DEF I
    <3> QED
      BY <2>1, LeastIs
  <2>3. RBuildLength(n) = IF n < High THEN <<n>> ELSE <<High + k>> \o Octets(n, k)
    BY DEF RBuildLength
  <2> HIDE DEF k
  <2>4. High + k \in Int /\ Octets(n, k) \in Seq(Int)
    BY <1>1, <2>2, OctetsInt
  <2> DEFINE h == High + k
             o == Octets(n, k)
  <2> HIDE DEF h, o
  <2>5. <<h>> \o o \in Seq(Int)
    BY <2>4, PrefixInt DEF h, o
  <2>6. <<n>> \in Seq(Int)
    BY <1>1
  <2> QED
    BY <2>3, <2>5, <2>6 DEF h, o
<1> QED
  BY <1>2, <1>3, BuildLengthSays, RBuildLengthSays DEF IsLength, Fits

\* What is put together of parts stands where the parts stand.
LEMMA StandsParts ==
    ASSUME NEW a \in Seq(Int), NEW b \in Seq(Int), NEW s \in Seq(Int), NEW p \in Nat \ {0},
           StandsAt(a \o b, s, p)
    PROVE  /\ StandsAt(a, s, p) /\ StandsAt(b, s, p + Len(a))
           /\ Len(a) \in Nat /\ Len(b) \in Nat /\ Len(a \o b) = Len(a) + Len(b)
<1> DEFINE x == a \o b
           m == Len(a)
           n == Len(b)
           l == Len(s)
<1>1. m \in Nat /\ n \in Nat /\ l \in Nat
  BY LenProperties
<1>2. Len(x) = m + n /\ \A i \in 1 .. m + n : x[i] = IF i <= m THEN a[i] ELSE b[i - m]
  BY ConcatProperties
<1> HIDE DEF x
<1>3. p + (m + n) - 1 <= l /\ \A j \in 1 .. m + n : s[p + j - 1] = x[j]
  BY <1>2 DEF StandsAt, x
<1> HIDE DEF m, n, l
<1>4. \A j \in 1 .. m : s[p + j - 1] = a[j]
  <2> TAKE j \in 1 .. m
  <2>1. j \in 1 .. m + n /\ j <= m
    BY <1>1
  <2> QED
    BY <1>2, <1>3, <2>1
<1>5. \A j \in 1 .. n : s[(p + m) + j - 1] = b[j]
  <2> TAKE j \in 1 .. n
  <2>1. m + j \in 1 .. m + n /\ ~(m + j <= m) /\ (m + j) - m = j /\ (p + m) + j - 1 = p + (m + j) - 1
    BY <1>1
  <2> QED
    BY <1>2, <1>3, <2>1
<1>6. p + m - 1 <= l /\ (p + m) + n - 1 <= l
  BY <1>1, <1>3
<1> QED
  BY <1>1, <1>2, <1>4, <1>5, <1>6 DEF StandsAt, m, n, l, x

\* A list that stands in another one is not longer, and fits if that one does.
LEMMA StandsFits ==
    ASSUME NEW c \in Seq(Int), NEW s \in Seq(Int), NEW p \in Nat \ {0}, StandsAt(c, s, p), Fits(Len(s))
    PROVE  Fits(Len(c))
<1> DEFINE n == Len(c)
           l == Len(s)
           a == Octet * Octet
           b == Word \div 2
<1>1. n \in Nat /\ l \in Nat /\ a \in Int /\ b \in Int
  <2>1. a \in Int
    BY Widths
  <2>2. b \in Int
    BY LongHalf
  <2> QED
    BY <2>1, <2>2, LenProperties
<1>2. p + n - 1 <= l /\ l < a /\ l < b
  BY DEF StandsAt, Fits
<1> HIDE DEF n, l, a, b
<1>3. n < a /\ n < b
  BY <1>1, <1>2
<1> QED
  BY <1>3 DEF Fits, n, a, b

\* Where a frame stands, its type, its length and its contents stand.
LEMMA FrameStands ==
    ASSUME NEW t, NEW c, NEW x, Frame(x, t, c), NEW s \in Seq(Int), Fits(Len(s)),
           NEW at \in Nat \ {0}, StandsAt(x, s, at)
    PROVE  /\ x \in Seq(Int) /\ Len(x) \in Nat /\ Len(x) >= 2 /\ Len(c) \in Nat
           /\ \E u \in Seq(Int) : /\ SaysLength(u, Len(c)) /\ StandsAt(u, s, at + 1)
                                  /\ Len(u) \in Nat \ {0} /\ Len(x) = Len(u) + Len(c) + 1
                                  /\ StandsAt(c, s, at + 1 + Len(u))
           /\ s[at] = t /\ Fits(Len(c))
<1>1. PICK u \in Seq(Int) : IsLength(u, Len(c)) /\ x = <<t>> \o u \o c
  BY DEF Frame
<1>2. t \in Int /\ c \in Seq(Int) /\ Len(c) \in Nat /\ Len(u) \in Nat
  BY LenProperties DEF Frame
<1> DEFINE a == <<t>>
           b == a \o u
<1>3. a \in Seq(Int) /\ Len(a) = 1 /\ a[1] = t
  BY <1>2
<1> HIDE DEF a
<1>4. b \in Seq(Int) /\ x = b \o c
  BY <1>1, <1>3, ConcatProperties DEF a
<1> HIDE DEF b
<1>5. StandsAt(b, s, at) /\ StandsAt(c, s, at + Len(b)) /\ Len(x) = Len(b) + Len(c)
  BY <1>2, <1>4, StandsParts
<1>6. StandsAt(a, s, at) /\ StandsAt(u, s, at + Len(a)) /\ Len(b) = Len(a) + Len(u)
  BY <1>3, <1>5, StandsParts DEF b
<1>7. x \in Seq(Int)
  BY <1>2, <1>4, ConcatProperties
<1>8. s[at] = t
  <2>1. 1 \in 1 .. Len(a) /\ at + 1 - 1 = at
    BY <1>3
  <2> QED
    BY <1>3, <1>6, <2>1 DEF StandsAt
<1>9. at + Len(b) = at + 1 + Len(u) /\ at + Len(b) \in Nat \ {0} /\ at + 1 \in Nat \ {0}
  BY <1>2, <1>3, <1>6
<1>10. Fits(Len(c)) /\ SaysLength(u, Len(c))
  BY <1>1, <1>2, <1>5, <1>9, StandsFits DEF IsLength
<1>11. Len(u) \in Nat \ {0}
  <2>1. Len(c) < Word \div 2
    BY <1>10 DEF Fits
  <2> DEFINE n == Len(c)
             p == at + 1
  <2>2. n \in Nat /\ n < Word \div 2 /\ SaysLength(u, n) /\ p \in Nat \ {0} /\ StandsAt(u, s, p)
    BY <1>2, <1>3, <1>6, <1>9, <1>10, <2>1
  <2> HIDE DEF n, p
  <2> QED
    BY <2>2, ParseLengthIs
<1>12. Len(x) = Len(u) + Len(c) + 1 /\ Len(x) \in Nat /\ Len(x) >= 2
  BY <1>2, <1>3, <1>5, <1>6, <1>11
<1> QED
  BY <1>1, <1>2, <1>3, <1>5, <1>6, <1>7, <1>8, <1>9, <1>10, <1>11, <1>12

\* The contents c of the frame x, which stands at a place of s, begin at from
\* and are found if all of the frame was received.
Found(x, t, c, s, at, end, from) ==
    /\ from > at /\ from + Len(c) = at + Len(x) /\ StandsAt(c, s, from)
    /\ SubSeq(s, from, at + Len(x) - 1) = c
    /\ Header(s, at, end) = IF at + Len(x) - 1 > end THEN {}
                            ELSE {[type |-> t, from |-> from, to |-> at + Len(x) - 1]}

\* asn_parse_header: the header of a frame is found if all of the frame was
\* received, and nothing otherwise.
LEMMA HeaderIs ==
    ASSUME NEW t, NEW c, NEW x, Frame(x, t, c), NEW s \in Seq(Int), Fits(Len(s)),
           NEW at \in Nat \ {0}, StandsAt(x, s, at), NEW end \in Int
    PROVE  /\ x \in Seq(Int) /\ c \in Seq(Int) /\ Len(x) \in Nat /\ Len(x) >= 2 /\ Len(c) \in Nat
           /\ at + Len(x) \in Nat \ {0}
           /\ \E from \in Nat \ {0} : Found(x, t, c, s, at, end, from)
<1>1. /\ x \in Seq(Int) /\ Len(x) \in Nat /\ Len(x) >= 2 /\ Len(c) \in Nat
      /\ s[at] = t /\ Fits(Len(c)) /\ c \in Seq(Int)
  <2>1. c \in Seq(Int)
    BY DEF Frame
  <2> QED
    BY <2>1, FrameStands
<1>2. PICK u \in Seq(Int) : /\ SaysLength(u, Len(c)) /\ StandsAt(u, s, at + 1)
                            /\ Len(u) \in Nat \ {0} /\ Len(x) = Len(u) + Len(c) + 1
                            /\ StandsAt(c, s, at + 1 + Len(u))
  BY FrameStands
<1> DEFINE n == Len(c)
           k == Len(u)
           from == at + 1 + k
           l == ParseLength(s, at + 1)
           to == at + Len(x) - 1
<1>3. n \in Nat /\ k \in Nat \ {0} /\ from \in Nat \ {0} /\ from > at /\ from + n = at + Len(x)
      /\ to = from + n - 1 /\ at + 1 <= to /\ to \in Int
  BY <1>1, <1>2, SMTT(30)
<1>4. l = [used |-> k, length |-> n] /\ l # NoLength
  <2> DEFINE p == at + 1
  <2>1. n < Word \div 2 /\ p \in Nat \ {0} /\ SaysLength(u, n) /\ StandsAt(u, s, p)
    BY <1>1, <1>2 DEF Fits
  <2> HIDE DEF n, p, k
  <2>2. ParseLength(s, p) = [used |-> Len(u), length |-> n]
    BY <1>3, <2>1, ParseLengthIs
  <2>3. [used |-> k, length |-> n].used # NoLength.used
    BY <1>3 DEF NoLength
  <2> QED
    BY <2>2, <2>3 DEF p, k
<1>5. SubSeq(s, from, to) = c
  <2>1. StandsAt(c, s, from)
    BY <1>2
  <2> HIDE DEF from
  <2>2. SubSeq(s, from, from + Len(c) - 1) = c
    BY <1>1, <1>3, <2>1, PartIs
  <2> QED
    BY <1>3, <2>2
<1>6. Header(s, at, end) = IF to > end THEN {} ELSE {[type |-> t, from |-> from, to |-> to]}
  <2> HIDE DEF l
  <2>1. Header(s, at, end) = IF at + 1 > end THEN {}
                             ELSE IF l = NoLength \/ (at + 1 + l.used) + l.length - 1 > end THEN {}
                             ELSE {[type |-> s[at], from |-> at + 1 + l.used, to |-> (at + 1 + l.used) + l.length - 1]}
    BY DEF Header, l
  <2>2. l.used = k /\ l.length = n
    BY <1>4
  <2>3. Header(s, at, end) = IF at + 1 > end THEN {}
                             ELSE IF from + n - 1 > end THEN {}
                             ELSE {[type |-> t, from |-> from, to |-> from + n - 1]}
    BY <1>1, <1>4, <2>1, <2>2
  <2> HIDE DEF from, n, to
  <2> QED
    BY <1>3, <2>3
<1>7. StandsAt(c, s, from)
  BY <1>2
<1>8. at + Len(x) \in Nat \ {0}
  BY <1>1
<1> HIDE DEF from, to
<1>9. Found(x, t, c, s, at, end, from)
  BY <1>3, <1>5, <1>6, <1>7 DEF to, Found
<1> QED
  BY <1>1, <1>3, <1>8, <1>9

-----------------------------------------------------------------------------
(* SnmpMessage: objects                                                    *)

\* An object identifier that is told apart is not refused.
LEMMA ObjidBuilt ==
    ASSUME NEW oid \in Oid
    PROVE  BuildObjid(oid) # <<>>
<1> DEFINE M == Len(oid) - 1
           first == (oid[1] * 40 + oid[2]) % Word
           ss == [n \in 1 .. M |-> BuildSubid(IF n = 1 THEN first ELSE oid[n + 1])]
           f == FlattenSeq(ss)
<1>1. oid \in Seq(0 .. Word - 1) /\ Len(oid) \in 2 .. MaxSubids /\ oid[1] \in 0 .. 2 /\ Distinct(oid)
  BY DEF Oid
<1>2. Word \in Nat /\ 80 <= Word /\ MaxSubids \in Nat
  BY WordIs, BerAssumption
<1>3. M \in Nat \ {0} /\ Len(oid) = M + 1
  <2> DEFINE l == Len(oid)
  <2>1. l \in 2 .. MaxSubids
    BY <1>1
  <2> HIDE DEF l
  <2>2. l - 1 \in Nat \ {0} /\ l = (l - 1) + 1
    BY <1>2, <2>1
  <2> QED
    BY <2>2 DEF l
<1>4. \A i \in 1 .. M + 1 : oid[i] \in 0 .. Word - 1
  BY <1>1, <1>3, ElementOfSeq
<1>5. ~(oid[1] > 2 \/ (oid[2] > 40 /\ oid[1] < 2))
  <2>1. oid[2] \in Int /\ oid[1] \in Int
    BY <1>1, <1>3, <1>4
  <2> QED
    BY <1>1, <2>1 DEF Distinct
<1>6. BuildObjid(oid) = f
  BY <1>5 DEF BuildObjid
<1>7. first \in 0 .. Word - 1
  <2> DEFINE x == oid[1] * 40 + oid[2]
  <2>1. x \in Int /\ Word \in Nat \ {0}
    BY <1>1, <1>2, <1>3, <1>4
  <2> HIDE DEF x
  <2>2. x % Word \in 0 .. Word - 1
    BY <2>1, DivMod
  <2> QED
    BY <2>2 DEF x
<1> HIDE DEF M, first
<1>8. \A n \in 1 .. M : ss[n] \in Seq(Int) /\ Len(ss[n]) >= 1 /\ Len(ss[n]) \in Nat
  <2> TAKE n \in 1 .. M
  <2> DEFINE w == IF n = 1 THEN first ELSE oid[n + 1]
  <2>1. n + 1 \in 1 .. M + 1
    BY <1>3
  <2>2. w \in 0 .. Word - 1
    BY <1>4, <1>7, <2>1
  <2> HIDE DEF w
  <2>3. SaysSubid(BuildSubid(w), w)
    BY <2>2, BuildSubidSays
  <2>4. WideOctets \in Nat
    BY Widths
  <2>5. BuildSubid(w) \in Seq(Int) /\ Len(BuildSubid(w)) \in 1 .. WideOctets
    BY <2>3 DEF SaysSubid
  <2>6. ss[n] = BuildSubid(w)
    BY DEF w
  <2> HIDE DEF ss
  <2> QED
    BY <2>4, <2>5, <2>6
<1>9. ss \in [1 .. M -> Seq(Int)]
  BY <1>8
<1> HIDE DEF ss
<1>10. ss \in Seq(Seq(Int)) /\ Len(ss) = M
  BY <1>3, <1>9, FunctionIsSeq
<1>11. PICK e \in [0 .. Len(ss) -> Nat] : PartsOf(f, ss, e, Len(ss))
  BY <1>10, FlattenParts
<1>12. 1 \in 1 .. M /\ 1 \in 0 .. M /\ M \in 0 .. M /\ 1 <= M /\ 0 \in 0 .. M
  BY <1>3
<1>13. /\ e[0] = 0 /\ e[M] = Len(f) /\ e[1] = e[1 - 1] + Len(ss[1]) /\ e[1] <= e[M]
  <2> HIDE DEF f
  <2> QED
    BY <1>10, <1>11, <1>12 DEF PartsOf
<1>14. Len(f) # 0
  <2>1. e[1] \in Nat /\ e[M] \in Nat /\ Len(ss[1]) >= 1 /\ Len(ss[1]) \in Nat /\ e[1] = Len(ss[1])
    BY <1>8, <1>10, <1>12, <1>13
  <2> HIDE DEF f
  <2> QED
    BY <1>13, <2>1
<1> HIDE DEF f
<1> QED
  BY <1>6, <1>14

\* Behind tags and length, the value that an Opaque wraps.
Wraps(c, kind, b) == b \in Seq(Int) /\ c = Tags(kind) \o <<Len(b)>> \o b

\* What is said of the contents c that a value v of a kind has.
ContentsSay(c, kind, v) ==
    /\ c \in Seq(Int)
    /\ kind \notin Wide => Decoded(kind, c) = {v}
    /\ kind \in Wide => \E b : Wraps(c, kind, b) /\ Decoded(kind, b) = {v}
    /\ kind \in Strings => c \in Seq({0})
    /\ kind = "ipaddress" => Len(c) = 4

\* The contents that either builder makes of a value.
LEMMA ContentsRead ==
    ASSUME NEW kind \in VarKind \cup {"flags"}, NEW v \in ValuesOf(kind),
           NEW builder \in {"forward", "reverse"}
    PROVE  ContentsSay(ObjectContents(builder, kind, v), kind, v)
<1> DEFINE c == ObjectContents(builder, kind, v)
           raw == IF builder = "forward" THEN ContentsOf(Form(kind), v) ELSE RContentsOf(Form(kind), v)
           Goal == /\ c \in Seq(Int)
                   /\ kind \notin Wide => Decoded(kind, c) = {v}
                   /\ kind \in Wide => \E b : Wraps(c, kind, b) /\ Decoded(kind, b) = {v}
                   /\ kind \in Strings => c \in Seq({0})
                   /\ kind = "ipaddress" => Len(c) = 4
<1> SUFFICES Goal
  BY DEF ContentsSay
<1>1. raw \in {ContentsOf(Form(kind), v), RContentsOf(Form(kind), v)}
  OBVIOUS
<1>2. c = IF kind \in Empty THEN <<>> ELSE IF kind = "flags" THEN <<v>> ELSE Wrapped(Form(kind), raw)
  BY DEF ObjectContents
<1> HIDE DEF c, raw
<1>3. CASE kind \in Empty
  <2>1. c = <<>> /\ v = 0 /\ Decoded(kind, c) = {0}
    BY <1>2, <1>3 DEF ValuesOf, Empty, Unsigned, Decoded
  <2>2. kind \notin Wide /\ kind \notin Strings /\ kind # "ipaddress"
    BY <1>3 DEF Empty, Wide, Strings
  <2>3. c \in Seq(Int)
    BY <2>1
  <2> QED
    BY <2>1, <2>2, <2>3
<1>4. CASE kind = "flags"
  <2>1. c = <<v>> /\ v \in 0 .. 7
    BY <1>2, <1>4 DEF ValuesOf, Empty, Unsigned
  <2>2. Decoded(kind, c) = {v}
    BY <1>4, <2>1 DEF Decoded, Empty
  <2>3. kind \notin Wide /\ kind \notin Strings /\ kind # "ipaddress"
    BY <1>4 DEF Wide, Strings
  <2> QED
    BY <2>1, <2>2, <2>3
<1>5. CASE kind \in Strings
  <2>1. Form(kind) = "string" /\ kind \notin Wide /\ kind \notin Empty /\ kind # "flags"
    BY <1>5 DEF Form, Strings, Unsigned, Wide, Empty
  <2>2. v \in Nat /\ (kind = "ipaddress" => v = 4)
    <3>1. CASE kind = "ipaddress"
      <4>1. ValuesOf(kind) = {4}
        BY <3>1 DEF ValuesOf, Unsigned
      <4> QED
        BY <4>1
    <3>2. CASE kind \in {"string", "opaque", "nsap"}
      <4>1. ValuesOf(kind) = Nat
        BY <3>2 DEF ValuesOf, Unsigned
      <4> QED
        BY <3>2, <4>1
    <3> QED
      BY <1>5, <3>1, <3>2 DEF Strings
  <2>3. raw = [j \in 1 .. v |-> 0]
    BY <1>1, <2>1 DEF ContentsOf, RContentsOf
  <2>4. c = raw
    BY <1>2, <2>1 DEF Wrapped, Tags
  <2>5. c \in [1 .. v -> {0}]
    BY <2>3, <2>4
  <2>6. c \in Seq({0}) /\ Len(c) = v
    BY <2>2, <2>5, FunctionIsSeq
  <2>7. c \in Seq(Int)
    <3>1. {0} \subseteq Int
      OBVIOUS
    <3> QED
      BY <2>6, <3>1, SeqMonotonic
  <2>8. Values("string", c) = {v}
    BY <2>6 DEF Values
  <2>9. Decoded(kind, c) = {v}
    <3>1. CASE kind = "ipaddress"
      BY <2>2, <2>8, <3>1 DEF Decoded, Empty
    <3>2. CASE kind # "ipaddress"
      BY <2>1, <2>8, <3>2 DEF Decoded
    <3> QED
      BY <3>1, <3>2
  <2> QED
    BY <2>1, <2>2, <2>6, <2>7, <2>9
<1>6. CASE kind \in Unsigned
  <2>1. Form(kind) = "unsigned" /\ kind \notin Wide /\ kind \notin Empty /\ kind \notin Strings
        /\ kind # "flags" /\ kind # "ipaddress"
    BY <1>6 DEF Form, Strings, Unsigned, Wide, Empty
  <2>2. v \in 0 .. Word - 1
    BY <1>6 DEF ValuesOf, Unsigned
  <2>3. c = raw
    BY <1>2, <2>1 DEF Wrapped, Tags
  <2>4. ReadsAs(c, "unsigned", v)
    BY <1>1, <2>1, <2>2, <2>3, UnsignedReads
  <2>5. c \in Seq(Int) /\ Values("unsigned", c) = {v}
    BY <2>4 DEF ReadsAs
  <2> QED
    BY <2>1, <2>5 DEF Decoded
<1>7. CASE kind = "int"
  <2>1. Form(kind) = "int" /\ kind \notin Wide /\ kind \notin Empty /\ kind \notin Strings
    BY <1>7 DEF Form, Strings, Unsigned, Wide, Empty
  <2>2. v \in -(Word \div 2) .. Word \div 2 - 1
    <3>1. ValuesOf(kind) = Long
      BY <1>7 DEF ValuesOf, Unsigned
    <3> QED
      BY <3>1 DEF Long
  <2>3. c = raw
    BY <1>2, <1>7, <2>1 DEF Wrapped, Tags
  <2>4. ReadsAs(c, "int", v)
    BY <1>1, <2>1, <2>2, <2>3, IntReads
  <2>5. c \in Seq(Int) /\ Values("int", c) = {v}
    BY <2>4 DEF ReadsAs
  <2> QED
    BY <1>7, <2>1, <2>5 DEF Decoded
<1>8. CASE kind = "objid"
  <2>1. Form(kind) = "objid" /\ kind \notin Wide /\ kind \notin Empty /\ kind \notin Strings
    BY <1>8 DEF Form, Strings, Unsigned, Wide, Empty
  <2>2. v \in Oid
    BY <1>8 DEF ValuesOf, Unsigned
  <2>3. c = raw /\ raw = BuildObjid(v)
    BY <1>1, <1>2, <1>8, <2>1 DEF Wrapped, Tags, ContentsOf, RContentsOf
  <2>4. BuildObjid(v) # <<>> /\ v \in Seq(0 .. Word - 1) /\ Len(v) \in 2 .. MaxSubids /\ v[1] \in 0 .. 2 /\ Distinct(v)
    BY <2>2, ObjidBuilt DEF Oid
  <2>5. c \in Seq(Int) /\ ParseObjid(c) = {v}
    BY <2>3, <2>4, ObjidIs
  <2>6. Values("objid", c) = {v}
    BY <2>5 DEF Values
  <2> QED
    BY <1>8, <2>1, <2>5, <2>6 DEF Decoded
<1>9. CASE kind = "counter64"
  <2>1. Form(kind) = "counter64" /\ kind \notin Wide /\ kind \notin Empty /\ kind \notin Strings
    BY <1>9 DEF Form, Strings, Unsigned, Wide, Empty
  <2>2. v \in 0 .. Power(Octet, WideOctets) - 1
    BY <1>9 DEF ValuesOf, Unsigned
  <2>3. c = raw
    BY <1>2, <1>9, <2>1 DEF Wrapped, Tags
  <2>4. ReadsAs(c, "counter64", v)
    BY <1>1, <2>1, <2>2, <2>3, WideReads
  <2>5. c \in Seq(Int) /\ Values("counter64", c) = {v}
    BY <2>4 DEF ReadsAs
  <2> QED
    BY <1>9, <2>1, <2>5 DEF Decoded
<1>10. CASE kind \in Wide
  <2>1. Form(kind) = kind /\ kind \notin Empty /\ kind \notin Strings /\ kind # "flags" /\ kind # "ipaddress"
        /\ Tags(kind) # <<>> /\ kind \notin Unsigned /\ kind # "objid"
    BY <1>10 DEF Form, Strings, Unsigned, Wide, Empty, Tags
  <2>2. ReadsAs(raw, kind, v)
    <3>1. CASE kind = "opaque u64"
      <4>1. v \in 0 .. Power(Octet, WideOctets) - 1
        BY <3>1 DEF ValuesOf, Unsigned
      <4> QED
        BY <1>1, <2>1, <3>1, <4>1, WideReads
    <3>2. CASE kind = "opaque i64"
      <4>1. v \in -Half(WideOctets) .. Half(WideOctets) - 1
        BY <3>2 DEF ValuesOf, Unsigned, Half
      <4> QED
        BY <1>1, <2>1, <3>2, <4>1, SignedReads
    <3> QED
      BY <1>10, <3>1, <3>2 DEF Wide
  <2>3. raw \in Seq(Int) /\ Values(kind, raw) = {v}
    BY <2>1, <2>2 DEF ReadsAs
  <2>4. c = Tags(kind) \o <<Len(raw)>> \o raw
    BY <1>2, <2>1 DEF Wrapped
  <2>5. Wraps(c, kind, raw)
    BY <2>3, <2>4 DEF Wraps
  <2>6. Decoded(kind, raw) = {v}
    BY <2>1, <2>3 DEF Decoded
  <2>7. c \in Seq(Int)
    <3>1. PICK x \in Int, y \in Int : Tags(kind) = <<x, y>>
      <4>1. High + 1 \in Int /\ High + 2 \in Int /\ High + 3 \in Int
        BY Widths
      <4> DEFINE a == High + 1
                 b == High + 2
                 d == High + 3
      <4>2. Tags(kind) = <<a, b>> \/ Tags(kind) = <<a, d>>
        BY <1>10 DEF Tags, Wide
      <4> HIDE DEF a, b, d
      <4> QED
        BY <4>1, <4>2 DEF a, b, d
    <3> DEFINE t == <<x, y>>
               l == <<Len(raw)>>
    <3>2. t \in Seq(Int) /\ l \in Seq(Int)
      BY <2>3, LenProperties
    <3> HIDE DEF t, l
    <3>3. (t \o l) \o raw \in Seq(Int)
      BY <2>3, <3>2, ConcatProperties
    <3> QED
      BY <2>4, <3>1, <3>3 DEF t, l
  <2> QED
    BY <1>10, <2>1, <2>5, <2>6, <2>7
<1>11. Goal
  <2>1. \/ kind \in Empty \/ kind = "flags" \/ kind \in Strings \/ kind \in Unsigned \/ kind = "int"
        \/ kind = "objid" \/ kind = "counter64" \/ kind \in Wide
    BY DEF VarKind
  <2> HIDE DEF Goal
  <2> QED
    BY <1>3, <1>4, <1>5, <1>6, <1>7, <1>8, <1>9, <1>10, <2>1
<1> QED
  BY <1>11

\* snmp_build_var_op and snmp_realloc_rbuild_var_op: an object is a frame.
LEMMA ObjectFrame ==
    ASSUME NEW kind \in VarKind \cup {"flags"}, NEW v \in ValuesOf(kind),
           NEW builder \in {"forward", "reverse"}
    PROVE  Frame(Object(builder, kind, v), TypeOf(kind), ObjectContents(builder, kind, v))
<1> DEFINE c == ObjectContents(builder, kind, v)
           n == Len(c)
           u == IF builder = "forward" THEN BuildLength(n) ELSE RBuildLength(n)
<1>1. c \in Seq(Int)
  BY ContentsRead DEF ContentsSay
<1>2. Object(builder, kind, v) = <<TypeOf(kind)>> \o u \o c
  BY DEF Object
<1>3. TypeOf(kind) \in Int
  BY DEF TypeOf
<1> HIDE DEF c
<1>4. n \in Nat
  BY <1>1, LenProperties
<1> HIDE DEF n
<1>5. u \in {BuildLength(n), RBuildLength(n)}
  OBVIOUS
<1> HIDE DEF u
<1>6. IsLength(u, n)
  BY <1>4, <1>5, LengthIs
<1>7. u \in Seq(Int)
  BY <1>6 DEF IsLength
<1> QED
  BY <1>1, <1>2, <1>3, <1>6, <1>7 DEF Frame, c, n

\* asn_build_sequence and asn_realloc_rbuild_sequence: so is a structure.
LEMMA StructureFrame ==
    ASSUME NEW t \in Int, NEW c \in Seq(Int), NEW builder \in {"forward", "reverse"}
    PROVE  Frame(Structure(builder, t, c), t, c)
<1> DEFINE n == Len(c)
           o == Octets(n, 2)
           h == High + 2
           u == IF builder = "forward" THEN <<h>> \o o ELSE RBuildLength(n)
<1>1. Structure(builder, t, c) = <<t>> \o u \o c
  BY DEF Structure
<1>2. n \in Nat /\ n \in Int /\ Octet \in Nat \ {0} /\ h \in Int /\ LongOctets \in Nat
  BY LenProperties, Widths
<1> HIDE DEF n
<1>3. o \in Seq(Int)
  BY <1>2, OctetsInt
<1>4. IsLength(<<h>> \o o, n)
  <2>1. 2 \in 1 .. LongOctets
    BY <1>2, MessageAssumption
  <2>2. Power(Octet, 2) = Octet * Octet
    <3>1. Octet - 1 \in Nat /\ Octet \in Int
      BY <1>2
    <3>2. Power(Octet, 1) = Octet
      <4>1. 0 \in 0 .. Octet - 1
        BY <1>2
      <4> QED
        BY <4>1, OneOctet
    <3>3. Power(Octet, 1 + 1) = Power(Octet, 1) * Octet
      BY <1>2, PowerNext
    <3> QED
      BY <3>2, <3>3
  <2>3. Fits(n) => n < Power(Octet, 2)
    BY <2>2 DEF Fits
  <2>4. Fits(n) => SaysLength(<<h>> \o o, n)
    BY <2>1, <2>3 DEF SaysLength
  <2> HIDE DEF h, o
  <2>5. <<h>> \o o \in Seq(Int)
    BY <1>2, <1>3, PrefixInt
  <2> QED
    BY <2>4, <2>5 DEF IsLength
<1>5. IsLength(RBuildLength(n), n)
  BY <1>2, LengthIs
<1>6. IsLength(u, n)
  BY <1>4, <1>5
<1> HIDE DEF u
<1>7. u \in Seq(Int)
  BY <1>6 DEF IsLength
<1> QED
  BY <1>1, <1>6, <1>7 DEF Frame, n

\* The kinds that are parsed by their type alone.
Plain == (VarKind \cup {"flags"}) \ Wide

\* A parser accepts the type its own kind is sent with.
LEMMA PlainAccepted ==
    ASSUME NEW kind \in Plain
    PROVE  TypeOf(kind) \in Accepted(kind)
  BY DEF Accepted

\* asn_parse_int and the other parsers: an object is parsed as its value.
LEMMA ObjectRead ==
    ASSUME NEW kind \in Plain, NEW v \in ValuesOf(kind), NEW builder \in {"forward", "reverse"},
           NEW s \in Seq(Int), Fits(Len(s)), NEW before, before.at \in Nat \ {0},
           StandsAt(Object(builder, kind, v), s, before.at), NEW end \in Int,
           before.at + Len(Object(builder, kind, v)) - 1 <= end
    PROVE  ParseObject(kind, s, end, before) =
               {[at |-> before.at + Len(Object(builder, kind, v)), got |-> Append(before.got, v)]}
<1> DEFINE x == Object(builder, kind, v)
           c == ObjectContents(builder, kind, v)
           t == TypeOf(kind)
           at == before.at
           Results(h) == {[at |-> h.to + 1, got |-> Append(before.got, w)] :
                             w \in Decoded(kind, SubSeq(s, h.from, h.to))}
           H == {h \in Header(s, at, end) : h.type \in Accepted(kind)}
<1>1. kind \in VarKind \cup {"flags"} /\ kind \notin Wide
  BY DEF Plain
<1>2. Frame(x, t, c) /\ Decoded(kind, c) = {v}
  BY <1>1, ObjectFrame, ContentsRead DEF ContentsSay
<1>3. t \in Accepted(kind)
  BY PlainAccepted
<1>4. ParseObject(kind, s, end, before) = UNION {Results(h) : h \in H}
  BY DEF ParseObject, Then
<1> HIDE DEF x, c, t, at
<1>5. StandsAt(x, s, at) /\ at \in Nat \ {0} /\ at + Len(x) - 1 <= end
  BY DEF x, at
<1>6. PICK from \in Nat \ {0} : Found(x, t, c, s, at, end, from)
  BY <1>2, <1>5, HeaderIs
<1>7. at + Len(x) \in Nat /\ Len(x) \in Nat
  BY <1>2, <1>5, HeaderIs
<1> DEFINE h == [type |-> t, from |-> from, to |-> at + Len(x) - 1]
<1>8. Header(s, at, end) = {h}
  <2>1. ~(at + Len(x) - 1 > end)
    BY <1>5, <1>7
  <2> QED
    BY <1>6, <2>1 DEF Found
<1>9. H = {h}
  <2>1. h.type = t
    OBVIOUS
  <2> HIDE DEF h
  <2> QED
    BY <1>3, <1>8, <2>1
<1>10. Results(h) = {[at |-> at + Len(x), got |-> Append(before.got, v)]}
  <2>1. h.to + 1 = at + Len(x)
    <3>1. h.to = at + Len(x) - 1
      OBVIOUS
    <3> HIDE DEF h
    <3> QED
      BY <1>5, <1>7, <3>1
  <2>2. SubSeq(s, h.from, h.to) = c
    BY <1>6 DEF Found
  <2> HIDE DEF h
  <2> QED
    BY <1>2, <2>1, <2>2
<1> HIDE DEF h, Results, H
<1>11. UNION {Results(g) : g \in H} = Results(h)
  BY <1>9
<1> QED
  BY <1>4, <1>10, <1>11 DEF x, at

\* A frame of another type is not what the parser of a kind accepts.
LEMMA ObjectRefused ==
    ASSUME NEW kind, NEW t, t \notin Accepted(kind), NEW c, NEW x, Frame(x, t, c),
           NEW s \in Seq(Int), Fits(Len(s)), NEW before, before.at \in Nat \ {0},
           StandsAt(x, s, before.at), NEW end \in Int
    PROVE  ParseObject(kind, s, end, before) = {}
<1> DEFINE at == before.at
           Results(h) == {[at |-> h.to + 1, got |-> Append(before.got, w)] :
                             w \in Decoded(kind, SubSeq(s, h.from, h.to))}
           H == {h \in Header(s, at, end) : h.type \in Accepted(kind)}
<1>1. ParseObject(kind, s, end, before) = UNION {Results(h) : h \in H}
  BY DEF ParseObject, Then
<1>2. StandsAt(x, s, at) /\ at \in Nat \ {0}
  OBVIOUS
<1> HIDE DEF at, Results
<1>3. PICK from \in Nat \ {0} : Found(x, t, c, s, at, end, from)
  BY <1>2, HeaderIs
<1>4. \A h \in Header(s, at, end) : h.type = t
  BY <1>3 DEF Found
<1>5. H = {}
  BY <1>4
<1> QED
  BY <1>1, <1>5

\* The objects of a list are parsed one after the other.
ObjectSteps(g, kinds, s, at, end) ==
    /\ g = [j \in 0 .. Len(kinds) |-> g[j]] /\ g[0] = {[at |-> at, got |-> <<>>]}
    /\ \A j \in 1 .. Len(kinds) : g[j] = UNION {ParseObject(kinds[j], s, end, b) : b \in g[j - 1]}

\* The parser of a list of objects takes one step for each of them.
LEMMA ObjectsFold ==
    ASSUME NEW kinds, Len(kinds) \in Nat, NEW s, NEW at, NEW end,
           NEW g, ObjectSteps(g, kinds, s, at, end)
    PROVE  ParseObjects(kinds, s, at, end) = g[Len(kinds)]
<1> DEFINE N == Len(kinds)
           none == {[at |-> at, got |-> <<>>]}
           Next(j, S) == UNION {ParseObject(kinds[j], s, end, b) : b \in S}
           first[j \in 0 .. Len(kinds)] ==
               IF j = 0 THEN {[at |-> at, got |-> <<>>]}
               ELSE Then(first[j - 1], LAMBDA b : ParseObject(kinds[j], s, end, b))
           Eqn(f) == [j \in 0 .. N |-> IF j = 0 THEN none ELSE Next(j, f[j - 1])]
<1>1. ParseObjects(kinds, s, at, end) = first[N]
  BY DEF ParseObjects
<1>2. g = Eqn(g)
  <2>1. \A j \in 0 .. N : g[j] = IF j = 0 THEN none ELSE Next(j, g[j - 1])
    <3> HIDE DEF Next, none
    <3>1. \A j \in 1 .. N : g[j] = Next(j, g[j - 1])
      BY DEF Next, ObjectSteps
    <3>2. g[0] = none /\ N \in Nat
      BY DEF none, ObjectSteps
    <3> HIDE DEF N
    <3> TAKE j \in 0 .. N
    <3>3. CASE j = 0
      BY <3>2, <3>3
    <3>4. CASE j # 0
      <4>1. j \in 1 .. N
        BY <3>2, <3>4
      <4> QED
        BY <3>1, <3>4, <4>1
    <3> QED
      BY <3>3, <3>4
  <2>2. g = [j \in 0 .. N |-> g[j]]
    BY DEF ObjectSteps
  <2> HIDE DEF Next, none, N
  <2> QED
    BY <2>1, <2>2
<1>3. first = CHOOSE f : f = Eqn(f)
  BY DEF Then
<1> HIDE DEF first
<1>4. first = Eqn(first)
  <2> HIDE DEF Eqn
  <2> QED
    BY <1>2, <1>3
<1>5. N \in Nat
  OBVIOUS
<1> HIDE DEF N, none, Next
<1> DEFINE T == {n \in Nat : n <= N => first[n] = g[n]}
<1>6. 0 \in T
  <2>1. 0 \in 0 .. N
    BY <1>5
  <2>2. first[0] = none /\ g[0] = none
    BY <1>2, <1>4, <2>1
  <2> QED
    BY <2>2
<1>7. ASSUME NEW n \in Nat, n \in T PROVE n + 1 \in T
  <2> SUFFICES ASSUME n + 1 <= N PROVE first[n + 1] = g[n + 1]
    OBVIOUS
  <2>1. n + 1 \in 0 .. N /\ n + 1 # 0 /\ (n + 1) - 1 = n /\ n <= N
    BY <1>5
  <2>2. first[n] = g[n]
    BY <1>7, <2>1
  <2>3. first[n + 1] = Next(n + 1, first[n])
    BY <1>4, <2>1
  <2>4. g[n + 1] = Next(n + 1, g[n])
    BY <1>2, <2>1
  <2> QED
    BY <2>2, <2>3, <2>4
<1> HIDE DEF T
<1>8. N \in T
  BY <1>5, <1>6, <1>7, SetInduction
<1> QED
  BY <1>1, <1>5, <1>8 DEF T, N

\* The lists ss stand in s one behind the other from p on, the i-th up to e[i].
Laid(ss, s, p, e) ==
    /\ e[0] = 0 /\ e[Len(ss)] = Len(FlattenSeq(ss))
    /\ \A i \in 1 .. Len(ss) : /\ e[i] = e[i - 1] + Len(ss[i]) /\ e[i] <= e[Len(ss)]
                               /\ StandsAt(ss[i], s, p + e[i - 1])

\* If parts that are put together stand somewhere, each stands where the one
\* before it ends.
LEMMA PartsStand ==
    ASSUME NEW ss \in Seq(Seq(Int)), NEW s \in Seq(Int), NEW p \in Nat \ {0},
           StandsAt(FlattenSeq(ss), s, p)
    PROVE  \E e \in [0 .. Len(ss) -> Nat] : Laid(ss, s, p, e)
<1> DEFINE f == FlattenSeq(ss)
           N == Len(ss)
<1>1. f \in Seq(Int)
  BY FlattenParts
<1>2. PICK e \in [0 .. N -> Nat] : PartsOf(f, ss, e, N)
  BY FlattenParts
<1>3. N \in Nat /\ Len(f) \in Nat /\ \A i \in 1 .. N : ss[i] \in Seq(Int)
  BY <1>1, LenProperties
<1>4. StandsAt(f, s, p)
  OBVIOUS
<1> HIDE DEF f, N
<1>5. /\ e[0] = 0 /\ e[N] = Len(f)
      /\ \A i \in 1 .. N : /\ e[i] = e[i - 1] + Len(ss[i])
                           /\ \A j \in 1 .. Len(ss[i]) : f[e[i - 1] + j] = ss[i][j]
      /\ \A i, k \in 0 .. N : i <= k => e[i] <= e[k]
  BY <1>2 DEF PartsOf
<1>6. ASSUME NEW i \in 1 .. N
      PROVE  e[i] = e[i - 1] + Len(ss[i]) /\ e[i] <= e[N] /\ StandsAt(ss[i], s, p + e[i - 1])
  <2> DEFINE a == e[i - 1]
             l == Len(ss[i])
             q == Len(s)
  <2>1. i \in 0 .. N /\ i - 1 \in 0 .. N /\ N \in 0 .. N /\ i <= N
    BY <1>3
  <2>2. a \in Nat /\ e[i] \in Nat /\ l \in Nat /\ q \in Nat
    BY <1>3, <2>1, LenProperties
  <2>3. e[i] = a + l /\ e[i] <= e[N]
    BY <1>5, <2>1
  <2>4. p + Len(f) - 1 <= q /\ \A j \in 1 .. Len(f) : s[p + j - 1] = f[j]
    BY <1>4 DEF StandsAt
  <2>5. \A j \in 1 .. l : f[a + j] = ss[i][j]
    BY <1>5
  <2> HIDE DEF a, l, q
  <2>6. a + l <= Len(f)
    BY <1>5, <2>3
  <2>7. p + a + l - 1 <= q
    BY <1>3, <2>2, <2>4, <2>6
  <2>8. \A j \in 1 .. l : s[(p + a) + j - 1] = ss[i][j]
    <3> TAKE j \in 1 .. l
    <3>1. a + j \in 1 .. Len(f) /\ (p + a) + j - 1 = p + (a + j) - 1
      BY <1>3, <2>2, <2>6
    <3> QED
      BY <2>4, <2>5, <3>1
  <2> QED
    BY <2>3, <2>7, <2>8 DEF StandsAt, a, l, q
<1> QED
  BY <1>5, <1>6 DEF Laid, f, N

\* The first values of a list.
FirstOf(values, j) == [i \in 1 .. j |-> values[i]]

\* The first values, and one more.
LEMMA FirstMore ==
    ASSUME NEW values, NEW j \in Nat \ {0}
    PROVE  Append(FirstOf(values, j - 1), values[j]) = FirstOf(values, j)
<1> DEFINE V == {values[i] : i \in 1 .. j}
           a == FirstOf(values, j - 1)
           b == FirstOf(values, j)
           w == Append(a, values[j])
<1>1. j - 1 \in Nat /\ j \in 1 .. j /\ \A i \in 1 .. j - 1 : i \in 1 .. j
  OBVIOUS
<1>2. /\ \A i \in 1 .. j : b[i] = values[i]
      /\ \A i \in 1 .. j - 1 : a[i] = values[i]
      /\ values[j] \in V /\ a \in [1 .. j - 1 -> V] /\ b \in [1 .. j -> V]
  BY <1>1 DEF FirstOf
<1> HIDE DEF a, b, V
<1>3. a \in Seq(V) /\ Len(a) = j - 1 /\ b \in Seq(V) /\ Len(b) = j
  BY <1>1, <1>2, FunctionIsSeq
<1>4. /\ w \in Seq(V) /\ Len(w) = (j - 1) + 1
      /\ \A i \in 1 .. j - 1 : w[i] = a[i]
      /\ w[(j - 1) + 1] = values[j]
  BY <1>2, <1>3, AppendProperties
<1> HIDE DEF w
<1>5. \A i \in 1 .. j : w[i] = b[i]
  <2> TAKE i \in 1 .. j
  <2>1. i \in 1 .. j - 1 \/ i = j
    OBVIOUS
  <2>2. (j - 1) + 1 = j
    OBVIOUS
  <2> QED
    BY <1>2, <1>4, <2>1, <2>2
<1>6. Len(w) = j
  BY <1>4
<1>7. w = b
  BY <1>3, <1>4, <1>5, <1>6, SeqEqual
<1> QED
  BY <1>7 DEF w, a, b

\* The objects of a list, as they are built.
ObjectList(builder, kinds, values) ==
    [j \in 1 .. Len(kinds) |-> Object(builder, kinds[j], values[j])]

\* Objects that are put together are a list of lists of numbers.
LEMMA ObjectsAre ==
    ASSUME NEW kinds \in Seq(VarKind \cup {"flags"}), NEW values,
           \A j \in 1 .. Len(kinds) : values[j] \in ValuesOf(kinds[j]),
           NEW builder \in {"forward", "reverse"}
    PROVE  /\ ObjectList(builder, kinds, values) \in Seq(Seq(Int))
           /\ Len(ObjectList(builder, kinds, values)) = Len(kinds)
           /\ Objects(builder, kinds, values) = FlattenSeq(ObjectList(builder, kinds, values))
           /\ Objects(builder, kinds, values) \in Seq(Int)
<1> DEFINE N == Len(kinds)
           ss == [j \in 1 .. N |-> Object(builder, kinds[j], values[j])]
<1>6. N \in Nat /\ DOMAIN kinds = 1 .. N /\ \A j \in 1 .. N : kinds[j] \in VarKind \cup {"flags"}
  BY LenProperties, ElementOfSeq
<1>1. Objects(builder, kinds, values) = FlattenSeq(ss)
  BY <1>6 DEF Objects
<1>7. \A j \in 1 .. N : values[j] \in ValuesOf(kinds[j])
  OBVIOUS
<1>8. ss = ObjectList(builder, kinds, values)
  BY DEF ObjectList
<1> HIDE DEF N
<1>2. \A j \in 1 .. N : ss[j] \in Seq(Int)
  <2> TAKE j \in 1 .. N
  <2> DEFINE kind == kinds[j]
             v == values[j]
             x == Object(builder, kind, v)
             c == ObjectContents(builder, kind, v)
             t == TypeOf(kind)
  <2>1. kind \in VarKind \cup {"flags"} /\ v \in ValuesOf(kind)
    BY <1>6, <1>7
  <2>2. ss[j] = x
    OBVIOUS
  <2> HIDE DEF kind, v, ss
  <2>3. Frame(x, t, c)
    BY <2>1, ObjectFrame
  <2> HIDE DEF x, c, t
  <2>4. PICK u \in Seq(Int) : x = <<t>> \o u \o c
    BY <2>3 DEF Frame
  <2>5. t \in Int /\ c \in Seq(Int)
    BY <2>3 DEF Frame
  <2> DEFINE a == <<t>>
  <2>6. a \in Seq(Int)
    BY <2>5
  <2> HIDE DEF a
  <2>7. (a \o u) \o c \in Seq(Int)
    BY <2>5, <2>6, ConcatProperties
  <2> QED
    BY <2>2, <2>4, <2>7 DEF a
<1>3. ss \in [1 .. N -> Seq(Int)]
  BY <1>2
<1> HIDE DEF ss
<1>4. ss \in Seq(Seq(Int)) /\ Len(ss) = N
  BY <1>3, <1>6, FunctionIsSeq
<1>5. FlattenSeq(ss) \in Seq(Int)
  BY <1>4, FlattenParts
<1> QED
  BY <1>1, <1>4, <1>5, <1>8 DEF N

\* The objects in x are parsed as the values.
ReadAs(kinds, values, s, at, end, x) ==
    ParseObjects(kinds, s, at, end) = {[at |-> at + Len(x), got |-> values]}

\* The objects of a list are parsed as its values.
LEMMA ObjectsRead ==
    ASSUME NEW kinds \in Seq(Plain), NEW values, AreValues(kinds, values),
           NEW builder \in {"forward", "reverse"}, NEW s \in Seq(Int), Fits(Len(s)),
           NEW at \in Nat \ {0}, StandsAt(Objects(builder, kinds, values), s, at), NEW end \in Int,
           at + Len(Objects(builder, kinds, values)) - 1 <= end
    PROVE  ReadAs(kinds, values, s, at, end, Objects(builder, kinds, values))
<1> DEFINE N == Len(kinds)
           x == Objects(builder, kinds, values)
           ss == ObjectList(builder, kinds, values)
<1>1. N \in Nat /\ DOMAIN kinds = 1 .. N /\ \A j \in 1 .. N : kinds[j] \in Plain
  BY LenProperties, ElementOfSeq
<1>2. values = [j \in 1 .. N |-> values[j]] /\ \A j \in 1 .. N : values[j] \in ValuesOf(kinds[j])
  BY DEF AreValues, IsList
<1>3. ss \in Seq(Seq(Int)) /\ Len(ss) = N /\ x = FlattenSeq(ss) /\ x \in Seq(Int)
  <2>1. kinds \in Seq(VarKind \cup {"flags"})
    <3>1. Plain \subseteq VarKind \cup {"flags"}
      BY DEF Plain
    <3> QED
      BY <3>1, SeqMonotonic
  <2> QED
    BY <1>2, <2>1, ObjectsAre
<1>4. \A j \in 1 .. N : ss[j] = Object(builder, kinds[j], values[j])
  BY DEF ObjectList
<1>5. StandsAt(x, s, at) /\ at + Len(x) - 1 <= end
  OBVIOUS
<1> HIDE DEF ss, x, N
<1>6. PICK e \in [0 .. Len(ss) -> Nat] : Laid(ss, s, at, e)
  BY <1>3, <1>5, PartsStand
<1>7. /\ e[0] = 0 /\ e[N] = Len(x)
      /\ \A j \in 1 .. N : /\ e[j] = e[j - 1] + Len(ss[j]) /\ e[j] <= e[N]
                           /\ StandsAt(ss[j], s, at + e[j - 1])
  BY <1>3, <1>6 DEF Laid
<1>8. Len(x) \in Nat /\ \A j \in 0 .. N : e[j] \in Nat
  BY <1>3, <1>6, LenProperties
<1> DEFINE Upto(j) == [at |-> at + e[j], got |-> FirstOf(values, j)]
           g == [j \in 0 .. N |-> {Upto(j)}]
<1>9. ASSUME NEW j \in 1 .. N
      PROVE  ParseObject(kinds[j], s, end, Upto(j - 1)) = {Upto(j)}
  <2> DEFINE before == Upto(j - 1)
             kind == kinds[j]
             v == values[j]
             o == Object(builder, kind, v)
             a == at + e[j - 1]
  <2>1. j \in Nat \ {0} /\ j - 1 \in 0 .. N /\ j \in 0 .. N
    BY <1>1
  <2>2. before.at = a /\ before.got = FirstOf(values, j - 1)
    OBVIOUS
  <2>3. ss[j] = o
    BY <1>4
  <2>4. Append(before.got, v) = FirstOf(values, j)
    BY <2>1, <2>2, FirstMore
  <2>5. kind \in Plain /\ v \in ValuesOf(kind)
    BY <1>1, <1>2
  <2>6. e[j - 1] \in Nat /\ e[j] \in Nat /\ e[N] \in Nat
    BY <1>1, <1>8, <2>1, SMTT(30)
  <2>7. StandsAt(o, s, a) /\ e[j] = e[j - 1] + Len(o) /\ e[j] <= e[N]
    BY <1>7, <2>3
  <2>8. Len(o) \in Nat
    <3>1. ss[j] \in Seq(Int)
      BY <1>3, ElementOfSeq
    <3> QED
      BY <2>3, <3>1, LenProperties
  <2>9. a \in Nat \ {0} /\ a + Len(o) = at + e[j] /\ a + Len(o) - 1 <= end
    <3> DEFINE l == Len(o)
               m == Len(x)
               d == e[j - 1]
               f == e[j]
    <3>1. /\ l \in Nat /\ m \in Nat /\ d \in Nat /\ f \in Nat /\ f = d + l /\ f <= m
          /\ at + m - 1 <= end /\ a = at + d
      BY <1>5, <1>7, <1>8, <2>6, <2>7, <2>8
    <3> HIDE DEF l, m, d, f, a
    <3>2. a \in Nat \ {0} /\ a + l = at + f /\ a + l - 1 <= end
      BY <3>1
    <3> QED
      BY <3>2 DEF l, f
  <2> HIDE DEF before, kind, v, a
  <2>10. ParseObject(kind, s, end, before) =
             {[at |-> before.at + Len(Object(builder, kind, v)), got |-> Append(before.got, v)]}
    <3>1. /\ before.at \in Nat \ {0} /\ StandsAt(Object(builder, kind, v), s, before.at)
          /\ before.at + Len(Object(builder, kind, v)) - 1 <= end
      BY <2>2, <2>7, <2>9
    <3> HIDE DEF Upto, g, o
    <3> QED
      BY <2>5, <3>1, ObjectRead, SMTT(40)
  <2> QED
    BY <2>2, <2>4, <2>9, <2>10 DEF before, kind
<1>10. g = [j \in 0 .. N |-> g[j]] /\ g[0] = {[at |-> at, got |-> <<>>]}
  <2>1. 0 \in 0 .. N /\ at + e[0] = at
    BY <1>1, <1>7
  <2>2. FirstOf(values, 0) = <<>>
    BY DEF FirstOf
  <2> QED
    BY <2>1, <2>2
<1>11. \A j \in 1 .. N : g[j] = UNION {ParseObject(kinds[j], s, end, b) : b \in g[j - 1]}
  <2> TAKE j \in 1 .. N
  <2>1. j - 1 \in 0 .. N /\ j \in 0 .. N
    BY <1>1
  <2>2. g[j] = {Upto(j)} /\ g[j - 1] = {Upto(j - 1)}
    BY <2>1
  <2> HIDE DEF g, Upto
  <2> QED
    BY <1>9, <2>2, ZenonT(40)
<1>12. g[N] = {[at |-> at + Len(x), got |-> values]}
  <2>1. N \in 0 .. N
    BY <1>1
  <2>2. FirstOf(values, N) = values
    BY <1>2 DEF FirstOf
  <2> QED
    BY <1>7, <2>1, <2>2
<1> HIDE DEF g
<1>13. ParseObjects(kinds, s, at, end) = g[N]
  <2>1. ObjectSteps(g, kinds, s, at, end)
    BY <1>10, <1>11 DEF ObjectSteps, N
  <2> QED
    BY <1>1, <2>1, ObjectsFold DEF N
<1> QED
  BY <1>12, <1>13 DEF x, ReadAs

-----------------------------------------------------------------------------
(* SnmpMessage: variables                                                  *)

\* Two lists put together.
LEMMA FlattenTwo ==
    ASSUME NEW a \in Seq(Int), NEW b \in Seq(Int)
    PROVE  FlattenSeq(<<a, b>>) = a \o b
<1> DEFINE ss == <<a, b>>
           f == FlattenSeq(ss)
           x == a \o b
           m == Len(a)
           n == Len(b)
<1>1. ss \in Seq(Seq(Int)) /\ Len(ss) = 2 /\ ss[1] = a /\ ss[2] = b
  OBVIOUS
<1> HIDE DEF ss
<1>2. m \in Nat /\ n \in Nat
  BY LenProperties
<1>3. x \in Seq(Int) /\ Len(x) = m + n /\ \A i \in 1 .. m + n : x[i] = IF i <= m THEN a[i] ELSE b[i - m]
  BY ConcatProperties
<1>4. f \in Seq(Int)
  BY <1>1, FlattenParts
<1>5. PICK e \in [0 .. Len(ss) -> Nat] : PartsOf(f, ss, e, Len(ss))
  BY <1>1, FlattenParts
<1> HIDE DEF f, x, m, n
<1>6. /\ e[0] = 0 /\ e[2] = Len(f)
      /\ \A i \in 1 .. 2 : /\ e[i] = e[i - 1] + Len(ss[i])
                           /\ \A j \in 1 .. Len(ss[i]) : f[e[i - 1] + j] = ss[i][j]
  BY <1>1, <1>5 DEF PartsOf
<1>7. 1 \in 1 .. 2 /\ 2 \in 1 .. 2 /\ 1 - 1 = 0 /\ 2 - 1 = 1
  OBVIOUS
<1>8. e[1] = m /\ e[2] = m + n
  BY <1>1, <1>2, <1>6, <1>7 DEF m, n
<1>9. /\ \A j \in 1 .. m : f[0 + j] = a[j]
      /\ \A j \in 1 .. n : f[m + j] = b[j]
  <2>1. e[1 - 1] = 0 /\ e[2 - 1] = m
    BY <1>6, <1>7, <1>8
  <2>2. \A j \in 1 .. Len(ss[1]) : f[e[1 - 1] + j] = ss[1][j]
    BY <1>6, <1>7
  <2>3. \A j \in 1 .. Len(ss[2]) : f[e[2 - 1] + j] = ss[2][j]
    BY <1>6, <1>7
  <2>4. ss[1] = a /\ ss[2] = b /\ Len(ss[1]) = m /\ Len(ss[2]) = n
    BY <1>1 DEF m, n
  <2> QED
    BY ONLY <2>1, <2>2, <2>3, <2>4
<1>10. \A i \in 1 .. m + n : f[i] = x[i]
  <2> TAKE i \in 1 .. m + n
  <2>1. CASE i <= m
    <3>1. i \in 1 .. m /\ 0 + i = i
      BY <1>2, <2>1
    <3> QED
      BY <1>3, <1>9, <2>1, <3>1
  <2>2. CASE ~(i <= m)
    <3>1. i - m \in 1 .. n /\ m + (i - m) = i
      BY <1>2, <2>2
    <3>2. f[m + (i - m)] = b[i - m]
      BY <1>9, <3>1
    <3> QED
      BY <1>3, <2>2, <3>1, <3>2
  <2> QED
    BY <2>1, <2>2
<1>11. Len(f) = Len(x)
  BY <1>3, <1>6, <1>8
<1>12. \A i \in 1 .. Len(f) : f[i] = x[i]
  BY <1>3, <1>10, <1>11
<1>13. f = x
  BY <1>3, <1>4, <1>11, <1>12, SeqEqual
<1> QED
  BY <1>13 DEF f, x, ss

\* One part that is put together is itself.
LEMMA FlattenOne ==
    ASSUME NEW a \in Seq(Int)
    PROVE  FlattenSeq(<<a>>) = a
<1> DEFINE ss == <<a>>
           f == FlattenSeq(ss)
<1>1. ss \in Seq(Seq(Int)) /\ Len(ss) = 1 /\ ss[1] = a
  OBVIOUS
<1> HIDE DEF ss
<1>2. f \in Seq(Int) /\ Len(a) \in Nat
  BY <1>1, FlattenParts, LenProperties
<1>3. PICK e \in [0 .. Len(ss) -> Nat] : PartsOf(f, ss, e, Len(ss))
  BY <1>1, FlattenParts
<1> HIDE DEF f
<1>4. /\ e[0] = 0 /\ e[1] = Len(f)
      /\ \A i \in 1 .. 1 : /\ e[i] = e[i - 1] + Len(ss[i])
                           /\ \A j \in 1 .. Len(ss[i]) : f[e[i - 1] + j] = ss[i][j]
  BY <1>1, <1>3 DEF PartsOf
<1>5. 1 \in 1 .. 1 /\ 1 - 1 = 0 /\ \A j \in 1 .. Len(a) : 0 + j = j
  BY <1>2
<1>6. Len(f) = Len(a) /\ \A j \in 1 .. Len(a) : f[j] = a[j]
  <2>1. e[1 - 1] = 0 /\ e[1] = e[1 - 1] + Len(ss[1]) /\ ss[1] = a
    BY <1>1, <1>4, <1>5
  <2>2. \A j \in 1 .. Len(ss[1]) : f[e[1 - 1] + j] = ss[1][j]
    BY <1>4, <1>5
  <2>3. Len(f) = Len(a)
    BY <1>2, <1>4, <2>1
  <2>4. \A j \in 1 .. Len(a) : f[0 + j] = a[j]
    BY ONLY <2>1, <2>2
  <2> QED
    BY <1>5, <2>3, <2>4
<1>7. f = a
  BY <1>2, <1>6, SeqEqual
<1> QED
  BY <1>7 DEF f, ss

\* One or two objects in a row.
LEMMA ObjectIsSeq ==
    ASSUME NEW kind \in VarKind \cup {"flags"}, NEW v \in ValuesOf(kind), NEW builder \in {"forward", "reverse"}
    PROVE  Object(builder, kind, v) \in Seq(Int) /\ Objects(builder, <<kind>>, <<v>>) = Object(builder, kind, v)
<1> DEFINE kinds == <<kind>>
           values == <<v>>
           x == Object(builder, kind, v)
           ss == ObjectList(builder, kinds, values)
<1>1. kinds \in Seq(VarKind \cup {"flags"}) /\ \A j \in 1 .. Len(kinds) : values[j] \in ValuesOf(kinds[j])
  OBVIOUS
<1>2. ss = <<x>>
  BY DEF ObjectList
<1>3. ss \in Seq(Seq(Int)) /\ Len(ss) = Len(kinds) /\ Objects(builder, kinds, values) = FlattenSeq(ss)
  <2> HIDE DEF kinds, values, ss
  <2> QED
    BY <1>1, ObjectsAre DEF ss
<1> HIDE DEF x, ss
<1>4. x \in Seq(Int)
  <2>1. 1 \in 1 .. Len(ss)
    BY <1>2
  <2>2. ss[1] \in Seq(Int)
    BY <1>3, <2>1, ElementOfSeq
  <2> QED
    BY <1>2, <2>2
<1>5. FlattenSeq(ss) = x
  BY <1>2, <1>4, FlattenOne
<1> QED
  BY <1>3, <1>4, <1>5 DEF x

\* Two objects are one after the other.
LEMMA TwoObjects ==
    ASSUME NEW k \in VarKind \cup {"flags"}, NEW v \in ValuesOf(k),
           NEW l \in VarKind \cup {"flags"}, NEW w \in ValuesOf(l), NEW builder \in {"forward", "reverse"}
    PROVE  Objects(builder, <<k, l>>, <<v, w>>) = Object(builder, k, v) \o Object(builder, l, w)
<1> DEFINE kinds == <<k, l>>
           values == <<v, w>>
           x == Object(builder, k, v)
           y == Object(builder, l, w)
           ss == ObjectList(builder, kinds, values)
<1>1. kinds \in Seq(VarKind \cup {"flags"}) /\ \A j \in 1 .. Len(kinds) : values[j] \in ValuesOf(kinds[j])
  <2>1. kinds[1] = k /\ kinds[2] = l /\ values[1] = v /\ values[2] = w /\ Len(kinds) = 2
    OBVIOUS
  <2>2. \A j \in 1 .. 2 : j = 1 \/ j = 2
    OBVIOUS
  <2>3. kinds \in Seq(VarKind \cup {"flags"})
    OBVIOUS
  <2> HIDE DEF kinds, values
  <2> QED
    BY <2>1, <2>2, <2>3
<1>2. ss = <<x, y>>
  <2>1. ss = [j \in 1 .. 2 |-> Object(builder, kinds[j], values[j])]
    BY DEF ObjectList
  <2>2. <<x, y>> = [j \in 1 .. 2 |-> <<x, y>>[j]]
    OBVIOUS
  <2>3. \A j \in 1 .. 2 : Object(builder, kinds[j], values[j]) = <<x, y>>[j]
    <3>1. \A j \in 1 .. 2 : j = 1 \/ j = 2
      OBVIOUS
    <3> QED
      BY <3>1
  <2> HIDE DEF ss, x, y, kinds, values
  <2> QED
    BY <2>1, <2>2, <2>3
<1>3. Objects(builder, kinds, values) = FlattenSeq(ss)
  <2> HIDE DEF kinds, values, ss
  <2> QED
    BY <1>1, ObjectsAre DEF ss
<1>4. x \in Seq(Int) /\ y \in Seq(Int)
  BY ObjectIsSeq
<1> HIDE DEF x, y, ss
<1>5. FlattenSeq(ss) = x \o y
  BY <1>2, <1>4, FlattenTwo
<1> QED
  BY <1>3, <1>5 DEF x, y

\* Kinds of their own have types of their own.
LEMMA TypesDiffer ==
    ASSUME NEW j \in VarKind \ Wide, NEW k \in VarKind \ Wide, TypeOf(j) = TypeOf(k)
    PROVE  j = k
<1>1. \A i \in VarKind \ Wide : i \in {"counter", "gauge", "timeticks", "uinteger", "string", "ipaddress",
              "opaque", "nsap", "null", "noSuchObject", "noSuchInstance", "endOfMibView",
              "int", "objid", "counter64"}
  BY DEF VarKind, Wide, Unsigned, Strings, Empty
<1> QED
  BY <1>1 DEF TypeOf

\* What stands behind a header is the contents c.
Holds(s, h, c) == /\ h.from \in Nat \ {0} /\ h.to \in Int /\ h.from + Len(c) = h.to + 1
                  /\ StandsAt(c, s, h.from)

\* asn_parse_header: the kind of a value is found from its type and its tags.
LEMMA KindFound ==
    ASSUME NEW kind \in VarKind, NEW v \in ValuesOf(kind), NEW builder \in {"forward", "reverse"},
           NEW s \in Seq(Int), NEW h, h.type = TypeOf(kind),
           Holds(s, h, ObjectContents(builder, kind, v))
    PROVE  /\ KindOf(s, h) = {kind}
           /\ ParseValue(s, h, kind) = {v}
<1> DEFINE c == ObjectContents(builder, kind, v)
           from == h.from
           to == h.to
           wide == {k \in Wide : /\ TypeOf(k) = h.type /\ h.to > h.from
                                 /\ SubSeq(s, h.from, h.from + 1) = Tags(k)}
<1>1. /\ c \in Seq(Int)
      /\ kind \notin Wide => Decoded(kind, c) = {v}
      /\ kind \in Wide => \E b : Wraps(c, kind, b) /\ Decoded(kind, b) = {v}
      /\ kind \in Strings => c \in Seq({0})
      /\ kind = "ipaddress" => Len(c) = 4
  <2>1. kind \in VarKind \cup {"flags"}
    OBVIOUS
  <2>2. ContentsSay(c, kind, v)
    BY <2>1, ContentsRead
  <2> QED
    BY <2>2 DEF ContentsSay
<1> HIDE DEF c
<1>2. from \in Nat \ {0} /\ to \in Int /\ from + Len(c) = to + 1 /\ StandsAt(c, s, from) /\ Len(c) \in Nat
  BY <1>1, LenProperties DEF Holds, c
<1>3. KindOf(s, h) = IF wide # {} THEN wide ELSE {k \in VarKind \ Wide : TypeOf(k) = h.type}
  BY DEF KindOf
<1>4. High \in Nat /\ High >= 2
  BY Widths
<1> DEFINE Tag(k) == IF k = "opaque u64" THEN High + 2 ELSE High + 3
<1>5. \A k \in Wide : Tags(k) = <<High + 1, Tag(k)>> /\ Tag(k) \in Int
  <2>1. Tags("opaque u64") = <<High + 1, High + 2>>
    BY DEF Tags
  <2>2. Tags("opaque i64") = <<High + 1, High + 3>>
    BY DEF Tags
  <2>3. High + 2 \in Int /\ High + 3 \in Int
    BY <1>4
  <2>4. ASSUME NEW k \in Wide PROVE Tags(k) = <<High + 1, Tag(k)>> /\ Tag(k) \in Int
    <3>1. CASE k = "opaque u64"
      BY <2>1, <2>3, <3>1
    <3>2. CASE k = "opaque i64"
      BY <2>2, <2>3, <3>2
    <3> QED
      BY <3>1, <3>2 DEF Wide
  <2> QED
    BY <2>4
<1>6. \A k \in VarKind \ Wide : Tags(k) = <<>>
  BY DEF Tags, Wide
<1>7. \A k \in Wide : TypeOf(k) = 68
  BY DEF TypeOf, Wide
<1>8. SubSeq(s, from, to) = c
  <2> DEFINE l == Len(c)
  <2>0. l \in Nat /\ from \in Nat /\ to \in Int /\ from + l = to + 1
    BY <1>2
  <2> HIDE DEF l, from, to
  <2>1a. from + l - 1 = to
    BY <2>0
  <2>1. from + Len(c) - 1 = to
    BY <2>1a DEF l
  <2> QED
    BY <1>1, <1>2, <2>1, PartIs
<1>9. CASE kind \notin Wide
  <2>1. wide = {}
    <3> SUFFICES ASSUME NEW k \in Wide, TypeOf(k) = h.type, h.to > h.from,
                        SubSeq(s, h.from, h.from + 1) = Tags(k)
                 PROVE  FALSE
      OBVIOUS
    <3>1. kind = "opaque"
      <4>1. TypeOf(kind) = 68
        BY <1>7
      <4> QED
        <5>1. TypeOf("opaque") = 68
          BY DEF TypeOf
        <5>2. "opaque" \in VarKind \ Wide
          BY DEF VarKind, Strings, Wide
        <5>3. TypeOf(kind) = TypeOf("opaque")
          BY <4>1, <5>1
        <5> QED
          BY ONLY <1>9, kind \in VarKind, <5>2, <5>3, TypesDiffer
    <3>2. c \in Seq({0})
      BY <1>1, <3>1 DEF Strings
    <3>3. Len(c) >= 2
      <4> DEFINE l == Len(c)
      <4>1. l \in Nat /\ from \in Nat /\ to \in Int /\ from + l = to + 1 /\ to > from
        BY <1>2
      <4> HIDE DEF l, from, to
      <4>2. l >= 2
        BY <4>1
      <4> QED
        BY <4>2 DEF l
    <3>4. 1 \in 1 .. Len(c) /\ from + 1 - 1 = from
      BY <1>2, <3>3
    <3>5. s[from] = 0
      <4>1. c[1] = 0
        BY <3>2, <3>4, ElementOfSeq
      <4> QED
        BY <1>2, <3>4, <4>1 DEF StandsAt
    <3>6. SubSeq(s, from, from + 1)[1] = s[from]
      <4>1. from \in 1 .. Len(s) + 1 /\ from + 1 \in from - 1 .. Len(s)
        <5> DEFINE l == Len(c)
                   q == Len(s)
        <5>1. l \in Nat /\ q \in Nat /\ l >= 2 /\ from \in Nat \ {0} /\ from + l - 1 <= q
          BY <1>2, <3>3, LenProperties DEF StandsAt
        <5> HIDE DEF l, q, from
        <5>2. from \in 1 .. q + 1 /\ from + 1 \in from - 1 .. q
          BY <5>1
        <5> QED
          BY <5>2 DEF q
      <4> HIDE DEF from
      <4>2. \A i \in 1 .. (from + 1) - from + 1 : SubSeq(s, from, from + 1)[i] = s[from + i - 1]
        BY <4>1, SubSeqProperties
      <4>3. 1 \in 1 .. (from + 1) - from + 1 /\ from + 1 - 1 = from
        BY <1>2
      <4> QED
        BY <4>2, <4>3
    <3>7. Tags(k)[1] = High + 1
      <4> DEFINE x == High + 1
                 y == Tag(k)
      <4>1. Tags(k) = <<x, y>>
        BY <1>5
      <4> HIDE DEF x, y
      <4>2. Tags(k)[1] = x
        BY <4>1
      <4> QED
        BY <4>2 DEF x
    <3>8. High + 1 = 0
      BY <3>5, <3>6, <3>7
    <3> QED
      BY <1>4, <3>8
  <2>2. {k \in VarKind \ Wide : TypeOf(k) = h.type} = {kind}
    BY <1>9, TypesDiffer
  <2>3. KindOf(s, h) = {kind}
    BY <1>3, <2>1, <2>2
  <2>4. ParseValue(s, h, kind) = Decoded(kind, SubSeq(s, from + 0, to))
    <3>1. ~(kind = "ipaddress" /\ h.to - h.from # 3)
      <4> SUFFICES ASSUME kind = "ipaddress" PROVE h.to - h.from = 3
        OBVIOUS
      <4>1. Len(c) = 4
        BY <1>1
      <4> QED
        BY <1>2, <4>1
    <3> QED
      BY <1>6, <1>9, <3>1 DEF ParseValue
  <2>5. from + 0 = from
    BY <1>2
  <2> QED
    BY <1>1, <1>8, <1>9, <2>3, <2>4, <2>5
<1>10. CASE kind \in Wide
  <2>1. PICK b : Wraps(c, kind, b) /\ Decoded(kind, b) = {v}
    BY <1>1, <1>10
  <2> DEFINE x == High + 1
             y == Tag(kind)
             t == <<x, y>>
             l == <<Len(b)>>
             d == t \o l
  <2>2. b \in Seq(Int) /\ c = d \o b
    BY <1>5, <1>10, <2>1 DEF Wraps
  <2>3. x \in Int /\ y \in Int
    <3>1. Tag(kind) \in Int
      BY ONLY <1>5, <1>10
    <3>2. High + 1 \in Int
      BY <1>4
    <3> QED
      BY <3>1, <3>2
  <2> HIDE DEF Tag, x, y
  <2>4. t \in Seq(Int) /\ Len(t) = 2 /\ l \in Seq(Int) /\ Len(l) = 1
    BY <2>2, <2>3, LenProperties
  <2> HIDE DEF t, l
  <2>5. d \in Seq(Int) /\ Len(d) = 3
    <3>1. d \in Seq(Int) /\ Len(d) = Len(t) + Len(l)
      BY <2>4, ConcatProperties
    <3> QED
      BY <2>4, <3>1
  <2> HIDE DEF d
  <2>6. StandsAt(d, s, from) /\ StandsAt(b, s, from + Len(d)) /\ Len(b) \in Nat /\ Len(c) = Len(d) + Len(b)
    BY <1>2, <2>2, <2>5, StandsParts
  <2>7. StandsAt(t, s, from)
    BY <1>2, <2>4, <2>6, StandsParts DEF d
  <2>8. SubSeq(s, from, from + 1) = Tags(kind)
    <3>1. SubSeq(s, from, from + Len(t) - 1) = t
      BY <1>2, <2>4, <2>7, PartIs
    <3>2. from + Len(t) - 1 = from + 1
      BY <1>2, <2>4
    <3>3. t = Tags(kind)
      BY <1>5, <1>10 DEF t, x, y
    <3> QED
      BY <3>1, <3>2, <3>3
  <2>9. to > from
    <3> DEFINE n == Len(b)
    <3>1. n \in Nat /\ from \in Nat /\ to \in Int /\ from + (3 + n) = to + 1
      BY <1>2, <2>5, <2>6
    <3> HIDE DEF n, from, to
    <3> QED
      BY <3>1
  <2>10. wide = {kind}
    <3>1. \A k \in Wide : Tags(k) = Tags(kind) => k = kind
      <4>1. ASSUME NEW k \in Wide PROVE Tags(k)[2] = Tag(k)
        <5> DEFINE p == High + 1
                   q == Tag(k)
        <5>1. Tags(k) = <<p, q>>
          BY <1>5
        <5> HIDE DEF p, q
        <5>2. Tags(k)[2] = q
          BY <5>1
        <5> QED
          BY <5>2 DEF q
      <4>2. High + 2 # High + 3
        BY <1>4
      <4> QED
        <5> SUFFICES ASSUME NEW k \in Wide, Tags(k) = Tags(kind) PROVE k = kind
          OBVIOUS
        <5>1. Tag(k) = Tag(kind)
          BY <1>10, <4>1
        <5>2. /\ k = "opaque u64" \/ k = "opaque i64"
              /\ kind = "opaque u64" \/ kind = "opaque i64"
          BY <1>10 DEF Wide
        <5>3. Tag("opaque u64") # Tag("opaque i64")
          BY <4>2 DEF Tag
        <5> QED
          BY <5>1, <5>2, <5>3
    <3>2. TypeOf(kind) = h.type
      OBVIOUS
    <3> QED
      BY <1>10, <2>8, <2>9, <3>1, <3>2
  <2>11. KindOf(s, h) = {kind}
    BY <1>3, <2>10
  <2>12. SubSeq(s, from + 3, to) = b
    <3>1. from + 3 \in Nat \ {0} /\ StandsAt(b, s, from + 3)
      BY <1>2, <2>5, <2>6
    <3>2. SubSeq(s, from + 3, from + 3 + Len(b) - 1) = b
      <4> DEFINE p == from + 3
      <4>1. p \in Nat \ {0} /\ StandsAt(b, s, p)
        BY <3>1
      <4> HIDE DEF p
      <4>2. SubSeq(s, p, p + Len(b) - 1) = b
        BY <2>2, <4>1, PartIs
      <4> QED
        BY <4>2 DEF p
    <3>3. from + 3 + Len(b) - 1 = to
      <4> DEFINE n == Len(b)
      <4>1. n \in Nat /\ from \in Nat /\ to \in Int /\ from + (3 + n) = to + 1
        BY <1>2, <2>5, <2>6
      <4> HIDE DEF n, from, to
      <4>2. from + 3 + n - 1 = to
        BY <4>1
      <4> QED
        BY <4>2 DEF n
    <3> QED
      BY <3>2, <3>3
  <2>13. ParseValue(s, h, kind) = Decoded(kind, SubSeq(s, from + 3, to))
    <3>1. kind # "ipaddress"
      BY <1>10 DEF Wide
    <3>2. Tags(kind) # <<>>
      <4>1. Tags(kind) = t
        BY <1>5, <1>10 DEF t, x, y
      <4>2. Len(<<>>) = 0
        OBVIOUS
      <4>3. t # <<>>
        BY ONLY <2>4, <4>2
      <4> QED
        BY ONLY <4>1, <4>3
    <3> QED
      BY <3>1, <3>2 DEF ParseValue
  <2> QED
    BY <2>1, <2>11, <2>12, <2>13
<1> QED
  BY <1>9, <1>10

\* What was received, and what stands in it from at on and ends before or at end.
Buffer(s) == s \in Seq(Int) /\ Fits(Len(s))

Placed(x, s, at, end) == /\ x \in Seq(Int) /\ Len(x) \in Nat /\ at \in Nat \ {0} /\ end \in Int
                         /\ StandsAt(x, s, at) /\ at + Len(x) - 1 <= end

\* The header of x is found, and its contents c begin at from.
Opens(x, t, c, s, at, end, from) ==
    /\ from \in Nat \ {0} /\ from + Len(c) = at + Len(x) /\ from > at
    /\ Header(s, at, end) = {[type |-> t, from |-> from, to |-> at + Len(x) - 1]}
    /\ Placed(c, s, from, at + Len(x) - 1)

\* asn_parse_header finds the contents of what is placed before the end.
LEMMA HeaderOpens ==
    ASSUME NEW t, NEW c, NEW x, Frame(x, t, c), NEW s, Buffer(s), NEW at, NEW end, Placed(x, s, at, end)
    PROVE  /\ \E from : Opens(x, t, c, s, at, end, from)
           /\ at + Len(x) \in Nat \ {0} /\ Len(x) >= 2 /\ at + Len(x) - 1 \in Nat
<1>1. /\ s \in Seq(Int) /\ Fits(Len(s)) /\ at \in Nat \ {0} /\ end \in Int /\ StandsAt(x, s, at)
      /\ at + Len(x) - 1 <= end
  BY DEF Buffer, Placed
<1>2. /\ c \in Seq(Int) /\ Len(x) \in Nat /\ Len(x) >= 2 /\ Len(c) \in Nat
      /\ at + Len(x) \in Nat \ {0}
  BY <1>1, HeaderIs
<1>3. PICK from \in Nat \ {0} : Found(x, t, c, s, at, end, from)
  BY <1>1, HeaderIs
<1> DEFINE n == Len(x)
           m == Len(c)
<1>4. /\ n \in Nat /\ m \in Nat /\ at \in Nat /\ from \in Nat /\ n >= 2
      /\ from + m = at + n /\ at + n - 1 <= end /\ end \in Int /\ from > at
  BY <1>1, <1>2, <1>3 DEF Found
<1>5. StandsAt(c, s, from) /\ Header(s, at, end) = IF at + n - 1 > end THEN {}
                            ELSE {[type |-> t, from |-> from, to |-> at + n - 1]}
  BY <1>3 DEF Found
<1>6. from \in Nat \ {0} /\ c \in Seq(Int)
  BY <1>2
<1> HIDE DEF n, m
<1>7. ~(at + n - 1 > end) /\ from + m - 1 <= at + n - 1 /\ at + n - 1 \in Nat /\ at + n - 1 \in Int
  BY <1>4
<1>8. Header(s, at, end) = {[type |-> t, from |-> from, to |-> at + n - 1]}
  BY <1>5, <1>7
<1>9. Placed(c, s, from, at + n - 1)
  BY <1>4, <1>5, <1>6, <1>7 DEF Placed, m
<1>10. Opens(x, t, c, s, at, end, from)
  BY <1>4, <1>6, <1>8, <1>9 DEF Opens, n, m
<1> QED
  BY <1>2, <1>7, <1>10 DEF n

\* Of two parts one stands behind the other.
LEMMA PartsPlaced ==
    ASSUME NEW a \in Seq(Int), NEW b \in Seq(Int), NEW s, Buffer(s), NEW at, NEW end,
           Placed(a \o b, s, at, end)
    PROVE  /\ Placed(a, s, at, end) /\ Placed(b, s, at + Len(a), end)
           /\ at + Len(a) \in Nat \ {0} /\ Len(a) \in Nat /\ Len(b) \in Nat
           /\ at + Len(a) + Len(b) = at + Len(a \o b)
<1> DEFINE c == a \o b
           m == Len(a)
           n == Len(b)
           l == Len(c)
<1>1. /\ s \in Seq(Int) /\ at \in Nat \ {0} /\ end \in Int /\ StandsAt(c, s, at) /\ at + l - 1 <= end
  BY DEF Buffer, Placed
<1>2. /\ StandsAt(a, s, at) /\ StandsAt(b, s, at + m) /\ m \in Nat /\ n \in Nat /\ l = m + n
  BY <1>1, StandsParts
<1> HIDE DEF m, n, l
<1>3. at + m - 1 <= end /\ at + m + n - 1 <= end /\ at + m \in Nat \ {0} /\ at + m + n = at + l
  BY <1>1, <1>2
<1>4. Placed(a, s, at, end)
  BY <1>1, <1>2, <1>3 DEF Placed, m
<1>5. Placed(b, s, at + m, end)
  BY <1>1, <1>2, <1>3 DEF Placed, n
<1> QED
  BY <1>2, <1>3, <1>4, <1>5 DEF m, n, l

\* Plain objects one after the other are parsed as their values.
LEMMA ObjectsPlaced ==
    ASSUME NEW kinds \in Seq(Plain), NEW values, AreValues(kinds, values),
           NEW builder \in {"forward", "reverse"}, NEW x, x = Objects(builder, kinds, values),
           NEW s, Buffer(s), NEW at, NEW end, Placed(x, s, at, end)
    PROVE  ReadAs(kinds, values, s, at, end, x)
<1>1. s \in Seq(Int) /\ Fits(Len(s)) /\ at \in Nat \ {0} /\ end \in Int
  BY DEF Buffer, Placed
<1>2. /\ StandsAt(Objects(builder, kinds, values), s, at)
      /\ at + Len(Objects(builder, kinds, values)) - 1 <= end
  BY DEF Placed
<1>3. ReadAs(kinds, values, s, at, end, Objects(builder, kinds, values))
  BY <1>1, <1>2, ObjectsRead
<1> QED
  BY <1>3

\* A list of variables at its two ends: an identifier and a value.
LEMMA VarBindFrame ==
    ASSUME NEW var, IsVar(var), NEW builder \in {"forward", "reverse"}
    PROVE  /\ Frame(VarBind(builder, var), ASN_SEQUENCE,
                    Object(builder, "objid", var.name) \o Object(builder, var.kind, var.value))
           /\ Object(builder, "objid", var.name) \in Seq(Int)
           /\ Object(builder, var.kind, var.value) \in Seq(Int)
<1> DEFINE k == var.kind
           v == var.value
           w == var.name
           x == Object(builder, "objid", w)
           y == Object(builder, k, v)
<1>1. k \in VarKind \cup {"flags"} /\ v \in ValuesOf(k)
  BY DEF IsVar
<1>2. "objid" \in VarKind \cup {"flags"} /\ w \in ValuesOf("objid")
  BY DEF IsVar, VarKind, ValuesOf, Unsigned
<1> HIDE DEF k, v, w
<1>3. x \in Seq(Int) /\ y \in Seq(Int)
  BY <1>1, <1>2, ObjectIsSeq
<1>4. Objects(builder, <<"objid", k>>, <<w, v>>) = x \o y
  BY <1>1, <1>2, TwoObjects
<1> HIDE DEF x, y
<1>5. x \o y \in Seq(Int) /\ ASN_SEQUENCE \in Int
  BY <1>3, ConcatProperties DEF ASN_SEQUENCE
<1>6. Frame(Structure(builder, ASN_SEQUENCE, x \o y), ASN_SEQUENCE, x \o y)
  BY <1>5, StructureFrame
<1>7. VarBind(builder, var) = Structure(builder, ASN_SEQUENCE, x \o y)
  BY <1>4 DEF VarBind, k, v, w
<1> QED
  BY <1>3, <1>6, <1>7 DEF x, y, k, v, w

\* snmp_parse_var_op and the value: a variable is parsed as itself.
LEMMA VarBindRead ==
    ASSUME NEW var, IsVar(var), NEW builder \in {"forward", "reverse"}, NEW s, Buffer(s),
           NEW at, NEW end, Placed(VarBind(builder, var), s, at, end)
    PROVE  ParseVarBind(s, at, end) = {[at |-> at + Len(VarBind(builder, var)), var |-> var]}
<1> DEFINE X == VarBind(builder, var)
           kind == var.kind
           value == var.value
           name == var.name
           x == Object(builder, "objid", name)
           y == Object(builder, kind, value)
           c == ObjectContents(builder, kind, value)
           to == at + Len(X) - 1
           Result(h, b, k) == {[at |-> h.to + 1, var |-> [name |-> b.got[1], kind |-> k, value |-> v]] :
                                  v \in ParseValue(s, h, k)}
           AnyKind(h, b) == UNION {Result(h, b, k) : k \in KindOf(s, h)}
           AnyValue(list, b) == UNION {AnyKind(h, b) : h \in Header(s, b.at, list.to)}
           AnyName(list) == UNION {AnyValue(list, b) :
                                      b \in ParseObjects(<<"objid">>, s, list.from, list.to)}
<1>1. ParseVarBind(s, at, end) = UNION {AnyName(list) : list \in HeaderOf(ASN_SEQUENCE, s, at, end)}
  BY DEF ParseVarBind, Then
<1>2. Frame(X, ASN_SEQUENCE, x \o y) /\ x \in Seq(Int) /\ y \in Seq(Int)
  BY VarBindFrame
<1>3. /\ kind \in VarKind /\ value \in ValuesOf(kind) /\ name \in ValuesOf("objid") /\ name \in Oid
      /\ var = [name |-> name, kind |-> kind, value |-> value]
  BY DEF IsVar, ValuesOf, Unsigned
<1>4. Placed(X, s, at, end)
  OBVIOUS
<1> HIDE DEF X, kind, value, name
<1>5. Objects(builder, <<"objid">>, <<name>>) = x
  BY <1>3, ObjectIsSeq DEF VarKind
<1>6. Frame(y, TypeOf(kind), c)
  BY <1>3, ObjectFrame
<1> HIDE DEF x, y, c
<1>7. PICK from : Opens(X, ASN_SEQUENCE, x \o y, s, at, end, from)
  BY <1>2, <1>4, HeaderOpens
<1>8. at + Len(X) \in Nat \ {0} /\ to \in Nat
  BY <1>2, <1>4, HeaderOpens
<1> DEFINE list == [type |-> ASN_SEQUENCE, from |-> from, to |-> to]
<1>9. Header(s, at, end) = {list} /\ Placed(x \o y, s, from, to) /\ from \in Nat \ {0}
      /\ from + Len(x \o y) = at + Len(X)
  BY <1>7 DEF Opens
<1> HIDE DEF to
<1>10. list.type = ASN_SEQUENCE /\ list.from = from /\ list.to = to
  OBVIOUS
<1> HIDE DEF list
<1>11. HeaderOf(ASN_SEQUENCE, s, at, end) = {list}
  BY <1>9, <1>10 DEF HeaderOf
<1> DEFINE next == from + Len(x)
           b == [at |-> next, got |-> <<name>>]
<1>12. /\ Placed(x, s, from, to) /\ Placed(y, s, next, to) /\ next \in Nat \ {0}
       /\ Len(y) \in Nat /\ next + Len(y) = at + Len(X)
  BY <1>2, <1>9, PartsPlaced
<1>13. ParseObjects(<<"objid">>, s, from, to) = {b}
  <2> DEFINE kinds == <<"objid">>
             values == <<name>>
  <2>1. kinds \in Seq(Plain)
    BY DEF Plain, VarKind, Wide
  <2>2. AreValues(kinds, values)
    BY <1>3 DEF AreValues, IsList
  <2>4. Objects(builder, kinds, values) = x
    BY <1>5
  <2> HIDE DEF kinds, values
  <2>5. ReadAs(kinds, values, s, from, to, x)
    BY <1>12, <2>1, <2>2, <2>4, ObjectsPlaced
  <2> QED
    BY <2>5 DEF ReadAs, kinds, values
<1> HIDE DEF next
<1>14. b.at = next /\ b.got[1] = name
  OBVIOUS
<1> HIDE DEF b
<1>15. PICK at2 : Opens(y, TypeOf(kind), c, s, next, to, at2)
  BY <1>6, <1>12, HeaderOpens
<1> DEFINE h == [type |-> TypeOf(kind), from |-> at2, to |-> next + Len(y) - 1]
<1>16. Header(s, next, to) = {h} /\ Placed(c, s, at2, next + Len(y) - 1) /\ at2 \in Nat \ {0}
       /\ at2 + Len(c) = next + Len(y)
  BY <1>15 DEF Opens
<1>17. h.type = TypeOf(kind) /\ h.from = at2 /\ h.to = next + Len(y) - 1
  OBVIOUS
<1> HIDE DEF h
<1>18. h.to + 1 = at + Len(X) /\ h.to \in Int
  <2> DEFINE l == Len(y)
             n == at + Len(X)
  <2>1. next \in Nat /\ l \in Nat /\ n \in Nat /\ next + l = n /\ h.to = next + l - 1
    BY <1>8, <1>12, <1>17
  <2> HIDE DEF l, n
  <2>2. h.to + 1 = n /\ h.to \in Int
    BY <2>1
  <2> QED
    BY <2>2 DEF n
<1>19. Holds(s, h, c)
  <2>1. StandsAt(c, s, at2)
    BY <1>16 DEF Placed
  <2> QED
    BY <1>12, <1>16, <1>17, <1>18, <2>1 DEF Holds
<1>20. KindOf(s, h) = {kind} /\ ParseValue(s, h, kind) = {value}
  <2>1. s \in Seq(Int)
    BY DEF Buffer
  <2> QED
    BY <1>3, <1>17, <1>19, <2>1, KindFound DEF c
<1>21. Result(h, b, kind) = {[at |-> at + Len(X), var |-> var]}
  BY <1>3, <1>14, <1>18, <1>20
<1> HIDE DEF Result
<1>22. AnyKind(h, b) = Result(h, b, kind)
  BY <1>20
<1> HIDE DEF AnyKind
<1>23. AnyValue(list, b) = AnyKind(h, b)
  BY <1>10, <1>14, <1>16
<1> HIDE DEF AnyValue
<1>24. AnyName(list) = AnyValue(list, b)
  BY <1>10, <1>13
<1> HIDE DEF AnyName
<1> QED
  BY <1>1, <1>11, <1>21, <1>22, <1>23, <1>24 DEF X

\* What has a type, a length and contents is a list of numbers.
LEMMA FrameInt ==
    ASSUME NEW t, NEW c, NEW x, Frame(x, t, c)
    PROVE  x \in Seq(Int)
<1>1. PICK u \in Seq(Int) : x = <<t>> \o u \o c
  BY DEF Frame
<1>2. t \in Int /\ c \in Seq(Int)
  BY DEF Frame
<1>3. <<t>> \o u \in Seq(Int)
  BY <1>2, PrefixInt
<1> DEFINE a == <<t>> \o u
<1> HIDE DEF a
<1>4. a \o c \in Seq(Int)
  BY <1>2, <1>3, ConcatProperties DEF a
<1> QED
  BY <1>1, <1>4 DEF a

\* snmp_pdu_parse: the variables of a list are parsed one after the other.
VarSteps(g, s, at, end, M) ==
    /\ g = [n \in 0 .. M |-> g[n]] /\ g[0] = {[at |-> at, vars |-> <<>>]}
    /\ \A n \in 1 .. M : g[n] = UNION {ParseNextVar(s, end, b) : b \in g[n - 1]}

\* The loop over the variables takes one turn at each step.
LEMMA VarListFold ==
    ASSUME NEW s, NEW at \in Int, NEW end \in Int, NEW M \in Nat, M = end + 1 - at,
           NEW g, VarSteps(g, s, at, end, M)
    PROVE  ParseVarList(s, at, end) = {b.vars : b \in g[M]}
<1> DEFINE none == {[at |-> at, vars |-> <<>>]}
           Next(S) == UNION {ParseNextVar(s, end, b) : b \in S}
           after[n \in 0 .. end + 1 - at] ==
               IF n = 0 THEN {[at |-> at, vars |-> <<>>]}
               ELSE Then(after[n - 1], LAMBDA b : ParseNextVar(s, end, b))
           Eqn(f) == [n \in 0 .. M |-> IF n = 0 THEN none ELSE Next(f[n - 1])]
<1>1. ParseVarList(s, at, end) = {b.vars : b \in after[M]}
  BY DEF ParseVarList
<1>2. g = Eqn(g)
  <2>1. \A n \in 0 .. M : g[n] = IF n = 0 THEN none ELSE Next(g[n - 1])
    <3> HIDE DEF Next, none
    <3>1. \A n \in 1 .. M : g[n] = Next(g[n - 1])
      BY DEF Next, VarSteps
    <3>2. g[0] = none
      BY DEF none, VarSteps
    <3> TAKE n \in 0 .. M
    <3>3. CASE n = 0
      BY <3>2, <3>3
    <3>4. CASE n # 0
      <4>1. n \in 1 .. M
        BY <3>4
      <4> QED
        BY <3>1, <3>4, <4>1
    <3> QED
      BY <3>3, <3>4
  <2>2. g = [n \in 0 .. M |-> g[n]]
    BY DEF VarSteps
  <2> HIDE DEF Next, none
  <2> QED
    BY <2>1, <2>2
<1>3. after = CHOOSE f : f = Eqn(f)
  BY DEF Then
<1> HIDE DEF after
<1>4. after = Eqn(after)
  <2> HIDE DEF Eqn
  <2> QED
    BY <1>2, <1>3
<1> HIDE DEF none, Next
<1> DEFINE T == {n \in Nat : n <= M => after[n] = g[n]}
<1>6. 0 \in T
  <2>1. 0 \in 0 .. M
    OBVIOUS
  <2>2. after[0] = none /\ g[0] = none
    BY <1>2, <1>4, <2>1
  <2> QED
    BY <2>2
<1>7. ASSUME NEW n \in Nat, n \in T PROVE n + 1 \in T
  <2> SUFFICES ASSUME n + 1 <= M PROVE after[n + 1] = g[n + 1]
    OBVIOUS
  <2>1. n + 1 \in 0 .. M /\ n + 1 # 0 /\ (n + 1) - 1 = n /\ n <= M
    OBVIOUS
  <2>2. after[n] = g[n]
    BY <1>7, <2>1
  <2>3. after[n + 1] = Next(after[n])
    BY <1>4, <2>1
  <2>4. g[n + 1] = Next(g[n])
    BY <1>2, <2>1
  <2> QED
    BY <2>2, <2>3, <2>4
<1> HIDE DEF T
<1>8. M \in T
  BY <1>6, <1>7, SetInduction
<1>9. after[M] = g[M]
  BY <1>8 DEF T
<1> QED
  BY <1>1, <1>9

\* A list of variables.
AreVars(vars) == IsList(vars, Len(vars)) /\ \A k \in 1 .. Len(vars) : IsVar(vars[k])

VarBinds(builder, vars) == [k \in 1 .. Len(vars) |-> VarBind(builder, vars[k])]

\* The variables that are built are lists of numbers.
LEMMA VarBindsAre ==
    ASSUME NEW vars, AreVars(vars), NEW builder \in {"forward", "reverse"}
    PROVE  /\ VarBinds(builder, vars) \in Seq(Seq(Int))
           /\ Len(VarBinds(builder, vars)) = Len(vars) /\ Len(vars) \in Nat
           /\ FlattenSeq(VarBinds(builder, vars)) \in Seq(Int)
<1> DEFINE N == Len(vars)
           ss == VarBinds(builder, vars)
<1>1. N \in Nat /\ \A k \in 1 .. N : IsVar(vars[k])
  BY DEF AreVars, IsList
<1>2. \A k \in 1 .. N : VarBind(builder, vars[k]) \in Seq(Int)
  BY <1>1, VarBindFrame, FrameInt
<1>3. ss = [k \in 1 .. N |-> VarBind(builder, vars[k])]
  BY DEF VarBinds
<1> HIDE DEF N, ss
<1>4. ss \in [1 .. N -> Seq(Int)]
  BY <1>2, <1>3
<1>5. ss \in Seq(Seq(Int)) /\ Len(ss) = N
  BY <1>1, <1>4, FunctionIsSeq
<1>6. FlattenSeq(ss) \in Seq(Int)
  BY <1>5, FlattenParts
<1> QED
  BY <1>1, <1>5, <1>6 DEF N, ss

\* Where every part begins and ends, and that it takes something.
LEMMA VarsLaid ==
    ASSUME NEW vars, AreVars(vars), NEW builder \in {"forward", "reverse"}, NEW s, Buffer(s),
           NEW at, NEW end, Placed(FlattenSeq(VarBinds(builder, vars)), s, at, end),
           NEW M, M = Len(FlattenSeq(VarBinds(builder, vars))), at + M = end + 1
    PROVE  \E e \in [0 .. Len(vars) -> Nat] :
              /\ e[0] = 0 /\ e[Len(vars)] = M /\ Len(vars) <= M
              /\ \A k \in 1 .. Len(vars) :
                    /\ e[k - 1] < e[k] /\ e[k] <= M
                    /\ Placed(VarBind(builder, vars[k]), s, at + e[k - 1], end)
                    /\ e[k] = e[k - 1] + Len(VarBind(builder, vars[k]))
<1> DEFINE N == Len(vars)
           ss == VarBinds(builder, vars)
           x == FlattenSeq(ss)
<1>1. ss \in Seq(Seq(Int)) /\ Len(ss) = N /\ N \in Nat /\ x \in Seq(Int)
  BY VarBindsAre
<1>2. /\ s \in Seq(Int) /\ Fits(Len(s)) /\ at \in Nat \ {0} /\ end \in Int /\ StandsAt(x, s, at)
      /\ at + Len(x) - 1 <= end /\ Len(x) \in Nat /\ M = Len(x) /\ at + M = end + 1
  BY DEF Buffer, Placed
<1>3. \A k \in 1 .. N : ss[k] = VarBind(builder, vars[k]) /\ IsVar(vars[k])
  BY DEF VarBinds, AreVars
<1> HIDE DEF ss, x, N
<1>4. PICK e \in [0 .. N -> Nat] : Laid(ss, s, at, e)
  BY <1>1, <1>2, PartsStand DEF x
<1>5. /\ e[0] = 0 /\ e[N] = M
      /\ \A k \in 1 .. N : /\ e[k] = e[k - 1] + Len(ss[k]) /\ e[k] <= M
                           /\ StandsAt(ss[k], s, at + e[k - 1])
  BY <1>1, <1>2, <1>4 DEF Laid, x
<1>6. ASSUME NEW k \in 1 .. N
      PROVE  /\ e[k - 1] < e[k] /\ e[k] <= M
             /\ Placed(VarBind(builder, vars[k]), s, at + e[k - 1], end)
             /\ e[k] = e[k - 1] + Len(VarBind(builder, vars[k]))
  <2> DEFINE o == VarBind(builder, vars[k])
             a == at + e[k - 1]
             d == e[k - 1]
             f == e[k]
             l == Len(o)
  <2>1. d \in Nat /\ f \in Nat
    <3>1. k - 1 \in 0 .. N /\ k \in 0 .. N
      BY <1>1
    <3> QED
      BY <1>4, <3>1
  <2>2. ss[k] = o
    BY <1>3
  <2>3. f = d + l /\ f <= M /\ StandsAt(o, s, a)
    BY <1>5, <2>2
  <2>4. o \in Seq(Int) /\ l \in Nat
    <3>1. o \in Seq(Int)
      BY <1>1, <2>2, ElementOfSeq
    <3> QED
      BY <3>1, LenProperties
  <2>5. M \in Nat /\ at \in Nat \ {0} /\ end \in Int /\ at + M = end + 1 /\ a = at + d
    BY <1>2
  <2>6. PICK c : Frame(o, ASN_SEQUENCE, c)
    BY <1>3, VarBindFrame
  <2> HIDE DEF o, d, f, l, a
  <2>7. a \in Nat \ {0} /\ a + l - 1 <= end
    BY <2>1, <2>3, <2>4, <2>5
  <2>8. Placed(o, s, a, end)
    BY <1>2, <2>3, <2>4, <2>7 DEF Placed, l
  <2>9. l >= 2
    BY <2>6, <2>8, HeaderOpens DEF l
  <2>10. d < f
    BY <2>1, <2>3, <2>4, <2>9
  <2> QED
    BY <2>3, <2>8, <2>10 DEF o, d, f, a, l
<1> DEFINE T == {k \in Nat : k <= N => k <= e[k]}
<1>7. 0 \in T
  BY <1>5
<1>8. ASSUME NEW k \in Nat, k \in T PROVE k + 1 \in T
  <2> SUFFICES ASSUME k + 1 <= N PROVE k + 1 <= e[k + 1]
    OBVIOUS
  <2>1. k + 1 \in 1 .. N /\ (k + 1) - 1 = k /\ k <= N /\ k \in 0 .. N /\ k + 1 \in 0 .. N
    BY <1>1
  <2>2. k <= e[k]
    BY <1>8, <2>1
  <2>3. e[k] < e[k + 1]
    BY <1>6, <2>1
  <2>4. e[k] \in Nat /\ e[k + 1] \in Nat
    BY <1>4, <2>1
  <2> QED
    BY <2>2, <2>3, <2>4
<1> HIDE DEF T
<1>9. N \in T
  BY <1>1, <1>7, <1>8, SetInduction
<1>10. N <= M
  BY <1>1, <1>5, <1>9 DEF T
<1> QED
  BY <1>4, <1>5, <1>6, <1>10 DEF N

\* The loop of snmp_pdu_parse finds the variables in the order they lie in.
LEMMA VarListRead ==
    ASSUME NEW vars, AreVars(vars), NEW builder \in {"forward", "reverse"}, NEW s, Buffer(s),
           NEW at, NEW end, Placed(FlattenSeq(VarBinds(builder, vars)), s, at, end),
           at + Len(FlattenSeq(VarBinds(builder, vars))) = end + 1
    PROVE  ParseVarList(s, at, end) = {vars}
<1> DEFINE N == Len(vars)
           x == FlattenSeq(VarBinds(builder, vars))
           M == Len(x)
<1>1. N \in Nat /\ vars = [k \in 1 .. N |-> vars[k]] /\ \A k \in 1 .. N : IsVar(vars[k])
  BY DEF AreVars, IsList
<1>2. at \in Nat \ {0} /\ end \in Int /\ M \in Nat /\ at + M = end + 1
  BY DEF Placed
<1>3. PICK e \in [0 .. N -> Nat] :
              /\ e[0] = 0 /\ e[N] = M /\ N <= M
              /\ \A k \in 1 .. N :
                    /\ e[k - 1] < e[k] /\ e[k] <= M
                    /\ Placed(VarBind(builder, vars[k]), s, at + e[k - 1], end)
                    /\ e[k] = e[k - 1] + Len(VarBind(builder, vars[k]))
  BY VarsLaid, SMTT(30)
<1> HIDE DEF N, x, M
<1> DEFINE capped(n) == IF n <= N THEN n ELSE N
           Upto(k) == [at |-> at + e[k], vars |-> FirstOf(vars, k)]
           g == [n \in 0 .. M |-> {Upto(capped(n))}]
<1>4. ASSUME NEW k \in 1 .. N
      PROVE  ParseNextVar(s, end, Upto(k - 1)) = {Upto(k)}
  <2> DEFINE before == Upto(k - 1)
             o == VarBind(builder, vars[k])
             a == at + e[k - 1]
             d == e[k - 1]
             f == e[k]
  <2>1. before.at = a /\ before.vars = FirstOf(vars, k - 1)
    OBVIOUS
  <2>2. d \in Nat /\ f \in Nat
    <3>1. k - 1 \in 0 .. N /\ k \in 0 .. N
      BY <1>1
    <3> QED
      BY <1>3, <3>1
  <2>3. d < f /\ f <= M /\ Placed(o, s, a, end) /\ f = d + Len(o) /\ Len(o) \in Nat
    BY <1>3 DEF Placed
  <2>4. a = at + d
    OBVIOUS
  <2>5. ParseVarBind(s, a, end) = {[at |-> a + Len(o), var |-> vars[k]]}
    BY <1>1, <2>3, VarBindRead
  <2>6. Append(before.vars, vars[k]) = FirstOf(vars, k)
    BY <1>1, <2>1, FirstMore
  <2> DEFINE l == Len(o)
             b == [at |-> a + l, var |-> vars[k]]
  <2>7. ParseNextVar(s, end, before) =
            IF before.at > end THEN {before}
            ELSE {[at |-> p.at, vars |-> Append(before.vars, p.var)] : p \in ParseVarBind(s, before.at, end)}
    BY DEF ParseNextVar
  <2>8. b.at = a + l /\ b.var = vars[k]
    OBVIOUS
  <2>9. ParseVarBind(s, a, end) = {b} /\ l \in Nat /\ f = d + l
    BY <2>3, <2>5
  <2> HIDE DEF before, o, d, f, a, l, b
  <2>10. ~(a > end) /\ a + l = at + f
    BY <1>2, <2>2, <2>3, <2>4, <2>9, SMTT(30)
  <2>11. ParseNextVar(s, end, before) = {[at |-> at + f, vars |-> FirstOf(vars, k)]}
    BY <2>1, <2>6, <2>7, <2>8, <2>9, <2>10
  <2> QED
    BY <2>11 DEF before, f
<1>5. Upto(N).at = at + M /\ Upto(N).vars = vars /\ Upto(0) = [at |-> at, vars |-> <<>>]
  <2>1. FirstOf(vars, 0) = <<>>
    BY DEF FirstOf
  <2>2. at + e[0] = at
    BY <1>2, <1>3
  <2>3. FirstOf(vars, N) = vars
    BY <1>1 DEF FirstOf
  <2> QED
    BY <1>3, <2>1, <2>2, <2>3
<1> HIDE DEF Upto
<1>6. ParseNextVar(s, end, Upto(N)) = {Upto(N)}
  <2>1. at + M > end
    BY <1>2
  <2> QED
    BY <1>5, <2>1 DEF ParseNextVar
<1>7. \A n \in 1 .. M : g[n] = UNION {ParseNextVar(s, end, b) : b \in g[n - 1]}
  <2> TAKE n \in 1 .. M
  <2>1. n \in 0 .. M /\ n - 1 \in 0 .. M
    BY <1>2
  <2>2. g[n] = {Upto(capped(n))} /\ g[n - 1] = {Upto(capped(n - 1))}
    BY <2>1
  <2> HIDE DEF g
  <2>3. ParseNextVar(s, end, Upto(capped(n - 1))) = {Upto(capped(n))}
    <3>1. CASE n <= N
      <4>1. n \in 1 .. N /\ capped(n) = n /\ capped(n - 1) = n - 1
        BY <1>1, <1>2, <3>1
      <4> QED
        BY <1>4, <4>1
    <3>2. CASE ~(n <= N)
      <4>1. capped(n) = N /\ capped(n - 1) = N
        BY <1>1, <1>2, <3>2
      <4> QED
        BY <1>6, <4>1
    <3> QED
      BY <3>1, <3>2
  <2> HIDE DEF capped
  <2> QED
    BY <2>2, <2>3
<1>8. g = [n \in 0 .. M |-> g[n]]
  OBVIOUS
<1>9. g[0] = {[at |-> at, vars |-> <<>>]}
  <2>1. 0 \in 0 .. M /\ capped(0) = 0
    BY <1>1, <1>2
  <2> QED
    BY <1>5, <2>1
<1>10. g[M] = {Upto(N)}
  <2>1. M \in 0 .. M /\ capped(M) = N
    BY <1>1, <1>2, <1>3
  <2> QED
    BY <2>1
<1> HIDE DEF g
<1>11. VarSteps(g, s, at, end, M)
  BY <1>7, <1>8, <1>9 DEF VarSteps
<1>12. ParseVarList(s, at, end) = {b.vars : b \in g[M]}
  <2>1. M = end + 1 - at /\ at \in Int
    BY <1>2
  <2> QED
    BY <1>2, <1>11, <2>1, VarListFold
<1> QED
  BY <1>5, <1>10, <1>12

\* The slots of snmp_pdu_realloc_rbuild: going back d variables is d slots further.
LEMMA SlotBack ==
    ASSUME NEW n \in Nat \ {0}, NEW d \in 0 .. CacheSize - 1, d < n
    PROVE  /\ CacheSlot(n) \in 1 .. CacheSize
           /\ CacheSlot(n - d) = IF CacheSlot(n) + d <= CacheSize THEN CacheSlot(n) + d
                                 ELSE CacheSlot(n) + d - CacheSize
<1> DEFINE C == CacheSize
           m == n - 1
           q == m \div C
           r == m % C
           p == (n - d) - 1
<1>1. C \in Nat \ {0}
  BY MessageAssumption
<1>2. m \in Int /\ p \in Int /\ p = m - d /\ d \in Nat /\ d < C
  BY <1>1
<1>3. q \in Int /\ r \in 0 .. C - 1 /\ m = q * C + r
  BY <1>1, <1>2, DivMod
<1>4. CacheSlot(n) = C - r /\ CacheSlot(n - d) = C - (p % C)
  BY DEF CacheSlot
<1> HIDE DEF C, m, q, r, p
<1>5. CASE d <= r
  <2> DEFINE u == r - d
  <2>1. u \in 0 .. C - 1
    BY <1>1, <1>2, <1>3, <1>5
  <2>2. p = q * C + u
    <3> DEFINE x == q * C
    <3>1. x \in Int
      BY <1>1, <1>3
    <3> HIDE DEF x
    <3>2. m = x + r
      BY <1>3 DEF x
    <3>3. p = x + u
      BY <1>2, <1>3, <3>1, <3>2
    <3> QED
      BY <3>3 DEF x
  <2> HIDE DEF u
  <2>3. p % C = u
    BY <1>1, <1>3, <2>1, <2>2, DivUnique
  <2> DEFINE a == CacheSlot(n)
             b == CacheSlot(n - d)
  <2>4. a = C - r /\ b = C - u /\ u = r - d
    BY <1>4, <2>3 DEF u
  <2> HIDE DEF a, b
  <2>5. a \in 1 .. C /\ b = IF a + d <= C THEN a + d ELSE a + d - C
    BY <1>1, <1>2, <1>3, <1>5, <2>4
  <2> QED
    BY <2>5 DEF a, b, C
<1>6. CASE ~(d <= r)
  <2> DEFINE u == r - d + C
             v == q - 1
  <2>1. u \in 0 .. C - 1 /\ v \in Int
    BY <1>1, <1>2, <1>3, <1>6
  <2>2. p = v * C + u
    <3> DEFINE x == q * C
    <3>1. x \in Int
      BY <1>1, <1>3
    <3>2. v * C = x - C
      BY <1>1, <1>3
    <3> HIDE DEF x, v
    <3>3. m = x + r
      BY <1>3 DEF x
    <3>4. p = (x - C) + u
      BY <1>1, <1>2, <1>3, <3>1, <3>3
    <3> QED
      BY <3>2, <3>4
  <2> HIDE DEF u, v
  <2>3. p % C = u
    BY <1>1, <2>1, <2>2, DivUnique
  <2> DEFINE a == CacheSlot(n)
             b == CacheSlot(n - d)
  <2>4. a = C - r /\ b = C - u /\ u = r - d + C
    BY <1>4, <2>3 DEF u
  <2> HIDE DEF a, b
  <2>5. a \in 1 .. C /\ b = IF a + d <= C THEN a + d ELSE a + d - C
    BY <1>1, <1>2, <1>3, <1>6, <2>4
  <2> QED
    BY <2>5 DEF a, b, C
<1> QED
  BY <1>5, <1>6

\* Of the last variables a slot holds one.
LEMMA HeldIs ==
    ASSUME NEW n \in Nat \ {0}, NEW d \in 0 .. CacheSize - 1, d < n,
           NEW slot, slot = CacheSlot(n - d)
    PROVE  Held(slot, n) = n - d
<1> DEFINE C == CacheSize
           a == CacheSlot(n)
<1>1. C \in Nat \ {0}
  BY MessageAssumption
<1>2. \A k \in 1 .. n : (CacheSlot(k) = slot /\ k + C > n) => k = n - d
  <2> SUFFICES ASSUME NEW k \in 1 .. n, CacheSlot(k) = slot, k + C > n PROVE k = n - d
    OBVIOUS
  <2> DEFINE c == n - k
  <2>1. c \in 0 .. CacheSize - 1 /\ c < n /\ n - c = k
    BY <1>1
  <2> HIDE DEF c
  <2>2. /\ CacheSlot(n) \in 1 .. CacheSize
        /\ CacheSlot(n - c) = IF CacheSlot(n) + c <= CacheSize THEN CacheSlot(n) + c
                              ELSE CacheSlot(n) + c - CacheSize
    BY <2>1, SlotBack
  <2>3. CacheSlot(n - d) = IF CacheSlot(n) + d <= CacheSize THEN CacheSlot(n) + d
                           ELSE CacheSlot(n) + d - CacheSize
    BY SlotBack
  <2>4. CacheSlot(n - c) = CacheSlot(n - d)
    BY <2>1
  <2>5. (IF a + c <= C THEN a + c ELSE a + c - C) = (IF a + d <= C THEN a + d ELSE a + d - C)
    BY <2>2, <2>3, <2>4
  <2>6. a \in 1 .. C /\ c \in 0 .. C - 1 /\ d \in 0 .. C - 1
    BY <2>1, <2>2
  <2> HIDE DEF a, C
  <2>7. c = d
    BY <1>1, <2>5, <2>6
  <2> QED
    BY <2>1, <2>7
<1>3. n - d \in 1 .. n /\ (n - d) + C > n
  BY <1>1
<1> QED
  BY <1>2, <1>3 DEF Held

\* The numbers down from top.
Down(top, len) == [j \in 1 .. len |-> top + 1 - j]

\* Going down from top in two parts.
LEMMA DownSplit ==
    ASSUME NEW top \in Nat, NEW a \in Nat, NEW b \in Nat
    PROVE  Down(top, a) \o Down(top - a, b) = Down(top, a + b)
<1> DEFINE s == Down(top, a)
           t == Down(top - a, b)
           u == Down(top, a + b)
<1>1. s \in [1 .. a -> Int] /\ t \in [1 .. b -> Int] /\ u \in [1 .. a + b -> Int]
  BY DEF Down
<1>2. s \in Seq(Int) /\ Len(s) = a /\ t \in Seq(Int) /\ Len(t) = b
  BY <1>1, FunctionIsSeq
<1>3. /\ \A i \in 1 .. a : s[i] = top + 1 - i
      /\ \A i \in 1 .. b : t[i] = (top - a) + 1 - i
      /\ \A i \in 1 .. a + b : u[i] = top + 1 - i
  BY DEF Down
<1> HIDE DEF s, t, u
<1> DEFINE w == s \o t
<1>4. /\ w \in Seq(Int) /\ Len(w) = a + b
      /\ \A i \in 1 .. a + b : w[i] = IF i <= a THEN s[i] ELSE t[i - a]
  <2>1. /\ w \in Seq(Int) /\ Len(w) = Len(s) + Len(t)
        /\ \A i \in 1 .. Len(s) + Len(t) : w[i] = IF i <= Len(s) THEN s[i] ELSE t[i - Len(s)]
    BY <1>2, ConcatProperties
  <2> HIDE DEF w
  <2> QED
    BY <1>2, <2>1
<1> HIDE DEF w
<1>5. w \in [1 .. a + b -> Int]
  BY <1>4, LenProperties
<1>6. \A i \in 1 .. a + b : w[i] = u[i]
  <2> TAKE i \in 1 .. a + b
  <2>1. CASE i <= a
    <3>1. i \in 1 .. a
      BY <2>1
    <3> QED
      BY <1>3, <1>4, <2>1, <3>1
  <2>2. CASE ~(i <= a)
    <3>1. i - a \in 1 .. b
      BY <2>2
    <3>2. t[i - a] = (top - a) + 1 - (i - a) /\ w[i] = t[i - a] /\ u[i] = top + 1 - i
      BY <1>3, <1>4, <2>2, <3>1
    <3>3. (top - a) + 1 - (i - a) = top + 1 - i
      OBVIOUS
    <3> QED
      BY <3>2, <3>3
  <2> QED
    BY <2>1, <2>2
<1>7. w = u
  BY <1>1, <1>5, <1>6
<1> QED
  BY <1>7 DEF w, s, t, u

\* A turn of snmp_pdu_realloc_rbuild: what the slots hold, from the last one on.
HeldFrom(from, to, n) == [j \in 1 .. to - from + 1 |-> Held(from + j - 1, n)]

\* One turn over the slots gives the variables held, the last of them first, and
\* the turn after it goes on with the one before the oldest.
LEMMA TurnIs ==
    ASSUME NEW n \in Nat \ {0}, NEW final, final = CacheSlot(n)
    PROVE  /\ n <= CacheSize => HeldFrom(final, CacheSize, n) = Down(n, n)
           /\ n > CacheSize =>
                 /\ HeldFrom(final, CacheSize, n) \o HeldFrom(1, final - 1, n) = Down(n, CacheSize)
                 /\ Held(OldestSlot(final), n) - 1 = n - CacheSize
<1> DEFINE C == CacheSize
           A == C - final + 1
<1>1. C \in Nat \ {0}
  BY MessageAssumption
<1>2. final \in 1 .. C
  <2>1. 0 \in 0 .. CacheSize - 1 /\ 0 < n
    BY <1>1
  <2> QED
    BY <2>1, SlotBack
<1>3. ASSUME NEW d \in 0 .. C - 1, d < n
      PROVE  Held(IF final + d <= C THEN final + d ELSE final + d - C, n) = n - d
  <2> DEFINE slot == IF final + d <= C THEN final + d ELSE final + d - C
  <2>1. slot = CacheSlot(n - d)
    BY <1>3, SlotBack
  <2> HIDE DEF slot
  <2>2. Held(slot, n) = n - d
    BY <1>3, <2>1, HeldIs
  <2> QED
    BY <2>2 DEF slot
<1>4. A \in Nat \ {0} /\ A <= C /\ final - 1 \in Nat /\ A + (final - 1) = C
  BY <1>1, <1>2
<1>5. A <= n => HeldFrom(final, C, n) = Down(n, A)
  <2> SUFFICES ASSUME A <= n
               PROVE  \A j \in 1 .. A : Held(final + j - 1, n) = n + 1 - j
    BY DEF HeldFrom, Down
  <2> TAKE j \in 1 .. A
  <2> DEFINE d == j - 1
  <2>1. d \in 0 .. C - 1 /\ d < n /\ final + d <= C
    BY <1>1, <1>2
  <2>2. final + d = final + j - 1 /\ n - d = n + 1 - j
    BY <1>2
  <2> HIDE DEF d
  <2>3. Held(final + d, n) = n - d
    BY <1>3, <2>1
  <2> QED
    BY <2>2, <2>3
<1>6. CASE n <= C
  <2>1. A = n
    <3>1. (n - 1) % C = n - 1
      <4>1. n - 1 \in 0 .. C - 1 /\ n - 1 = 0 * C + (n - 1)
        BY <1>1, <1>6
      <4> QED
        BY <1>1, <4>1, DivUnique, SMTT(30)
    <3>2. final = C - ((n - 1) % C)
      BY DEF CacheSlot
    <3>3. final = C - (n - 1)
      BY <3>1, <3>2
    <3> QED
      BY <1>1, <3>3
  <2>2. A <= n
    BY <2>1
  <2> HIDE DEF A
  <2> QED
    BY <1>1, <1>5, <1>6, <2>1, <2>2
<1>7. CASE n > C
  <2> DEFINE B == final - 1
  <2>1. A <= n /\ B \in Nat /\ n - A \in Nat
    BY <1>1, <1>4, <1>7
  <2>2. HeldFrom(1, B, n) = Down(n - A, B)
    <3> SUFFICES \A j \in 1 .. B : Held(j, n) = (n - A) + 1 - j
      <4>1. B - 1 + 1 = B
        BY <2>1
      <4>2. \A j \in 1 .. B : 1 + j - 1 = j
        BY <2>1
      <4> HIDE DEF B, A
      <4> QED
        BY <4>1, <4>2 DEF HeldFrom, Down
    <3> TAKE j \in 1 .. B
    <3> DEFINE d == A + j - 1
    <3>1. d \in 0 .. C - 1 /\ d < n /\ ~(final + d <= C) /\ final + d - C = j
      BY <1>1, <1>2, <1>7
    <3>2. n - d = (n - A) + 1 - j
      BY <1>4
    <3> HIDE DEF d, A
    <3>3. Held(j, n) = n - d
      BY <1>3, <3>1
    <3> QED
      BY <3>2, <3>3
  <2>3. Down(n, A) \o Down(n - A, B) = Down(n, C)
    <3>1. n \in Nat /\ A \in Nat /\ B \in Nat /\ A + B = C
      BY <1>4, <2>1
    <3> HIDE DEF A, B, C
    <3>2. Down(n, A) \o Down(n - A, B) = Down(n, A + B)
      BY <3>1, DownSplit
    <3> QED
      BY <3>1, <3>2
  <2>4. Held(OldestSlot(final), n) = n - (C - 1)
    <3> DEFINE d == C - 1
    <3>1. d \in 0 .. C - 1 /\ d < n
      BY <1>1, <1>7
    <3>2. OldestSlot(final) = IF final + d <= C THEN final + d ELSE final + d - C
      BY <1>1, <1>2 DEF OldestSlot
    <3> HIDE DEF d
    <3>3. Held(OldestSlot(final), n) = n - d
      BY <1>3, <3>1, <3>2
    <3> QED
      BY <3>3 DEF d
  <2>5. n - (C - 1) - 1 = n - C
    BY <1>1
  <2> HIDE DEF A
  <2> QED
    BY <1>1, <1>5, <1>7, <2>1, <2>2, <2>3, <2>4, <2>5, SMTT(30)
<1> QED
  BY <1>1, <1>6, <1>7

\* snmp_pdu_realloc_rbuild builds the variables from the last one to the first.
LEMMA BuildOrderIs ==
    ASSUME NEW count \in Nat
    PROVE  BuildOrder(count) = Down(count, count)
<1> DEFINE order[n \in 0 .. count] ==
               IF n = 0 THEN <<>>
               ELSE LET final == CacheSlot(n)
                        held(from, to) == [j \in 1 .. to - from + 1 |-> Held(from + j - 1, n)]
                    IN  IF n <= CacheSize THEN held(final, CacheSize)
                        ELSE held(final, CacheSize) \o held(1, final - 1)
                                 \o order[Held(OldestSlot(final), n) - 1]
           Turn(f, n) == IF n <= CacheSize THEN HeldFrom(CacheSlot(n), CacheSize, n)
                         ELSE HeldFrom(CacheSlot(n), CacheSize, n) \o HeldFrom(1, CacheSlot(n) - 1, n)
                                  \o f[Held(OldestSlot(CacheSlot(n)), n) - 1]
           Eqn(f) == [n \in 0 .. count |-> IF n = 0 THEN <<>> ELSE Turn(f, n)]
           g == [n \in 0 .. count |-> Down(n, n)]
<1>1. BuildOrder(count) = order[count]
  BY DEF BuildOrder
<1>2. order = CHOOSE f : f = Eqn(f)
  BY DEF HeldFrom
<1> HIDE DEF order
<1>3. CacheSize \in Nat \ {0}
  BY MessageAssumption
<1>4. ASSUME NEW f, NEW n \in 1 .. count, n > CacheSize => f[n - CacheSize] = g[n - CacheSize]
      PROVE  Turn(f, n) = Down(n, n)
  <2>1. n \in Nat \ {0}
    OBVIOUS
  <2> DEFINE final == CacheSlot(n)
  <2>2. /\ n <= CacheSize => HeldFrom(final, CacheSize, n) = Down(n, n)
        /\ n > CacheSize =>
              /\ HeldFrom(final, CacheSize, n) \o HeldFrom(1, final - 1, n) = Down(n, CacheSize)
              /\ Held(OldestSlot(final), n) - 1 = n - CacheSize
    BY <2>1, TurnIs
  <2>3. CASE n <= CacheSize
    BY <2>2, <2>3
  <2>4. CASE ~(n <= CacheSize)
    <3> DEFINE m == n - CacheSize
    <3>1. n > CacheSize /\ m \in 0 .. count /\ m \in Nat /\ CacheSize + m = n
      BY <1>3, <2>4
    <3>2. f[m] = Down(m, m)
      BY <1>4, <3>1
    <3>3. Turn(f, n) = Down(n, CacheSize) \o f[m]
      BY <2>2, <2>4, <3>1
    <3> HIDE DEF Turn
    <3>4. Down(n, CacheSize) \o Down(m, m) = Down(n, CacheSize + m)
      <4>1. n \in Nat /\ CacheSize \in Nat
        BY <1>3, <2>1
      <4>2. m \in Nat /\ n - CacheSize = m
        BY <3>1
      <4> HIDE DEF m
      <4>3. Down(n, CacheSize) \o Down(n - CacheSize, m) = Down(n, CacheSize + m)
        BY <4>1, <4>2, DownSplit, ZenonT(40)
      <4> QED
        BY <4>2, <4>3
    <3> HIDE DEF m
    <3> QED
      BY <3>1, <3>2, <3>3, <3>4
  <2> QED
    BY <2>3, <2>4
<1>5. g = Eqn(g)
  <2>1. ASSUME NEW n \in 0 .. count PROVE g[n] = IF n = 0 THEN <<>> ELSE Turn(g, n)
    <3>1. CASE n = 0
      <4>1. Down(0, 0) = <<>>
        BY DEF Down
      <4> HIDE DEF Turn
      <4> QED
        BY <3>1, <4>1
    <3>2. CASE n # 0
      <4>1. n \in 1 .. count
        BY <3>2
      <4>2. Turn(g, n) = Down(n, n)
        BY <1>4, <4>1
      <4> HIDE DEF Turn
      <4> QED
        BY <3>2, <4>2
    <3> QED
      BY <3>1, <3>2
  <2> HIDE DEF Turn
  <2>2. g = [n \in 0 .. count |-> g[n]]
    OBVIOUS
  <2> HIDE DEF g
  <2> QED
    BY <2>1, <2>2
<1>6. order = Eqn(order)
  <2> HIDE DEF Eqn
  <2> QED
    BY <1>2, <1>5
<1> DEFINE T == {n \in Nat : \A m \in 0 .. n : m <= count => order[m] = g[m]}
<1>7. 0 \in T
  <2>1. order[0] = <<>>
    <3> HIDE DEF Turn
    <3> QED
      BY <1>6
  <2>2. g[0] = <<>>
    BY DEF Down
  <2> HIDE DEF g
  <2>3. \A m \in 0 .. 0 : m = 0
    OBVIOUS
  <2> QED
    BY <2>1, <2>2, <2>3
<1>8. ASSUME NEW n \in Nat, n \in T PROVE n + 1 \in T
  <2> SUFFICES ASSUME NEW m \in 0 .. n + 1, m <= count PROVE order[m] = g[m]
    OBVIOUS
  <2>1. CASE m <= n
    <3>1. m \in 0 .. n
      BY <2>1
    <3> QED
      BY <1>8, <3>1
  <2>2. CASE m = n + 1
    <3>1. m \in 1 .. count /\ m # 0 /\ m \in 0 .. count
      BY <2>2
    <3>2. order[m] = Turn(order, m)
      <4> HIDE DEF Turn
      <4> QED
        BY <1>6, <3>1
    <3>3. m > CacheSize => order[m - CacheSize] = g[m - CacheSize]
      <4> SUFFICES ASSUME m > CacheSize PROVE order[m - CacheSize] = g[m - CacheSize]
        OBVIOUS
      <4> DEFINE k == m - CacheSize
      <4>1. k \in 0 .. n /\ k <= count
        BY <1>3, <2>2, <3>1
      <4> HIDE DEF k, g
      <4>2. order[k] = g[k]
        BY <1>8, <4>1
      <4> QED
        BY <4>2 DEF k
    <3>4. Turn(order, m) = Down(m, m)
      <4> HIDE DEF Turn, g
      <4> QED
        BY <1>4, <3>1, <3>3
    <3> QED
      BY <3>1, <3>2, <3>4
  <2> QED
    BY <2>1, <2>2
<1> HIDE DEF T, g
<1>9. count \in T
  BY <1>7, <1>8, SetInduction
<1>10. order[count] = g[count] /\ count \in 0 .. count
  BY <1>9 DEF T
<1> QED
  BY <1>1, <1>10 DEF g

\* Either builder leaves the variables in their order.
LEMMA VarListIs ==
    ASSUME NEW vars, AreVars(vars), NEW builder \in {"forward", "reverse"}
    PROVE  VarList(builder, vars) = FlattenSeq(VarBinds(builder, vars))
<1> DEFINE N == Len(vars)
           order == IF builder = "forward" THEN [k \in DOMAIN vars |-> k] ELSE Reverse(BuildOrder(N))
<1>1. N \in Nat /\ DOMAIN vars = 1 .. N
  BY DEF AreVars, IsList
<1>2. VarList(builder, vars) = FlattenSeq([j \in DOMAIN order |-> VarBind(builder, vars[order[j]])])
  BY DEF VarList
<1>3. order = [k \in 1 .. N |-> k]
  <2>1. CASE builder = "forward"
    BY <1>1, <2>1
  <2>2. CASE builder # "forward"
    <3> DEFINE d == Down(N, N)
    <3>1. d \in [1 .. N -> Int]
      BY <1>1 DEF Down
    <3>2. Len(d) = N
      BY <1>1, <3>1, FunctionIsSeq
    <3>3. order = Reverse(d)
      BY <1>1, <2>2, BuildOrderIs
    <3>4. Reverse(d) = [i \in 1 .. N |-> d[(N - i) + 1]]
      BY <3>2 DEF Reverse
    <3>5. \A i \in 1 .. N : d[(N - i) + 1] = i
      <4> HIDE DEF N
      <4>1. \A i \in 1 .. N : (N - i) + 1 \in 1 .. N /\ N + 1 - ((N - i) + 1) = i
        BY <1>1
      <4> QED
        BY <4>1 DEF Down
    <3> HIDE DEF d, order
    <3> QED
      BY <3>3, <3>4, <3>5
  <2> QED
    BY <2>1, <2>2
<1> HIDE DEF order, N
<1>4. [j \in DOMAIN order |-> VarBind(builder, vars[order[j]])] = [j \in 1 .. N |-> VarBind(builder, vars[j])]
  BY <1>3
<1>5. VarBinds(builder, vars) = [j \in 1 .. N |-> VarBind(builder, vars[j])]
  BY DEF VarBinds, N
<1> QED
  BY <1>2, <1>4, <1>5

-----------------------------------------------------------------------------
(* SnmpMessage: PDUs                                                       *)

\* What snmp_pdu_parse returns.
PduOf(m) == [command |-> m.command, fields |-> m.fields, vars |-> m.vars]

IsPdu(m) == m.command \in GET .. REPORT /\ AreValues(FieldKinds(m.command), m.fields) /\ AreVars(m.vars)

\* The fields of a PDU are of kinds that are told by their types alone.
LEMMA FieldKindsPlain ==
    ASSUME NEW command
    PROVE  FieldKinds(command) \in Seq(Plain) /\ FieldKinds(command) \in Seq(VarKind \cup {"flags"})
<1>1. {"objid", "ipaddress", "int", "timeticks"} \subseteq Plain
  BY DEF Plain, VarKind, Unsigned, Strings, Wide
<1>2. FieldKinds(command) \in Seq({"objid", "ipaddress", "int", "timeticks"})
  <2> DEFINE S == {"objid", "ipaddress", "int", "timeticks"}
  <2>1. <<"objid", "ipaddress", "int", "int", "timeticks">> \in Seq(S)
    OBVIOUS
  <2>2. <<"int", "int", "int">> \in Seq(S)
    OBVIOUS
  <2> HIDE DEF S
  <2> QED
    BY <2>1, <2>2 DEF FieldKinds, S
<1>3. Plain \subseteq VarKind \cup {"flags"}
  BY DEF Plain
<1> HIDE DEF Plain
<1> QED
  BY <1>1, <1>2, <1>3, SeqMonotonic

\* A list of values is a list of numbers in a packet.
LEMMA ValuesInt ==
    ASSUME NEW kinds \in Seq(Plain), NEW values, AreValues(kinds, values), NEW builder \in {"forward", "reverse"}
    PROVE  Objects(builder, kinds, values) \in Seq(Int)
<1>1. kinds \in Seq(VarKind \cup {"flags"})
  <2>1. Plain \subseteq VarKind \cup {"flags"}
    BY DEF Plain
  <2> QED
    BY <2>1, SeqMonotonic
<1>2. \A j \in 1 .. Len(kinds) : values[j] \in ValuesOf(kinds[j])
  BY DEF AreValues
<1> QED
  BY <1>1, <1>2, ObjectsAre

\* A PDU is its type, a length, the fields and the list of variables.
LEMMA PduFrame ==
    ASSUME NEW m, IsPdu(m), NEW builder \in {"forward", "reverse"},
           NEW x, x = Objects(builder, FieldKinds(m.command), m.fields),
           NEW y, y = FlattenSeq(VarBinds(builder, m.vars)),
           NEW z, z = Structure(builder, ASN_SEQUENCE, y)
    PROVE  /\ x \in Seq(Int) /\ y \in Seq(Int) /\ z \in Seq(Int)
           /\ Frame(z, ASN_SEQUENCE, y)
           /\ Frame(BuildPdu(builder, m), m.command, x \o z)
           /\ BuildPdu(builder, m) \in Seq(Int)
<1>1. x \in Seq(Int)
  BY FieldKindsPlain, ValuesInt DEF IsPdu
<1>2. y \in Seq(Int) /\ VarList(builder, m.vars) = y
  BY VarBindsAre, VarListIs DEF IsPdu
<1>3. ASN_SEQUENCE \in Int /\ m.command \in Int
  BY DEF ASN_SEQUENCE, IsPdu, GET, REPORT
<1>4. Frame(z, ASN_SEQUENCE, y) /\ z \in Seq(Int)
  <2>1. Frame(z, ASN_SEQUENCE, y)
    BY <1>2, <1>3, StructureFrame
  <2> QED
    BY <2>1, FrameInt
<1>5. x \o z \in Seq(Int)
  BY <1>1, <1>4, ConcatProperties
<1>6. BuildPdu(builder, m) = Structure(builder, m.command, x \o z)
  BY <1>2 DEF BuildPdu
<1>7. Frame(BuildPdu(builder, m), m.command, x \o z)
  BY <1>3, <1>5, <1>6, StructureFrame
<1> QED
  BY <1>1, <1>2, <1>4, <1>7, FrameInt

PduRead(m, s, at, end) == ParsePdu(s, at, end) = {PduOf(m)}

\* snmp_pdu_parse: a PDU is parsed as it was built.
LEMMA PduIsRead ==
    ASSUME NEW m, IsPdu(m), NEW builder \in {"forward", "reverse"}, NEW s, Buffer(s), NEW at, NEW end,
           Placed(BuildPdu(builder, m), s, at, end)
    PROVE  PduRead(m, s, at, end)
<1> DEFINE X == BuildPdu(builder, m)
           kinds == FieldKinds(m.command)
           x == Objects(builder, kinds, m.fields)
           y == FlattenSeq(VarBinds(builder, m.vars))
           z == Structure(builder, ASN_SEQUENCE, y)
           to == at + Len(X) - 1
           AnyVars(h, b, list) == {[command |-> h.type, fields |-> b.got, vars |-> vars] :
                                      vars \in ParseVarList(s, list.from, list.to)}
           AnyList(h, b) == UNION {AnyVars(h, b, list) : list \in HeaderOf(ASN_SEQUENCE, s, b.at, h.to)}
           AnyFields(h) == UNION {AnyList(h, b) : b \in ParseObjects(FieldKinds(h.type), s, h.from, h.to)}
           H == {h \in Header(s, at, end) : h.type \in GET .. REPORT}
<1>1. ParsePdu(s, at, end) = UNION {AnyFields(h) : h \in H}
  BY DEF ParsePdu, Then
<1>2. /\ x \in Seq(Int) /\ y \in Seq(Int) /\ z \in Seq(Int)
      /\ Frame(z, ASN_SEQUENCE, y) /\ Frame(X, m.command, x \o z)
  BY PduFrame
<1>3. /\ m.command \in GET .. REPORT /\ AreValues(kinds, m.fields) /\ AreVars(m.vars)
      /\ kinds \in Seq(Plain) /\ Placed(X, s, at, end)
  BY FieldKindsPlain DEF IsPdu
<1> HIDE DEF X, z
<1>4. PICK from : Opens(X, m.command, x \o z, s, at, end, from)
  BY <1>2, <1>3, HeaderOpens
<1>5. at + Len(X) \in Nat \ {0} /\ to \in Nat
  BY <1>2, <1>3, HeaderOpens
<1> DEFINE h == [type |-> m.command, from |-> from, to |-> to]
<1>6. Header(s, at, end) = {h} /\ Placed(x \o z, s, from, to) /\ from \in Nat \ {0}
      /\ from + Len(x \o z) = at + Len(X)
  BY <1>4 DEF Opens
<1> HIDE DEF to
<1>7. h.type = m.command /\ h.from = from /\ h.to = to
  OBVIOUS
<1> HIDE DEF h
<1>8. H = {h}
  BY <1>3, <1>6, <1>7
<1> DEFINE next == from + Len(x)
           b == [at |-> next, got |-> m.fields]
<1>9. /\ Placed(x, s, from, to) /\ Placed(z, s, next, to) /\ next \in Nat \ {0}
      /\ Len(z) \in Nat /\ next + Len(z) = at + Len(X)
  BY <1>2, <1>6, PartsPlaced
<1>10. ParseObjects(kinds, s, from, to) = {b}
  <2>1. ReadAs(kinds, m.fields, s, from, to, x)
    BY <1>3, <1>9, ObjectsPlaced
  <2> QED
    BY <2>1 DEF ReadAs
<1> HIDE DEF next
<1>11. b.at = next /\ b.got = m.fields
  OBVIOUS
<1> HIDE DEF b, x
<1>12. PICK at2 : Opens(z, ASN_SEQUENCE, y, s, next, to, at2)
  BY <1>2, <1>9, HeaderOpens
<1> DEFINE end2 == next + Len(z) - 1
           list == [type |-> ASN_SEQUENCE, from |-> at2, to |-> end2]
<1>13. Header(s, next, to) = {list} /\ Placed(y, s, at2, end2) /\ at2 + Len(y) = next + Len(z)
  BY <1>12 DEF Opens
<1>14. at2 + Len(y) = end2 + 1
  <2> DEFINE l == Len(z)
             k == next + l
  <2>1. k = at + Len(X) /\ k \in Int
    BY <1>5, <1>9
  <2>2. end2 = k - 1
    <3>1. l \in Nat /\ next \in Nat
      BY <1>9
    <3> HIDE DEF l
    <3>2. next + l - 1 = (next + l) - 1
      BY <3>1
    <3> QED
      BY <3>2 DEF l
  <2>3. at2 + Len(y) = k
    BY ONLY <1>13
  <2> HIDE DEF k, end2
  <2>4. k = (k - 1) + 1
    BY <2>1
  <2> QED
    BY <2>2, <2>3, <2>4
<1> HIDE DEF end2
<1>15. list.type = ASN_SEQUENCE /\ list.from = at2 /\ list.to = end2
  OBVIOUS
<1> HIDE DEF list
<1>16. HeaderOf(ASN_SEQUENCE, s, next, to) = {list}
  BY <1>13, <1>15 DEF HeaderOf
<1>17. ParseVarList(s, at2, end2) = {m.vars}
  BY <1>3, <1>13, <1>14, VarListRead
<1>18. AnyVars(h, b, list) = {PduOf(m)}
  BY <1>7, <1>11, <1>15, <1>17 DEF PduOf
<1> HIDE DEF AnyVars
<1>19. AnyList(h, b) = AnyVars(h, b, list)
  BY <1>7, <1>11, <1>16
<1> HIDE DEF AnyList
<1>20. AnyFields(h) = AnyList(h, b)
  BY <1>7, <1>10
<1> HIDE DEF AnyFields, H
<1> QED
  BY <1>1, <1>8, <1>18, <1>19, <1>20 DEF PduRead

-----------------------------------------------------------------------------
(* SnmpMessage: the parsers of a message                                   *)

\* What is entered or read at a position.
Enters(s, at, end, from, to) ==
    HeaderOf(ASN_SEQUENCE, s, at, end) = {[type |-> ASN_SEQUENCE, from |-> from, to |-> to]}

Reads(kinds, values, s, at, end, next) ==
    ParseObjects(kinds, s, at, end) = {[at |-> next, got |-> values]}

\* snmp_parse_version.
LEMMA VersionIs ==
    ASSUME NEW s, NEW end, NEW f, NEW v, NEW p, Enters(s, 1, end, f, end), Reads(<<"int">>, <<v>>, s, f, end, p)
    PROVE  VersionOf(s, end) = {v}
<1> DEFINE h == [type |-> ASN_SEQUENCE, from |-> f, to |-> end]
           b == [at |-> p, got |-> <<v>>]
           Got(x) == {y.got[1] : y \in ParseObjects(<<"int">>, s, x.from, x.to)}
<1>1. VersionOf(s, end) = UNION {Got(x) : x \in HeaderOf(ASN_SEQUENCE, s, 1, end)}
  BY DEF VersionOf, Then
<1>2. HeaderOf(ASN_SEQUENCE, s, 1, end) = {h} /\ ParseObjects(<<"int">>, s, f, end) = {b}
  BY DEF Enters, Reads
<1>3. h.from = f /\ h.to = end /\ b.got[1] = v
  OBVIOUS
<1> HIDE DEF h, b
<1>4. Got(h) = {v}
  BY <1>2, <1>3
<1> HIDE DEF Got
<1> QED
  BY <1>1, <1>2, <1>4

\* Without a header there is no version.
LEMMA VersionMissing ==
    ASSUME NEW s, NEW end, HeaderOf(ASN_SEQUENCE, s, 1, end) = {}
    PROVE  VersionOf(s, end) = {}
  BY DEF VersionOf, Then

\* snmp_comstr_parse and the PDU.
LEMMA CommunityIs ==
    ASSUME NEW s, NEW end, NEW f, NEW v, NEW a, NEW p, NEW m, NEW sv, Enters(s, 1, end, f, end),
           Reads(<<"int", "string">>, <<v, a>>, s, f, end, p), PduRead(m, s, p, end)
    PROVE  ParseCommunityMessage(s, end, sv) =
               IF sv \notin {DefaultVersion, v} THEN {} ELSE {Understood(v, <<a>>, PduOf(m))}
<1> DEFINE h == [type |-> ASN_SEQUENCE, from |-> f, to |-> end]
           b == [at |-> p, got |-> <<v, a>>]
           Is(x, y) == IF sv \notin {DefaultVersion, y.got[1]} THEN {}
                       ELSE {Understood(y.got[1], <<y.got[2]>>, pdu) : pdu \in ParsePdu(s, y.at, x.to)}
           Each(x) == UNION {Is(x, y) : y \in ParseObjects(<<"int", "string">>, s, x.from, x.to)}
<1>1. ParseCommunityMessage(s, end, sv) = UNION {Each(x) : x \in HeaderOf(ASN_SEQUENCE, s, 1, end)}
  BY DEF ParseCommunityMessage, Then
<1>2. /\ HeaderOf(ASN_SEQUENCE, s, 1, end) = {h} /\ ParseObjects(<<"int", "string">>, s, f, end) = {b}
      /\ ParsePdu(s, p, end) = {PduOf(m)}
  BY DEF Enters, Reads, PduRead
<1>3. h.from = f /\ h.to = end /\ b.got[1] = v /\ b.got[2] = a /\ b.at = p
  OBVIOUS
<1> HIDE DEF h, b
<1>4. Is(h, b) = IF sv \notin {DefaultVersion, v} THEN {} ELSE {Understood(v, <<a>>, PduOf(m))}
  BY <1>2, <1>3
<1> HIDE DEF Is
<1>5. Each(h) = Is(h, b)
  BY <1>2, <1>3
<1> HIDE DEF Each
<1> QED
  BY <1>1, <1>2, <1>4, <1>5

\* Without version and community there is no message of versions 1 and 2c.
LEMMA CommunityRefused ==
    ASSUME NEW s, NEW end, NEW f, NEW sv, Enters(s, 1, end, f, end),
           ParseObjects(<<"int", "string">>, s, f, end) = {}
    PROVE  ParseCommunityMessage(s, end, sv) = {}
<1> DEFINE h == [type |-> ASN_SEQUENCE, from |-> f, to |-> end]
           Is(x, y) == IF sv \notin {DefaultVersion, y.got[1]} THEN {}
                       ELSE {Understood(y.got[1], <<y.got[2]>>, pdu) : pdu \in ParsePdu(s, y.at, x.to)}
           Each(x) == UNION {Is(x, y) : y \in ParseObjects(<<"int", "string">>, s, x.from, x.to)}
<1>1. ParseCommunityMessage(s, end, sv) = UNION {Each(x) : x \in HeaderOf(ASN_SEQUENCE, s, 1, end)}
  BY DEF ParseCommunityMessage, Then
<1>2. HeaderOf(ASN_SEQUENCE, s, 1, end) = {h}
  BY DEF Enters
<1>3. h.from = f /\ h.to = end
  OBVIOUS
<1> HIDE DEF h, Is
<1>4. Each(h) = {}
  BY <1>3
<1> HIDE DEF Each
<1> QED
  BY <1>1, <1>2, <1>4

\* What snmpv3_parse makes of the fields.
V3Fields(s, end, v, g, a4, c, p) ==
    IF ~GlobalDataValid(g[1], g[2], g[3], g[4]) THEN {}
    ELSE {Understood(v, <<g[1], LevelOf(g[3]), g[4], a4, c[1], c[2], Flag(g[3], 4)>>, pdu) :
             pdu \in ParsePdu(s, p, end)}

\* snmpv3_parse: as far as the version, and then.
GlobalKinds == <<"int", "int", "flags", "int">>

V3After(s, h, version) ==
    UNION {UNION {UNION {UNION {UNION {
        V3Fields(s, h.to, version.got[1], global.got, security.got[1], context.got, context.at) :
            context \in ParseObjects(<<"string", "string">>, s, scoped.from, h.to)} :
            scoped \in HeaderOf(ASN_SEQUENCE, s, security.at, h.to)} :
            security \in ParseObjects(<<"string">>, s, global.at, h.to)} :
            global \in ParseObjects(GlobalKinds, s, header.from, h.to)} :
            header \in HeaderOf(ASN_SEQUENCE, s, version.at, h.to)}

\* snmpv3_parse begins with a header and a version.
LEMMA V3Unfolded ==
    ASSUME NEW s, NEW end
    PROVE  ParseV3Message(s, end) =
               UNION {UNION {V3After(s, h, version) :
                                version \in ParseObjects(<<"int">>, s, h.from, h.to)} :
                         h \in HeaderOf(ASN_SEQUENCE, s, 1, end)}
  BY DEF ParseV3Message, Then, V3After, V3Fields, GlobalKinds

\* Only one header and one version are found, so the rest is parsed once.
LEMMA V3Begins ==
    ASSUME NEW s, NEW end, NEW f, NEW v, NEW p, Enters(s, 1, end, f, end), Reads(<<"int">>, <<v>>, s, f, end, p)
    PROVE  ParseV3Message(s, end) = V3After(s, [type |-> ASN_SEQUENCE, from |-> f, to |-> end],
                                            [at |-> p, got |-> <<v>>])
<1> DEFINE h == [type |-> ASN_SEQUENCE, from |-> f, to |-> end]
           b == [at |-> p, got |-> <<v>>]
           Each(x) == UNION {V3After(s, x, y) : y \in ParseObjects(<<"int">>, s, x.from, x.to)}
<1>1. ParseV3Message(s, end) = UNION {Each(x) : x \in HeaderOf(ASN_SEQUENCE, s, 1, end)}
  BY V3Unfolded
<1>2. HeaderOf(ASN_SEQUENCE, s, 1, end) = {h} /\ ParseObjects(<<"int">>, s, f, end) = {b}
  BY DEF Enters, Reads
<1>3. h.from = f /\ h.to = end
  OBVIOUS
<1> HIDE DEF h, b
<1>4. Each(h) = V3After(s, h, b)
  BY <1>2, <1>3
<1> HIDE DEF Each
<1> QED
  BY <1>1, <1>2, <1>4 DEF h, b

\* snmpv3_parse of a message of another version: there are no global data.
LEMMA V3Refused ==
    ASSUME NEW s, NEW end, NEW f, NEW v, NEW p, Enters(s, 1, end, f, end),
           Reads(<<"int">>, <<v>>, s, f, end, p), HeaderOf(ASN_SEQUENCE, s, p, end) = {}
    PROVE  ParseV3Message(s, end) = {}
<1> DEFINE h == [type |-> ASN_SEQUENCE, from |-> f, to |-> end]
           b == [at |-> p, got |-> <<v>>]
<1>1. ParseV3Message(s, end) = V3After(s, h, b)
  BY V3Begins
<1>2. h.to = end /\ b.at = p
  OBVIOUS
<1> HIDE DEF h, b
<1>3. V3After(s, h, b) = {}
  BY <1>2 DEF V3After
<1> QED
  BY <1>1, <1>3

\* snmpv3_parse, when everything is where it is expected.
LEMMA V3Is ==
    ASSUME NEW s, NEW end, NEW f, NEW v, NEW p2, NEW f2, NEW t2, NEW g, NEW p3, NEW a4, NEW p4,
           NEW f3, NEW t3, NEW c, NEW p5,
           Enters(s, 1, end, f, end), Reads(<<"int">>, <<v>>, s, f, end, p2),
           Enters(s, p2, end, f2, t2), Reads(GlobalKinds, g, s, f2, end, p3),
           Reads(<<"string">>, <<a4>>, s, p3, end, p4), Enters(s, p4, end, f3, t3),
           Reads(<<"string", "string">>, c, s, f3, end, p5)
    PROVE  ParseV3Message(s, end) = V3Fields(s, end, v, g, a4, c, p5)
<1> DEFINE h == [type |-> ASN_SEQUENCE, from |-> f, to |-> end]
           version == [at |-> p2, got |-> <<v>>]
           header == [type |-> ASN_SEQUENCE, from |-> f2, to |-> t2]
           global == [at |-> p3, got |-> g]
           security == [at |-> p4, got |-> <<a4>>]
           scoped == [type |-> ASN_SEQUENCE, from |-> f3, to |-> t3]
           context == [at |-> p5, got |-> c]
           Is(gl, se, cx) == V3Fields(s, h.to, version.got[1], gl.got, se.got[1], cx.got, cx.at)
           AnyContext(gl, se, sc) == UNION {Is(gl, se, cx) :
                                               cx \in ParseObjects(<<"string", "string">>, s, sc.from, h.to)}
           AnyScoped(gl, se) == UNION {AnyContext(gl, se, sc) :
                                          sc \in HeaderOf(ASN_SEQUENCE, s, se.at, h.to)}
           AnySecurity(gl) == UNION {AnyScoped(gl, se) : se \in ParseObjects(<<"string">>, s, gl.at, h.to)}
           AnyGlobal(hd) == UNION {AnySecurity(gl) : gl \in ParseObjects(GlobalKinds, s, hd.from, h.to)}
<1>1. ParseV3Message(s, end) = V3After(s, h, version)
  BY V3Begins
<1>2. V3After(s, h, version) = UNION {AnyGlobal(hd) : hd \in HeaderOf(ASN_SEQUENCE, s, version.at, h.to)}
  BY DEF V3After
<1>3. /\ HeaderOf(ASN_SEQUENCE, s, p2, end) = {header}
      /\ ParseObjects(GlobalKinds, s, f2, end) = {global}
      /\ ParseObjects(<<"string">>, s, p3, end) = {security}
      /\ HeaderOf(ASN_SEQUENCE, s, p4, end) = {scoped}
      /\ ParseObjects(<<"string", "string">>, s, f3, end) = {context}
  BY DEF Enters, Reads
<1>4. /\ h.to = end /\ version.at = p2 /\ version.got[1] = v /\ header.from = f2
      /\ global.at = p3 /\ global.got = g /\ security.at = p4 /\ security.got[1] = a4
      /\ scoped.from = f3 /\ context.at = p5 /\ context.got = c
  OBVIOUS
<1> HIDE DEF h, version, header, global, security, scoped, context
<1>5. Is(global, security, context) = V3Fields(s, end, v, g, a4, c, p5)
  BY <1>4
<1> HIDE DEF Is
<1>6. AnyContext(global, security, scoped) = Is(global, security, context)
  BY <1>3, <1>4
<1> HIDE DEF AnyContext
<1>7. AnyScoped(global, security) = AnyContext(global, security, scoped)
  BY <1>3, <1>4
<1> HIDE DEF AnyScoped
<1>8. AnySecurity(global) = AnyScoped(global, security)
  BY <1>3, <1>4
<1> HIDE DEF AnySecurity
<1>9. AnyGlobal(header) = AnySecurity(global)
  BY <1>3, <1>4
<1> HIDE DEF AnyGlobal
<1>10. UNION {AnyGlobal(hd) : hd \in HeaderOf(ASN_SEQUENCE, s, version.at, h.to)} = AnyGlobal(header)
  BY <1>3, <1>4
<1> QED
  BY <1>1, <1>2, <1>5, <1>6, <1>7, <1>8, <1>9, <1>10

-----------------------------------------------------------------------------
(* SnmpMessage: where structures and values are placed                     *)

\* A structure is entered, and its contents c begin at from.
Entered(c, s, at, end, from, n) ==
    /\ from \in Nat \ {0} /\ from + Len(c) = at + n
    /\ Enters(s, at, end, from, at + n - 1) /\ Placed(c, s, from, at + n - 1)

\* A sequence that is placed before the end is entered.
LEMMA EntersIs ==
    ASSUME NEW c, NEW x, Frame(x, ASN_SEQUENCE, c), NEW s, Buffer(s), NEW at, NEW end, Placed(x, s, at, end)
    PROVE  /\ \E from : Entered(c, s, at, end, from, Len(x))
           /\ at + Len(x) \in Nat \ {0}
<1>1. PICK from : Opens(x, ASN_SEQUENCE, c, s, at, end, from)
  BY HeaderOpens
<1> DEFINE to == at + Len(x) - 1
           h == [type |-> ASN_SEQUENCE, from |-> from, to |-> to]
<1>2. /\ from \in Nat \ {0} /\ from + Len(c) = at + Len(x) /\ Header(s, at, end) = {h}
      /\ Placed(c, s, from, to)
  BY <1>1 DEF Opens
<1>3. h.type = ASN_SEQUENCE
  OBVIOUS
<1> HIDE DEF h, to
<1>4. HeaderOf(ASN_SEQUENCE, s, at, end) = {h}
  BY <1>2, <1>3 DEF HeaderOf
<1>5. Enters(s, at, end, from, to)
  BY <1>4 DEF Enters, h
<1>6. Entered(c, s, at, end, from, Len(x))
  BY <1>2, <1>5 DEF Entered, to
<1>7. at + Len(x) \in Nat \ {0}
  BY HeaderOpens
<1> QED
  BY <1>6, <1>7

\* What is not a sequence, or has not arrived as a whole, is not entered.
LEMMA NotEntered ==
    ASSUME NEW t, NEW c, NEW x, Frame(x, t, c), t # ASN_SEQUENCE, NEW s, Buffer(s), NEW at, NEW end,
           Placed(x, s, at, end)
    PROVE  HeaderOf(ASN_SEQUENCE, s, at, end) = {}
<1>1. PICK from : Opens(x, t, c, s, at, end, from)
  BY HeaderOpens
<1>2. \A h \in Header(s, at, end) : h.type = t
  BY <1>1 DEF Opens
<1> QED
  BY <1>2 DEF HeaderOf

\* A packet stands at its own beginning, and before its own end.
LEMMA Whole ==
    ASSUME NEW s \in Seq(Int)
    PROVE  Placed(s, s, 1, Len(s)) /\ StandsAt(s, s, 1)
<1> DEFINE n == Len(s)
<1>1. n \in Nat
  BY LenProperties
<1> HIDE DEF n
<1>2. 1 + n - 1 <= n /\ n \in Int /\ 1 \in Nat \ {0} /\ \A j \in 1 .. n : 1 + j - 1 = j
  BY <1>1
<1>3. StandsAt(s, s, 1)
  BY <1>2 DEF StandsAt, n
<1> QED
  BY <1>1, <1>2, <1>3 DEF Placed, n

\* asn_parse_sequence refuses a packet of which something is missing.
LEMMA TruncatedIs ==
    ASSUME NEW t, NEW c, NEW s, Frame(s, t, c), Buffer(s), NEW end \in Int, end < Len(s)
    PROVE  HeaderOf(ASN_SEQUENCE, s, 1, end) = {}
<1>1. s \in Seq(Int) /\ Fits(Len(s)) /\ StandsAt(s, s, 1) /\ 1 \in Nat \ {0} /\ Len(s) \in Nat
  BY Whole, LenProperties DEF Buffer
<1>2. PICK from \in Nat \ {0} : Found(s, t, c, s, 1, end, from)
  BY <1>1, HeaderIs
<1> DEFINE n == Len(s)
<1>3. n \in Nat /\ end < n
  BY <1>1
<1> HIDE DEF n
<1>4. 1 + n - 1 > end
  BY <1>3
<1>5. Header(s, 1, end) = {}
  BY <1>2, <1>4 DEF Found, n
<1> QED
  BY <1>5 DEF HeaderOf

\* Objects are read.
LEMMA ValuesRead ==
    ASSUME NEW kinds \in Seq(Plain), NEW values, AreValues(kinds, values),
           NEW builder \in {"forward", "reverse"}, NEW x, x = Objects(builder, kinds, values),
           NEW s, Buffer(s), NEW at, NEW end, Placed(x, s, at, end)
    PROVE  Reads(kinds, values, s, at, end, at + Len(x))
<1>1. ReadAs(kinds, values, s, at, end, x)
  BY ObjectsPlaced
<1> QED
  BY <1>1 DEF ReadAs, Reads

\* One object is read as its value.
LEMMA OneRead ==
    ASSUME NEW kind \in Plain, NEW v \in ValuesOf(kind), NEW builder \in {"forward", "reverse"},
           NEW x, x = Object(builder, kind, v), NEW s, Buffer(s), NEW at, NEW end, Placed(x, s, at, end)
    PROVE  Reads(<<kind>>, <<v>>, s, at, end, at + Len(x))
<1> DEFINE kinds == <<kind>>
           values == <<v>>
<1>1. kinds \in Seq(Plain) /\ AreValues(kinds, values)
  BY DEF AreValues, IsList
<1>2. x = Objects(builder, kinds, values)
  <2>1. kind \in VarKind \cup {"flags"}
    BY DEF Plain
  <2> QED
    BY <2>1, ObjectIsSeq
<1> HIDE DEF kinds, values
<1>3. Reads(kinds, values, s, at, end, at + Len(x))
  BY <1>1, <1>2, ValuesRead
<1> QED
  BY <1>3 DEF kinds, values

\* Two objects are read as their values.
LEMMA TwoRead ==
    ASSUME NEW k \in Plain, NEW v \in ValuesOf(k), NEW l \in Plain, NEW w \in ValuesOf(l),
           NEW builder \in {"forward", "reverse"},
           NEW x, x = Object(builder, k, v) \o Object(builder, l, w),
           NEW s, Buffer(s), NEW at, NEW end, Placed(x, s, at, end)
    PROVE  Reads(<<k, l>>, <<v, w>>, s, at, end, at + Len(x))
<1> DEFINE kinds == <<k, l>>
           values == <<v, w>>
<1>1. kinds \in Seq(Plain)
  OBVIOUS
<1>2. AreValues(kinds, values)
  <2>1. Len(kinds) = 2 /\ values = [j \in 1 .. 2 |-> values[j]]
    OBVIOUS
  <2>2. kinds[1] = k /\ kinds[2] = l /\ values[1] = v /\ values[2] = w
    OBVIOUS
  <2> HIDE DEF kinds, values
  <2>3. \A j \in 1 .. 2 : j = 1 \/ j = 2
    OBVIOUS
  <2> QED
    BY <2>1, <2>2, <2>3 DEF AreValues, IsList
<1>3. x = Objects(builder, kinds, values)
  <2>1. k \in VarKind \cup {"flags"} /\ l \in VarKind \cup {"flags"}
    BY DEF Plain
  <2> QED
    BY <2>1, TwoObjects
<1> HIDE DEF kinds, values
<1>4. Reads(kinds, values, s, at, end, at + Len(x))
  BY <1>1, <1>2, <1>3, ValuesRead
<1> QED
  BY <1>4 DEF kinds, values

\* An object of another type than the second one that is expected.
LEMMA SecondRefused ==
    ASSUME NEW k \in Plain, NEW v \in ValuesOf(k), NEW l, NEW builder \in {"forward", "reverse"},
           NEW x, x = Object(builder, k, v), NEW t, t \notin Accepted(l), NEW c, NEW y, Frame(y, t, c),
           NEW s, Buffer(s), NEW at, NEW end, Placed(x, s, at, end), Placed(y, s, at + Len(x), end)
    PROVE  ParseObjects(<<k, l>>, s, at, end) = {}
<1> DEFINE kinds == <<k, l>>
           none == [at |-> at, got |-> <<>>]
           p == at + Len(x)
           one == [at |-> p, got |-> <<v>>]
           g == [j \in 0 .. 2 |-> IF j = 0 THEN {none} ELSE IF j = 1 THEN {one} ELSE {}]
<1>1. Len(kinds) = 2 /\ kinds[1] = k /\ kinds[2] = l
  OBVIOUS
<1>2. none.at = at /\ none.got = <<>> /\ one.at = p /\ Append(none.got, v) = <<v>>
  OBVIOUS
<1>3. /\ s \in Seq(Int) /\ Fits(Len(s)) /\ at \in Nat \ {0} /\ end \in Int
      /\ StandsAt(x, s, at) /\ at + Len(x) - 1 <= end /\ p \in Nat \ {0} /\ StandsAt(y, s, p)
  BY DEF Buffer, Placed
<1> HIDE DEF none
<1>4. ParseObject(k, s, end, none) = {one}
  <2>1. /\ none.at \in Nat \ {0} /\ StandsAt(Object(builder, k, v), s, none.at)
        /\ none.at + Len(Object(builder, k, v)) - 1 <= end
    BY <1>2, <1>3
  <2>2. ParseObject(k, s, end, none) =
            {[at |-> none.at + Len(Object(builder, k, v)), got |-> Append(none.got, v)]}
    BY <1>3, <2>1, ObjectRead, SMTT(30)
  <2> QED
    BY <1>2, <2>2
<1> HIDE DEF one, p
<1>5. ParseObject(l, s, end, one) = {}
  <2>1. one.at \in Nat \ {0} /\ StandsAt(y, s, one.at)
    BY <1>2, <1>3
  <2> QED
    BY <1>3, <2>1, ObjectRefused
<1>6. g[0] = {none} /\ g[1] = {one} /\ g[2] = {} /\ g = [j \in 0 .. 2 |-> g[j]]
  OBVIOUS
<1> HIDE DEF g, kinds
<1>7. ObjectSteps(g, kinds, s, at, end)
  <2>1. \A j \in 1 .. 2 : j = 1 \/ j = 2
    OBVIOUS
  <2>2. g[1] = UNION {ParseObject(kinds[1], s, end, b) : b \in g[1 - 1]}
    BY <1>1, <1>4, <1>6
  <2>3. g[2] = UNION {ParseObject(kinds[2], s, end, b) : b \in g[2 - 1]}
    BY <1>1, <1>5, <1>6
  <2> QED
    BY <1>1, <1>6, <2>1, <2>2, <2>3 DEF ObjectSteps, none
<1>8. ParseObjects(kinds, s, at, end) = g[Len(kinds)]
  <2>1. Len(kinds) \in Nat
    BY <1>1
  <2> QED
    BY ONLY <1>7, <2>1, ObjectsFold
<1> QED
  BY <1>1, <1>6, <1>8 DEF kinds

-----------------------------------------------------------------------------
(* SnmpMessage: messages of each version                                   *)

\* A message that can be built is of values that can be.
LEMMA MessageIs ==
    ASSUME NEW m, IsMessage(m)
    PROVE  /\ m = Understood(m.version, m.admin, m) /\ PduOf(m) = PduOf(Understood(m.version, m.admin, m))
           /\ m.version \in {VERSION_1, VERSION_2c, VERSION_3} /\ m.version \in ValuesOf("int")
           /\ IsPdu(m) /\ IsAdmin(m.version, m.admin)
<1>1. 80 <= Word /\ Word \in Nat
  BY WordIs
<1>2. {0, 1, 3} \subseteq Long
  <2> DEFINE w == Word
             h == w \div 2
  <2>1. h \in Int /\ h >= 40
    <3>1. w \in Int /\ w >= 80 /\ 2 \in Nat \ {0}
      BY <1>1
    <3> DEFINE r == w % 2
    <3>2. h \in Int /\ r \in 0 .. 1 /\ w = h * 2 + r
      BY <3>1, DivMod
    <3> HIDE DEF w, h, r
    <3> QED
      BY <3>1, <3>2
  <2>2. Long = -h .. h - 1
    BY DEF Long
  <2> HIDE DEF h
  <2> QED
    BY <2>1, <2>2
<1>3. ValuesOf("int") = Long
  BY DEF ValuesOf, Unsigned
<1>4. m.version \in {0, 1, 3}
  BY DEF IsMessage, VERSION_1, VERSION_2c, VERSION_3
<1>5. m = Understood(m.version, m.admin, m)
  BY DEF IsMessage
<1>6. IsPdu(m)
  BY DEF IsPdu, IsMessage, AreVars
<1> QED
  BY <1>2, <1>3, <1>4, <1>5, <1>6 DEF IsMessage

\* The packets of versions 1 and 2c.
LEMMA CommunityFrame ==
    ASSUME NEW m, IsMessage(m), m.version # VERSION_3, NEW builder \in {"forward", "reverse"},
           NEW x, x = Object(builder, "int", m.version),
           NEW y, y = Object(builder, "string", m.admin[1]),
           NEW p, p = BuildPdu(builder, m)
    PROVE  /\ x \in Seq(Int) /\ y \in Seq(Int) /\ p \in Seq(Int) /\ x \o y \in Seq(Int)
           /\ Frame(y, 4, ObjectContents(builder, "string", m.admin[1]))
           /\ Frame(Packet(builder, m), ASN_SEQUENCE, (x \o y) \o p)
           /\ m.version \in ValuesOf("int") /\ m.admin[1] \in ValuesOf("string")
           /\ m.admin = <<m.admin[1]>> /\ "int" \in Plain /\ "string" \in Plain
<1>1. "int" \in Plain /\ "string" \in Plain
  BY DEF Plain, VarKind, Strings, Wide
<1>2. m.version \in ValuesOf("int") /\ IsPdu(m) /\ IsAdmin(m.version, m.admin)
  BY MessageIs
<1>3. m.admin[1] \in ValuesOf("string") /\ m.admin = <<m.admin[1]>>
  <2>1. IsList(m.admin, 1) /\ m.admin[1] \in Nat
    BY <1>2 DEF IsAdmin
  <2>2. ValuesOf("string") = Nat
    BY DEF ValuesOf, Unsigned
  <2> QED
    BY <2>1, <2>2 DEF IsList
<1>4. "int" \in VarKind \cup {"flags"} /\ "string" \in VarKind \cup {"flags"}
  BY <1>1 DEF Plain
<1>5. x \in Seq(Int) /\ y \in Seq(Int)
  BY <1>2, <1>3, <1>4, ObjectIsSeq
<1>6. p \in Seq(Int)
  BY <1>2, PduFrame
<1>7. x \o y \in Seq(Int) /\ (x \o y) \o p \in Seq(Int)
  <2>1. x \o y \in Seq(Int)
    BY <1>5, ConcatProperties
  <2> QED
    BY <1>6, <2>1, ConcatProperties
<1>8. Packet(builder, m) = Structure(builder, ASN_SEQUENCE, (x \o y) \o p)
  <2>1. Objects(builder, <<"int", "string">>, <<m.version, m.admin[1]>>) = x \o y
    BY <1>2, <1>3, <1>4, TwoObjects
  <2> QED
    BY <2>1 DEF Packet
<1>9. Frame(Packet(builder, m), ASN_SEQUENCE, (x \o y) \o p)
  <2>1. ASN_SEQUENCE \in Int
    BY DEF ASN_SEQUENCE
  <2> QED
    BY <1>7, <1>8, <2>1, StructureFrame
<1>10. Frame(y, 4, ObjectContents(builder, "string", m.admin[1]))
  <2>1. TypeOf("string") = 4
    BY DEF TypeOf
  <2> QED
    BY <1>3, <1>4, <2>1, ObjectFrame
<1> QED
  BY <1>1, <1>2, <1>3, <1>5, <1>6, <1>7, <1>9, <1>10

\* What each parser makes of a whole packet of version 1 or 2c.
CommunityParsed(m, s) ==
    /\ VersionOf(s, Len(s)) = {m.version}
    /\ ParseV3Message(s, Len(s)) = {}
    /\ \A sv : ParseCommunityMessage(s, Len(s), sv) =
                   IF sv \notin {DefaultVersion, m.version} THEN {}
                   ELSE {Understood(m.version, m.admin, PduOf(m))}

\* A message of version 1 or 2c is parsed as it was built.
LEMMA CommunityIsParsed ==
    ASSUME NEW m, IsMessage(m), m.version # VERSION_3, NEW builder \in {"forward", "reverse"},
           NEW s, s = Packet(builder, m), Fits(Len(s))
    PROVE  CommunityParsed(m, s)
<1> DEFINE v == m.version
           a == m.admin[1]
           x == Object(builder, "int", v)
           y == Object(builder, "string", a)
           p == BuildPdu(builder, m)
           c == (x \o y) \o p
           t == ObjectContents(builder, "string", a)
           n == Len(s)
<1>1. /\ x \in Seq(Int) /\ y \in Seq(Int) /\ p \in Seq(Int) /\ x \o y \in Seq(Int)
      /\ Frame(y, 4, t) /\ Frame(s, ASN_SEQUENCE, c)
      /\ v \in ValuesOf("int") /\ a \in ValuesOf("string")
      /\ m.admin = <<a>> /\ "int" \in Plain /\ "string" \in Plain
  BY CommunityFrame
<1>2. IsPdu(m)
  BY MessageIs
<1> HIDE DEF t, v, a
<1>3. s \in Seq(Int) /\ Buffer(s) /\ Placed(s, s, 1, n) /\ n \in Nat
  <2>1. s \in Seq(Int)
    BY <1>1, FrameInt
  <2> QED
    BY <2>1, Whole, LenProperties DEF Buffer
<1> HIDE DEF n
<1>4. PICK f : Entered(c, s, 1, n, f, n)
  <2>1. \E f : Entered(c, s, 1, n, f, Len(s))
    BY <1>1, <1>3, EntersIs
  <2> QED
    BY <2>1 DEF n
<1>5. 1 + n - 1 = n
  BY <1>3
<1>6. Enters(s, 1, n, f, n) /\ Placed(c, s, f, n)
  BY <1>4, <1>5 DEF Entered
<1>7. Placed(x \o y, s, f, n) /\ Placed(p, s, f + Len(x \o y), n)
  BY <1>1, <1>3, <1>6, PartsPlaced
<1>8. Placed(x, s, f, n) /\ Placed(y, s, f + Len(x), n)
  BY <1>1, <1>3, <1>7, PartsPlaced
<1>9. Reads(<<"int">>, <<v>>, s, f, n, f + Len(x))
  BY <1>1, <1>3, <1>8, OneRead
<1>10. Reads(<<"int", "string">>, <<v, a>>, s, f, n, f + Len(x \o y))
  BY <1>1, <1>3, <1>7, TwoRead
<1>11. PduRead(m, s, f + Len(x \o y), n)
  BY <1>2, <1>3, <1>7, PduIsRead
<1>12. HeaderOf(ASN_SEQUENCE, s, f + Len(x), n) = {}
  <2>1. 4 # ASN_SEQUENCE
    BY DEF ASN_SEQUENCE
  <2> HIDE DEF x, y
  <2> QED
    BY <1>1, <1>3, <1>8, <2>1, NotEntered
<1> HIDE DEF x, y, p, c
<1>13. VersionOf(s, n) = {v}
  BY <1>6, <1>9, VersionIs
<1>14. ParseV3Message(s, n) = {}
  BY <1>6, <1>9, <1>12, V3Refused
<1>15. ASSUME NEW sv
       PROVE  ParseCommunityMessage(s, n, sv) =
                  IF sv \notin {DefaultVersion, v} THEN {} ELSE {Understood(v, <<a>>, PduOf(m))}
  BY <1>6, <1>10, <1>11, CommunityIs
<1> QED
  BY <1>1, <1>13, <1>14, <1>15 DEF CommunityParsed, v, n

\* snmpv3_calc_msg_flags, and what is read from the flags.
LEMMA FlagsRead ==
    ASSUME NEW level \in 1 .. 3, NEW command
    PROVE  /\ MsgFlags(level, command) \in ValuesOf("flags")
           /\ LevelOf(MsgFlags(level, command)) = level
           /\ Flag(MsgFlags(level, command), 4) = Confirmed(command)
           /\ Flag(MsgFlags(level, command), 2) => Flag(MsgFlags(level, command), 1)
<1> DEFINE flags == MsgFlags(level, command)
           c == Confirmed(command)
<1>1. /\ (0 \div 1) % 2 = 0 /\ (0 \div 2) % 2 = 0 /\ (0 \div 4) % 2 = 0
      /\ (1 \div 1) % 2 = 1 /\ (1 \div 2) % 2 = 0 /\ (1 \div 4) % 2 = 0
      /\ (3 \div 1) % 2 = 1 /\ (3 \div 2) % 2 = 1 /\ (3 \div 4) % 2 = 0
      /\ (4 \div 1) % 2 = 0 /\ (4 \div 2) % 2 = 0 /\ (4 \div 4) % 2 = 1
      /\ (5 \div 1) % 2 = 1 /\ (5 \div 2) % 2 = 0 /\ (5 \div 4) % 2 = 1
      /\ (7 \div 1) % 2 = 1 /\ (7 \div 2) % 2 = 1 /\ (7 \div 4) % 2 = 1
  OBVIOUS
<1>2. /\ ~Flag(0, 1) /\ ~Flag(0, 2) /\ ~Flag(0, 4) /\ Flag(1, 1) /\ ~Flag(1, 2) /\ ~Flag(1, 4)
      /\ Flag(3, 1) /\ Flag(3, 2) /\ ~Flag(3, 4) /\ ~Flag(4, 1) /\ ~Flag(4, 2) /\ Flag(4, 4)
      /\ Flag(5, 1) /\ ~Flag(5, 2) /\ Flag(5, 4) /\ Flag(7, 1) /\ Flag(7, 2) /\ Flag(7, 4)
  BY <1>1 DEF Flag
<1>3. c \in BOOLEAN
  BY DEF Confirmed
<1> HIDE DEF c
<1>4. flags = (IF level = 2 THEN 1 ELSE IF level = 3 THEN 3 ELSE 0) + (IF c THEN 4 ELSE 0)
  BY DEF MsgFlags, c
<1> HIDE DEF flags
<1>5. \/ level = 1 /\ flags = 0 /\ ~c
      \/ level = 2 /\ flags = 1 /\ ~c
      \/ level = 3 /\ flags = 3 /\ ~c
      \/ level = 1 /\ flags = 4 /\ c
      \/ level = 2 /\ flags = 5 /\ c
      \/ level = 3 /\ flags = 7 /\ c
  <2>1. CASE c
    <3>1. flags = (IF level = 2 THEN 1 ELSE IF level = 3 THEN 3 ELSE 0) + 4
      BY <1>4, <2>1
    <3> QED
      BY <2>1, <3>1
  <2>2. CASE ~c
    <3>1. flags = (IF level = 2 THEN 1 ELSE IF level = 3 THEN 3 ELSE 0) + 0
      BY <1>4, <2>2
    <3> QED
      BY <2>2, <3>1
  <2> QED
    BY <1>3, <2>1, <2>2
<1>6. ValuesOf("flags") = 0 .. 7
  BY DEF ValuesOf, Unsigned
<1>7. flags \in 0 .. 7
  BY <1>5
<1>8. LevelOf(flags) = IF ~Flag(flags, 1) THEN 1 ELSE IF Flag(flags, 2) THEN 3 ELSE 2
  BY DEF LevelOf
<1>9. LevelOf(flags) = level
  BY <1>2, <1>5, <1>8
<1>10. Flag(flags, 4) = c
  <2>1. Flag(flags, 4) \in BOOLEAN
    BY DEF Flag
  <2> QED
    BY <1>2, <1>3, <1>5, <2>1
<1>11. Flag(flags, 2) => Flag(flags, 1)
  BY <1>2, <1>5
<1> QED
  BY <1>6, <1>7, <1>9, <1>10, <1>11 DEF flags, c

\* The parts of a packet of version 3.
Globals(m) == <<m.admin[1], SessionHas.maxSize, MsgFlags(m.admin[2], m.command), m.admin[3]>>

\* What snmpv3_header_build writes are values that snmpv3_parse accepts, and that
\* say the level of security and whether a report may be sent.
LEMMA V3Values ==
    ASSUME NEW m, IsMessage(m), m.version = VERSION_3
    PROVE  /\ AreValues(GlobalKinds, Globals(m)) /\ GlobalKinds \in Seq(Plain)
           /\ m.version \in ValuesOf("int") /\ "int" \in Plain /\ "string" \in Plain
           /\ m.admin[4] \in ValuesOf("string") /\ m.admin[5] \in ValuesOf("string")
           /\ m.admin[6] \in ValuesOf("string")
           /\ GlobalDataValid(Globals(m)[1], Globals(m)[2], Globals(m)[3], Globals(m)[4])
           /\ LevelOf(Globals(m)[3]) = m.admin[2] /\ Flag(Globals(m)[3], 4) = Confirmed(m.command)
           /\ Globals(m)[1] = m.admin[1] /\ Globals(m)[4] = m.admin[3]
           /\ m.admin = <<m.admin[1], m.admin[2], m.admin[3], m.admin[4], m.admin[5], m.admin[6]>>
<1> DEFINE a == m.admin
           flags == MsgFlags(a[2], m.command)
           size == SessionHas.maxSize
           g == <<a[1], size, flags, a[3]>>
<1>1. "int" \in Plain /\ "string" \in Plain /\ "flags" \in Plain
  BY DEF Plain, VarKind, Strings, Wide
<1>2. /\ m.version \in ValuesOf("int") /\ a = [j \in 1 .. 6 |-> a[j]]
      /\ a[1] \in Nat \cap Long /\ a[2] \in 1 .. 3 /\ a[3] \in SecurityModels
      /\ a[4] \in Nat /\ a[5] \in Nat /\ a[6] \in Nat
  BY MessageIs DEF IsAdmin, IsList
<1>3. ValuesOf("string") = Nat /\ ValuesOf("int") = Long
  BY DEF ValuesOf, Unsigned
<1> HIDE DEF a
<1>4. /\ flags \in ValuesOf("flags") /\ LevelOf(flags) = a[2] /\ Flag(flags, 4) = Confirmed(m.command)
      /\ Flag(flags, 2) => Flag(flags, 1)
  BY <1>2, FlagsRead
<1>5. size \in Long /\ size >= MinMaxSize
  <2> DEFINE w == Word \div 2
  <2>1. w \in Int
    BY LongHalf
  <2>2. size \in MinMaxSize .. w - 1 /\ MinMaxSize \in Nat
    BY MessageAssumption
  <2>3. Long = -w .. w - 1
    BY DEF Long
  <2> HIDE DEF w, size
  <2> QED
    BY <2>1, <2>2, <2>3
<1>6. a[3] \in Long
  BY <1>2, MessageAssumption
<1> HIDE DEF flags, size
<1>7. Globals(m) = g
  BY DEF Globals, a, flags, size
<1>8. g[1] = a[1] /\ g[2] = size /\ g[3] = flags /\ g[4] = a[3] /\ g = [j \in 1 .. 4 |-> g[j]]
  OBVIOUS
<1>9. /\ Len(GlobalKinds) = 4 /\ GlobalKinds[1] = "int" /\ GlobalKinds[2] = "int"
      /\ GlobalKinds[3] = "flags" /\ GlobalKinds[4] = "int"
  BY DEF GlobalKinds
<1> HIDE DEF g
<1>10. AreValues(GlobalKinds, g)
  <2>1. \A j \in 1 .. 4 : j = 1 \/ j = 2 \/ j = 3 \/ j = 4
    OBVIOUS
  <2>2. \A j \in 1 .. 4 : g[j] \in ValuesOf(GlobalKinds[j])
    BY <1>2, <1>3, <1>4, <1>5, <1>6, <1>8, <1>9, <2>1
  <2> QED
    BY <1>8, <1>9, <2>2 DEF AreValues, IsList
<1>11. GlobalKinds \in Seq(Plain)
  BY <1>1 DEF GlobalKinds
<1>12. GlobalDataValid(g[1], g[2], g[3], g[4])
  <2>1. a[1] >= 0
    BY <1>2
  <2> QED
    BY <1>2, <1>4, <1>5, <1>8, <2>1 DEF GlobalDataValid
<1>13. a = <<a[1], a[2], a[3], a[4], a[5], a[6]>>
  <2>1. \A j \in 1 .. 6 : j = 1 \/ j = 2 \/ j = 3 \/ j = 4 \/ j = 5 \/ j = 6
    OBVIOUS
  <2> DEFINE b == <<a[1], a[2], a[3], a[4], a[5], a[6]>>
  <2>2. b = [j \in 1 .. 6 |-> b[j]] /\ b[1] = a[1] /\ b[2] = a[2] /\ b[3] = a[3] /\ b[4] = a[4]
        /\ b[5] = a[5] /\ b[6] = a[6]
    OBVIOUS
  <2> HIDE DEF b
  <2>3. \A j \in 1 .. 6 : b[j] = a[j]
    BY <2>1, <2>2
  <2>4. b = a
    BY <1>2, <2>2, <2>3
  <2> QED
    BY <2>4 DEF b
<1> QED
  BY <1>1, <1>2, <1>3, <1>4, <1>7, <1>8, <1>10, <1>11, <1>12, <1>13 DEF a

\* What is placed before an end is placed before a later one.
LEMMA PlacedLater ==
    ASSUME NEW x, NEW s, NEW at, NEW end, Placed(x, s, at, end), NEW end2 \in Int, end <= end2
    PROVE  Placed(x, s, at, end2)
<1> DEFINE n == Len(x)
<1>1. n \in Nat /\ at \in Nat \ {0} /\ end \in Int /\ at + n - 1 <= end
  BY DEF Placed
<1> HIDE DEF n
<1>2. at + n - 1 <= end2
  BY <1>1
<1> QED
  BY <1>2 DEF Placed, n

\* The packet m is in x and so on: c in the frame of the packet.
V3Parts(packet, x, g, gs, y, cx, p, sc, c) ==
    /\ x \in Seq(Int) /\ g \in Seq(Int) /\ gs \in Seq(Int) /\ y \in Seq(Int)
    /\ cx \in Seq(Int) /\ p \in Seq(Int) /\ sc \in Seq(Int)
    /\ x \o gs \in Seq(Int) /\ (x \o gs) \o y \in Seq(Int)
    /\ Frame(gs, ASN_SEQUENCE, g) /\ Frame(sc, ASN_SEQUENCE, cx \o p)
    /\ Frame(packet, ASN_SEQUENCE, c)

\* A message of version 3, taken apart.
LEMMA V3Frame ==
    ASSUME NEW m, IsMessage(m), m.version = VERSION_3, NEW builder \in {"forward", "reverse"},
           NEW x, x = Object(builder, "int", m.version),
           NEW g, g = Objects(builder, GlobalKinds, Globals(m)),
           NEW gs, gs = Structure(builder, ASN_SEQUENCE, g),
           NEW y, y = Object(builder, "string", m.admin[4]),
           NEW cx, cx = Object(builder, "string", m.admin[5]) \o Object(builder, "string", m.admin[6]),
           NEW p, p = BuildPdu(builder, m),
           NEW sc, sc = Structure(builder, ASN_SEQUENCE, cx \o p)
    PROVE  V3Parts(Packet(builder, m), x, g, gs, y, cx, p, sc, ((x \o gs) \o y) \o sc)
<1>1. /\ AreValues(GlobalKinds, Globals(m)) /\ GlobalKinds \in Seq(Plain)
      /\ m.version \in ValuesOf("int") /\ m.admin[4] \in ValuesOf("string")
      /\ m.admin[5] \in ValuesOf("string") /\ m.admin[6] \in ValuesOf("string")
      /\ "int" \in Plain /\ "string" \in Plain
  BY V3Values
<1>2. "int" \in VarKind \cup {"flags"} /\ "string" \in VarKind \cup {"flags"}
  BY <1>1 DEF Plain
<1>3. x \in Seq(Int) /\ y \in Seq(Int)
  BY <1>1, <1>2, ObjectIsSeq
<1>4. g \in Seq(Int)
  BY <1>1, ValuesInt
<1>5. ASN_SEQUENCE \in Int
  BY DEF ASN_SEQUENCE
<1>6. Frame(gs, ASN_SEQUENCE, g)
  BY <1>4, <1>5, StructureFrame
<1>7. gs \in Seq(Int)
  BY <1>6, FrameInt
<1>8. cx \in Seq(Int)
  <2> DEFINE b == Object(builder, "string", m.admin[5])
             c == Object(builder, "string", m.admin[6])
  <2>1. b \in Seq(Int) /\ c \in Seq(Int)
    BY <1>1, <1>2, ObjectIsSeq
  <2> HIDE DEF b, c
  <2>2. b \o c \in Seq(Int)
    BY <2>1, ConcatProperties
  <2> QED
    BY <2>2 DEF b, c
<1>9. p \in Seq(Int)
  BY MessageIs, PduFrame
<1>10. cx \o p \in Seq(Int)
  BY <1>8, <1>9, ConcatProperties
<1>11. Frame(sc, ASN_SEQUENCE, cx \o p)
  BY <1>5, <1>10, StructureFrame
<1>12. sc \in Seq(Int)
  BY <1>11, FrameInt
<1>13. x \o gs \in Seq(Int)
  BY <1>3, <1>7, ConcatProperties
<1>14. (x \o gs) \o y \in Seq(Int)
  BY <1>3, <1>13, ConcatProperties
<1>15. ((x \o gs) \o y) \o sc \in Seq(Int)
  BY <1>12, <1>14, ConcatProperties
<1>16. Packet(builder, m) = Structure(builder, ASN_SEQUENCE, ((x \o gs) \o y) \o sc)
  <2>1. HeaderV3(builder, m) = x \o gs
    BY DEF HeaderV3, GlobalKinds, Globals
  <2>2. Objects(builder, <<"string", "string">>, <<m.admin[5], m.admin[6]>>) = cx
    BY <1>1, <1>2, TwoObjects
  <2>3. ScopedPdu(builder, m) = sc
    BY <2>2 DEF ScopedPdu
  <2>4. Packet(builder, m) = Secured(builder, m, x \o gs, sc)
    BY <2>1, <2>3 DEF Packet
  <2> QED
    BY <2>4 DEF Secured
<1>17. Frame(Packet(builder, m), ASN_SEQUENCE, ((x \o gs) \o y) \o sc)
  BY <1>5, <1>15, <1>16, StructureFrame
<1> QED
  BY <1>3, <1>4, <1>6, <1>7, <1>8, <1>9, <1>11, <1>12, <1>13, <1>14, <1>17 DEF V3Parts

\* What each parser makes of a whole packet of version 3.
V3Parsed(m, s) ==
    /\ VersionOf(s, Len(s)) = {VERSION_3}
    /\ ParseV3Message(s, Len(s)) = {Understood(VERSION_3, Append(m.admin, Confirmed(m.command)), PduOf(m))}
    /\ \A sv : ParseCommunityMessage(s, Len(s), sv) = {}

\* A message of version 3 is parsed as it was built, and nothing else is made of it.
LEMMA V3IsParsed ==
    ASSUME NEW m, IsMessage(m), m.version = VERSION_3, NEW builder \in {"forward", "reverse"},
           NEW s, s = Packet(builder, m), Fits(Len(s))
    PROVE  V3Parsed(m, s)
<1> DEFINE v == m.version
           a4 == m.admin[4]
           a5 == m.admin[5]
           a6 == m.admin[6]
           values == Globals(m)
           x == Object(builder, "int", v)
           g == Objects(builder, GlobalKinds, values)
           gs == Structure(builder, ASN_SEQUENCE, g)
           y == Object(builder, "string", a4)
           cx == Object(builder, "string", a5) \o Object(builder, "string", a6)
           p == BuildPdu(builder, m)
           sc == Structure(builder, ASN_SEQUENCE, cx \o p)
           h == x \o gs
           hy == h \o y
           c == hy \o sc
           n == Len(s)
<1>a. /\ x = Object(builder, "int", m.version) /\ g = Objects(builder, GlobalKinds, Globals(m))
      /\ gs = Structure(builder, ASN_SEQUENCE, g) /\ y = Object(builder, "string", m.admin[4])
      /\ cx = Object(builder, "string", m.admin[5]) \o Object(builder, "string", m.admin[6])
      /\ p = BuildPdu(builder, m) /\ sc = Structure(builder, ASN_SEQUENCE, cx \o p)
  OBVIOUS
<1>b. /\ x = Object(builder, "int", v) /\ g = Objects(builder, GlobalKinds, values)
       /\ y = Object(builder, "string", a4)
       /\ cx = Object(builder, "string", a5) \o Object(builder, "string", a6)
  OBVIOUS
<1> HIDE DEF x, g, gs, y, cx, p, sc
<1>1. /\ AreValues(GlobalKinds, values) /\ GlobalKinds \in Seq(Plain)
      /\ v \in ValuesOf("int") /\ "int" \in Plain /\ "string" \in Plain
      /\ a4 \in ValuesOf("string") /\ a5 \in ValuesOf("string") /\ a6 \in ValuesOf("string")
      /\ GlobalDataValid(values[1], values[2], values[3], values[4])
      /\ LevelOf(values[3]) = m.admin[2] /\ Flag(values[3], 4) = Confirmed(m.command)
      /\ values[1] = m.admin[1] /\ values[4] = m.admin[3]
      /\ m.admin = <<m.admin[1], m.admin[2], m.admin[3], a4, a5, a6>>
  BY V3Values
<1>2. /\ x \in Seq(Int) /\ g \in Seq(Int) /\ gs \in Seq(Int) /\ y \in Seq(Int)
      /\ cx \in Seq(Int) /\ p \in Seq(Int) /\ sc \in Seq(Int)
      /\ h \in Seq(Int) /\ hy \in Seq(Int)
      /\ Frame(gs, ASN_SEQUENCE, g) /\ Frame(sc, ASN_SEQUENCE, cx \o p)
      /\ Frame(s, ASN_SEQUENCE, c)
  <2>1. V3Parts(Packet(builder, m), x, g, gs, y, cx, p, sc, ((x \o gs) \o y) \o sc)
    BY <1>a, V3Frame, ZenonT(40)
  <2>2. V3Parts(s, x, g, gs, y, cx, p, sc, c)
    BY ONLY <2>1, s = Packet(builder, m)
  <2> QED
    BY <2>2 DEF V3Parts
<1>3. IsPdu(m)
  BY MessageIs
<1> HIDE DEF v, a4, a5, a6, values, h, hy, c
<1>4. s \in Seq(Int) /\ Buffer(s) /\ Placed(s, s, 1, n) /\ n \in Nat
  <2>1. s \in Seq(Int)
    BY <1>2, FrameInt
  <2> QED
    BY <2>1, Whole, LenProperties DEF Buffer
<1> HIDE DEF n
<1>5. PICK f : Entered(c, s, 1, n, f, n)
  <2>1. \E f : Entered(c, s, 1, n, f, Len(s))
    BY <1>2, <1>4, EntersIs
  <2> QED
    BY <2>1 DEF n
<1>6. 1 + n - 1 = n
  BY <1>4
<1>7. Enters(s, 1, n, f, n) /\ Placed(c, s, f, n)
  BY <1>5, <1>6 DEF Entered
<1> DEFINE p2 == f + Len(x)
           p3 == f + Len(h)
           p4 == f + Len(hy)
<1>8. Placed(hy, s, f, n) /\ Placed(sc, s, p4, n)
  BY <1>2, <1>4, <1>7, PartsPlaced DEF c
<1>9. Placed(h, s, f, n) /\ Placed(y, s, p3, n) /\ p3 + Len(y) = p4
  BY <1>2, <1>4, <1>8, PartsPlaced DEF hy
<1>10. Placed(x, s, f, n) /\ Placed(gs, s, p2, n) /\ p2 + Len(gs) = p3
  BY <1>2, <1>4, <1>9, PartsPlaced DEF h
<1>11. Reads(<<"int">>, <<v>>, s, f, n, p2)
  BY <1>b, <1>1, <1>4, <1>10, OneRead
<1>12. Reads(<<"string">>, <<a4>>, s, p3, n, p4)
  <2>1. Reads(<<"string">>, <<a4>>, s, p3, n, p3 + Len(y))
    BY <1>b, <1>1, <1>4, <1>9, OneRead
  <2> QED
    BY <1>9, <2>1
<1> HIDE DEF p2, p3, p4
<1>13. PICK f2 : Entered(g, s, p2, n, f2, Len(gs))
  BY <1>2, <1>4, <1>10, EntersIs
<1>14. p2 + Len(gs) \in Nat \ {0} /\ Len(gs) \in Nat /\ p2 \in Nat \ {0} /\ p2 + Len(gs) - 1 <= n
  BY <1>2, <1>4, <1>10, EntersIs DEF Placed
<1> DEFINE t2 == p2 + Len(gs) - 1
<1>15. /\ Enters(s, p2, n, f2, t2) /\ Placed(g, s, f2, t2) /\ f2 + Len(g) = p3
  BY <1>10, <1>13 DEF Entered
<1>16. Placed(g, s, f2, n)
  <2>1. t2 <= n /\ n \in Int
    BY <1>4, <1>14
  <2> HIDE DEF t2
  <2> QED
    BY <1>15, <2>1, PlacedLater
<1> HIDE DEF t2
<1>17. Reads(GlobalKinds, values, s, f2, n, p3)
  <2>1. Reads(GlobalKinds, values, s, f2, n, f2 + Len(g))
    BY <1>b, <1>1, <1>4, <1>16, ValuesRead
  <2> QED
    BY <1>15, <2>1
<1>18. PICK f3 : Entered(cx \o p, s, p4, n, f3, Len(sc))
  BY <1>2, <1>4, <1>8, EntersIs
<1>19. p4 + Len(sc) \in Nat \ {0} /\ Len(sc) \in Nat /\ p4 \in Nat \ {0} /\ p4 + Len(sc) - 1 <= n
  BY <1>2, <1>4, <1>8, EntersIs DEF Placed
<1> DEFINE t3 == p4 + Len(sc) - 1
<1>20. Enters(s, p4, n, f3, t3) /\ Placed(cx \o p, s, f3, t3)
  BY <1>18 DEF Entered
<1>21. Placed(cx \o p, s, f3, n)
  <2>1. t3 <= n /\ n \in Int
    BY <1>4, <1>19
  <2> HIDE DEF t3
  <2> QED
    BY <1>20, <2>1, PlacedLater
<1> HIDE DEF t3
<1> DEFINE p5 == f3 + Len(cx)
<1>22. Placed(cx, s, f3, n) /\ Placed(p, s, p5, n)
  BY <1>2, <1>4, <1>21, PartsPlaced
<1>23. Reads(<<"string", "string">>, <<a5, a6>>, s, f3, n, p5)
  BY <1>b, <1>1, <1>4, <1>22, TwoRead
<1>24. PduRead(m, s, p5, n)
  BY <1>a, <1>3, <1>4, <1>22, PduIsRead
<1> HIDE DEF p5
<1>25. VersionOf(s, n) = {v}
  BY <1>7, <1>11, VersionIs
<1>26. ParseV3Message(s, n) = V3Fields(s, n, v, values, a4, <<a5, a6>>, p5)
  BY <1>7, <1>11, <1>12, <1>15, <1>17, <1>20, <1>23, V3Is
<1>27. V3Fields(s, n, v, values, a4, <<a5, a6>>, p5) =
           {Understood(v, Append(m.admin, Confirmed(m.command)), PduOf(m))}
  <2> DEFINE b == <<a5, a6>>
             Result(pdu) == Understood(v, <<values[1], LevelOf(values[3]), values[4], a4, b[1], b[2],
                                            Flag(values[3], 4)>>, pdu)
  <2>1. ParsePdu(s, p5, n) = {PduOf(m)}
    BY <1>24 DEF PduRead
  <2>2. V3Fields(s, n, v, values, a4, b, p5) = {Result(pdu) : pdu \in ParsePdu(s, p5, n)}
    BY <1>1 DEF V3Fields
  <2>3. <<values[1], LevelOf(values[3]), values[4], a4, b[1], b[2], Flag(values[3], 4)>> =
            Append(m.admin, Confirmed(m.command))
    <3> DEFINE e1 == m.admin[1]
               e2 == m.admin[2]
               e3 == m.admin[3]
               e7 == Confirmed(m.command)
    <3>1. m.admin = <<e1, e2, e3, a4, a5, a6>>
      BY <1>1
    <3>2. /\ values[1] = e1 /\ LevelOf(values[3]) = e2 /\ values[4] = e3 /\ Flag(values[3], 4) = e7
          /\ b[1] = a5 /\ b[2] = a6
      BY <1>1
    <3> HIDE DEF e1, e2, e3, e7, b
    <3>3. Append(<<e1, e2, e3, a4, a5, a6>>, e7) = <<e1, e2, e3, a4, a5, a6, e7>>
      <4> DEFINE t == <<e1, e2, e3, a4, a5, a6>>
                 u == <<e1, e2, e3, a4, a5, a6, e7>>
      <4>1. /\ t[1] = e1 /\ t[2] = e2 /\ t[3] = e3 /\ t[4] = a4 /\ t[5] = a5 /\ t[6] = a6
            /\ t = [j \in 1 .. 6 |-> t[j]]
        OBVIOUS
      <4>2. /\ u[1] = e1 /\ u[2] = e2 /\ u[3] = e3 /\ u[4] = a4 /\ u[5] = a5 /\ u[6] = a6
            /\ u[7] = e7 /\ u = [j \in 1 .. 7 |-> u[j]]
        OBVIOUS
      <4> HIDE DEF t, u
      <4>3. \A j \in 1 .. 6 : j = 1 \/ j = 2 \/ j = 3 \/ j = 4 \/ j = 5 \/ j = 6
        OBVIOUS
      <4>4. \A j \in 1 .. 6 : t[j] = u[j]
        BY <4>1, <4>2, <4>3
      <4>5. t = FirstOf(u, 6) /\ u = FirstOf(u, 7)
        BY <4>1, <4>2, <4>4 DEF FirstOf
      <4>6. Append(FirstOf(u, 7 - 1), u[7]) = FirstOf(u, 7)
        <5> DEFINE k == 7
        <5>1. k \in Nat \ {0}
          OBVIOUS
        <5> HIDE DEF k
        <5>2. Append(FirstOf(u, k - 1), u[k]) = FirstOf(u, k)
          BY <5>1, FirstMore
        <5> QED
          BY <5>2 DEF k
      <4>7. 7 - 1 = 6
        OBVIOUS
      <4>8. Append(t, e7) = u
        BY ONLY <4>2, <4>5, <4>6, <4>7
      <4> QED
        BY <4>8 DEF t, u
    <3>4. Append(m.admin, e7) = <<e1, e2, e3, a4, a5, a6, e7>>
      BY ONLY <3>1, <3>3
    <3> QED
      BY <3>2, <3>4 DEF e7
  <2> HIDE DEF b
  <2>4. Result(PduOf(m)) = Understood(v, Append(m.admin, Confirmed(m.command)), PduOf(m))
    BY <2>3
  <2> HIDE DEF Result
  <2>5. V3Fields(s, n, v, values, a4, b, p5) = {Result(PduOf(m))}
    BY <2>1, <2>2
  <2> QED
    BY <2>4, <2>5 DEF b
<1>28. ParseObjects(<<"int", "string">>, s, f, n) = {}
  <2>1. ASN_SEQUENCE \notin Accepted("string")
    BY DEF ASN_SEQUENCE, Accepted, Strings, Unsigned, TypeOf
  <2>2. Placed(gs, s, f + Len(x), n)
    BY <1>10 DEF p2
  <2> QED
    BY <1>b, <1>1, <1>2, <1>4, <1>10, <2>1, <2>2, SecondRefused
<1>29. ASSUME NEW sv PROVE ParseCommunityMessage(s, n, sv) = {}
  BY <1>7, <1>28, CommunityRefused
<1> QED
  BY <1>25, <1>26, <1>27, <1>29 DEF V3Parsed, v, n

-----------------------------------------------------------------------------
(* SnmpMessage: a message on its way                                       *)

SessionVersions == {DefaultVersion, VERSION_1, VERSION_2c, VERSION_3}

\* Nothing is changed by the way the fields come.
LEMMA UnderstoodOf ==
    ASSUME NEW v, NEW a, NEW m
    PROVE  Understood(v, a, PduOf(m)) = Understood(v, a, m)
  BY DEF Understood, PduOf

\* What arrives of a message, field by field.
LEMMA ArrivingIs ==
    ASSUME NEW m, IsMessage(m)
    PROVE  Arriving(m) = IF m.version = VERSION_3
                         THEN Understood(VERSION_3, Append(m.admin, Confirmed(m.command)), PduOf(m))
                         ELSE Understood(m.version, m.admin, PduOf(m))
<1>1. m = Understood(m.version, m.admin, m)
  BY MessageIs
<1>2. CASE m.version = VERSION_3
  <2> DEFINE a == Append(m.admin, Confirmed(m.command))
  <2>1. Arriving(m) = [m EXCEPT !.admin = a]
    BY <1>2 DEF Arriving
  <2> HIDE DEF a
  <2>2. [m EXCEPT !.admin = a] = Understood(m.version, a, m)
    BY <1>1 DEF Understood
  <2>3. Understood(VERSION_3, a, PduOf(m)) = Understood(m.version, a, m)
    BY <1>2, UnderstoodOf
  <2> QED
    BY <1>2, <2>1, <2>2, <2>3 DEF a
<1>3. CASE m.version # VERSION_3
  <2>1. Arriving(m) = m
    BY <1>3 DEF Arriving
  <2> QED
    BY <1>1, <1>3, <2>1, UnderstoodOf
<1> QED
  BY <1>2, <1>3

\* What is filled in does not change the version.
LEMMA FilledVersion ==
    ASSUME NEW q, IsMessage(Filled(q))
    PROVE  Filled(q).version = q.version
<1> DEFINE m == Filled(q)
           f == FilledFields(q)
           a == IF q.version = VERSION_3 THEN FilledSecurity(q) ELSE FilledCommunity(q)
<1>1. m = [q EXCEPT !.fields = f, !.admin = a]
  BY DEF Filled
<1>2. m = Understood(m.version, m.admin, m)
  BY MessageIs
<1> HIDE DEF m, f, a
<1>3. "version" \in DOMAIN m
  BY <1>2 DEF Understood
<1>4. DOMAIN m = DOMAIN q
  BY <1>1
<1>5. m.version = q.version
  BY <1>1, <1>3, <1>4
<1> QED
  BY <1>5 DEF m

\* _snmp_parse: what a session makes of a whole packet.
LEMMA WholeIsParsed ==
    ASSUME NEW m, IsMessage(m), NEW builder \in {"forward", "reverse"},
           NEW s, s = Packet(builder, m), Fits(Len(s)), NEW sv \in SessionVersions
    PROVE  ParsedMessage(s, Len(s), sv) =
               IF sv \in {DefaultVersion, m.version} THEN {Arriving(m)} ELSE {}
<1> DEFINE n == Len(s)
           Versions == IF sv = DefaultVersion THEN VersionOf(s, n) ELSE {sv}
           Parsed(version) == CASE version \in {VERSION_1, VERSION_2c} -> ParseCommunityMessage(s, n, sv)
                                [] version = VERSION_3 -> ParseV3Message(s, n)
                                [] OTHER -> {}
<1>1. ParsedMessage(s, n, sv) = UNION {Parsed(version) : version \in Versions}
  BY DEF ParsedMessage, Then
<1>2. m.version \in {VERSION_1, VERSION_2c, VERSION_3}
  BY MessageIs
<1>3. VERSION_1 = 0 /\ VERSION_2c = 1 /\ VERSION_3 = 3 /\ DefaultVersion = -1
  BY DEF VERSION_1, VERSION_2c, VERSION_3, DefaultVersion
<1>4. /\ \A version \in {VERSION_1, VERSION_2c} : Parsed(version) = ParseCommunityMessage(s, n, sv)
      /\ Parsed(VERSION_3) = ParseV3Message(s, n)
  BY <1>3
<1> HIDE DEF n, Parsed
<1>5. CASE m.version # VERSION_3
  <2>1. /\ VersionOf(s, n) = {m.version} /\ ParseV3Message(s, n) = {}
        /\ ParseCommunityMessage(s, n, sv) =
               IF sv \notin {DefaultVersion, m.version} THEN {}
               ELSE {Understood(m.version, m.admin, PduOf(m))}
    BY <1>5, CommunityIsParsed DEF CommunityParsed, n
  <2>2. Arriving(m) = Understood(m.version, m.admin, PduOf(m))
    BY <1>5, ArrivingIs
  <2>3. CASE sv = DefaultVersion
    <3>1. Versions = {m.version}
      BY <2>1, <2>3
    <3>2. Parsed(m.version) = {Arriving(m)}
      BY <1>2, <1>4, <1>5, <2>1, <2>2, <2>3
    <3> HIDE DEF Versions
    <3> QED
      BY <1>1, <2>3, <3>1, <3>2 DEF n
  <2>4. CASE sv # DefaultVersion
    <3>1. Versions = {sv} /\ sv \in {VERSION_1, VERSION_2c, VERSION_3}
      BY <2>4 DEF SessionVersions
    <3>2. Parsed(sv) = IF sv = m.version THEN {Arriving(m)} ELSE {}
      BY <1>2, <1>3, <1>4, <1>5, <2>1, <2>2, <2>4, <3>1
    <3> HIDE DEF Versions
    <3> QED
      BY <1>1, <2>4, <3>1, <3>2 DEF n
  <2> QED
    BY <2>3, <2>4
<1>6. CASE m.version = VERSION_3
  <2>1. /\ VersionOf(s, n) = {VERSION_3} /\ ParseCommunityMessage(s, n, sv) = {}
        /\ ParseV3Message(s, n) =
               {Understood(VERSION_3, Append(m.admin, Confirmed(m.command)), PduOf(m))}
    BY <1>6, V3IsParsed DEF V3Parsed, n
  <2>2. Arriving(m) = Understood(VERSION_3, Append(m.admin, Confirmed(m.command)), PduOf(m))
    BY <1>6, ArrivingIs
  <2>3. CASE sv = DefaultVersion
    <3>1. Versions = {VERSION_3}
      BY <2>1, <2>3
    <3>2. Parsed(VERSION_3) = {Arriving(m)}
      BY <1>4, <2>1, <2>2
    <3> HIDE DEF Versions
    <3> QED
      BY <1>1, <2>3, <3>1, <3>2 DEF n
  <2>4. CASE sv # DefaultVersion
    <3>1. Versions = {sv} /\ sv \in {VERSION_1, VERSION_2c, VERSION_3}
      BY <2>4 DEF SessionVersions
    <3>2. Parsed(sv) = IF sv = m.version THEN {Arriving(m)} ELSE {}
      BY <1>3, <1>4, <1>6, <2>1, <2>2, <3>1
    <3> HIDE DEF Versions
    <3> QED
      BY <1>1, <2>4, <3>1, <3>2 DEF n
  <2> QED
    BY <2>3, <2>4
<1> QED
  BY <1>5, <1>6

\* Every packet is a sequence with its length.
LEMMA PacketFrame ==
    ASSUME NEW m, IsMessage(m), NEW builder \in {"forward", "reverse"}
    PROVE  \E c : Frame(Packet(builder, m), ASN_SEQUENCE, c)
<1>1. CASE m.version # VERSION_3
  BY <1>1, CommunityFrame
<1>2. CASE m.version = VERSION_3
  <2> DEFINE x == Object(builder, "int", m.version)
             g == Objects(builder, GlobalKinds, Globals(m))
             gs == Structure(builder, ASN_SEQUENCE, g)
             y == Object(builder, "string", m.admin[4])
             cx == Object(builder, "string", m.admin[5]) \o Object(builder, "string", m.admin[6])
             p == BuildPdu(builder, m)
             sc == Structure(builder, ASN_SEQUENCE, cx \o p)
  <2>1. /\ x = Object(builder, "int", m.version) /\ g = Objects(builder, GlobalKinds, Globals(m))
        /\ gs = Structure(builder, ASN_SEQUENCE, g) /\ y = Object(builder, "string", m.admin[4])
        /\ cx = Object(builder, "string", m.admin[5]) \o Object(builder, "string", m.admin[6])
        /\ p = BuildPdu(builder, m) /\ sc = Structure(builder, ASN_SEQUENCE, cx \o p)
    OBVIOUS
  <2> HIDE DEF x, g, gs, y, cx, p, sc
  <2>2. V3Parts(Packet(builder, m), x, g, gs, y, cx, p, sc, ((x \o gs) \o y) \o sc)
    BY <1>2, <2>1, V3Frame, ZenonT(40)
  <2> QED
    BY <2>2 DEF V3Parts
<1> QED
  BY <1>1, <1>2

\* _snmp_parse: what has not arrived as a whole is not understood.
LEMMA PartIsNot ==
    ASSUME NEW m, IsMessage(m), NEW builder \in {"forward", "reverse"},
           NEW s, s = Packet(builder, m), Fits(Len(s)), NEW end \in Int, end < Len(s)
    PROVE  ParsedMessage(s, end, DefaultVersion) = {}
<1>1. \E c : Frame(s, ASN_SEQUENCE, c)
  BY PacketFrame
<1>2. Buffer(s)
  BY <1>1, FrameInt DEF Buffer
<1>3. HeaderOf(ASN_SEQUENCE, s, 1, end) = {}
  BY <1>1, <1>2, TruncatedIs
<1>4. VersionOf(s, end) = {}
  BY <1>3, VersionMissing
<1> QED
  BY <1>4 DEF ParsedMessage, Then

\* What is sent and received belongs to the message.
MessageInvariant ==
    /\ message.pdu \in Pdus /\ message.sessionVersion \in SessionVersions
    /\ sentPacket # <<>> =>
          \E builder \in {"forward", "reverse"} : sentPacket = Packet(builder, Filled(message.pdu))
    /\ understood # Nothing =>
          /\ sentPacket # <<>> /\ understood.available \in 0 .. Len(sentPacket)
          /\ understood.available < Len(sentPacket) => message.sessionVersion = DefaultVersion
          /\ understood.messages = ParsedMessage(sentPacket, understood.available, message.sessionVersion)

\* Building and parsing keep the invariant.
LEMMA MessageStays ==
    ASSUME MessageInvariant, [MessageNext]_messageVars
    PROVE  MessageInvariant'
<1>1. CASE BuildMessage
  <2>1. /\ sentPacket = <<>> /\ message' = message /\ understood' = understood
        /\ \E builder \in {"forward", "reverse"} : sentPacket' = Packet(builder, Filled(message.pdu))
    BY <1>1 DEF BuildMessage
  <2>2. understood = Nothing /\ Nothing' = Nothing
    BY <2>1 DEF MessageInvariant, Nothing
  <2> QED
    BY <2>1, <2>2 DEF MessageInvariant
<1>2. CASE \E n \in 0 .. Len(sentPacket) : /\ n < Len(sentPacket) => message.sessionVersion = DefaultVersion
                                           /\ ParseMessage(n)
  <2>1. PICK n \in 0 .. Len(sentPacket) : /\ n < Len(sentPacket) => message.sessionVersion = DefaultVersion
                                          /\ ParseMessage(n)
    BY <1>2
  <2>2. /\ sentPacket # <<>> /\ message' = message /\ sentPacket' = sentPacket
        /\ understood' = [available |-> n,
                          messages |-> ParsedMessage(sentPacket, n, message.sessionVersion)]
    BY <2>1 DEF ParseMessage
  <2>3. understood'.available = n
        /\ understood'.messages = ParsedMessage(sentPacket, n, message.sessionVersion)
    BY <2>2
  <2> QED
    BY <2>1, <2>2, <2>3 DEF MessageInvariant
<1>3. CASE UNCHANGED messageVars
  BY <1>3 DEF messageVars, MessageInvariant, Nothing
<1> QED
  BY <1>1, <1>2, <1>3 DEF MessageNext

\* By the invariant, what is understood is what the parser makes of the packet.
LEMMA MessageIsUnderstood ==
    ASSUME MessageInvariant
    PROVE  MessageSurvives
<1> SUFFICES ASSUME understood # Nothing
             PROVE  understood.messages =
                        IF /\ understood.available = Len(sentPacket)
                           /\ message.sessionVersion \in {DefaultVersion, message.pdu.version}
                        THEN {Arriving(Filled(message.pdu))} ELSE {}
  BY DEF MessageSurvives
<1> DEFINE s == sentPacket
           q == message.pdu
           m == Filled(q)
           sv == message.sessionVersion
           end == understood.available
<1>1. /\ q \in Pdus /\ sv \in SessionVersions /\ end \in 0 .. Len(s)
      /\ end < Len(s) => sv = DefaultVersion
      /\ understood.messages = ParsedMessage(s, end, sv)
  BY DEF MessageInvariant
<1>2. PICK builder \in {"forward", "reverse"} : s = Packet(builder, m)
  BY DEF MessageInvariant
<1>3. IsMessage(m)
  BY <1>1, MessageAssumption
<1>4. Fits(Len(s))
  BY <1>1, <1>2, MessageAssumption DEF Fits
<1>5. m.version = q.version
  BY <1>3, FilledVersion
<1> HIDE DEF s, q, m, sv, end
<1>6. CASE end = Len(s)
  <2>1. ParsedMessage(s, Len(s), sv) = IF sv \in {DefaultVersion, m.version} THEN {Arriving(m)} ELSE {}
    BY <1>1, <1>2, <1>3, <1>4, WholeIsParsed
  <2> QED
    BY <1>1, <1>5, <1>6, <2>1 DEF s, q, m, sv, end
<1>7. CASE end # Len(s)
  <2>1. end \in Int /\ end < Len(s) /\ sv = DefaultVersion
    <3>1. s \in Seq(Int)
      BY <1>2, <1>3, PacketFrame, FrameInt
    <3>2. Len(s) \in Nat
      BY <3>1, LenProperties
    <3> QED
      BY <1>1, <1>7, <3>2
  <2>2. ParsedMessage(s, end, DefaultVersion) = {}
    BY <1>2, <1>3, <1>4, <2>1, PartIsNot
  <2> QED
    BY <1>1, <1>7, <2>1, <2>2 DEF s, end, sv
<1> QED
  BY <1>6, <1>7

\* Whatever is sent or understood goes back to the PDU that was handed to
\* snmp_build, in whatever order sessions of any version build and parse.
THEOREM MessageInvariance == MessageSpec => []MessageInvariant
<1>1. MessageInit => MessageInvariant
  BY DEF MessageInit, MessageInvariant, SessionVersions
<1>2. MessageInvariant /\ [MessageNext]_messageVars => MessageInvariant'
  BY MessageStays
<1> QED
  BY <1>1, <1>2, PTL DEF MessageSpec

\* A message that arrives whole at a session that takes its version is the one that
\* was sent, whichever builder made it, and nothing is understood of another one:
\* snmp_build and _snmp_parse, for every message the code can build.
THEOREM MessageSurvivesAlways == MessageSpec => []MessageSurvives
<1>1. MessageInvariant => MessageSurvives
  BY MessageIsUnderstood
<1> QED
  BY <1>1, MessageInvariance, PTL
=============================================================================
