------------------------------ MODULE BerCodec ------------------------------
(***************************************************************************)
(* The encoding of snmp/asn1.c: integers, 64-bit integers (plain and       *)
(* wrapped in an Opaque), strings and object identifiers as type, length   *)
(* and contents.  Each has two builders, one that writes forward and one   *)
(* that fills the packet from its end, and one parser.                     *)
(*                                                                         *)
(* The width of an octet and of a long are parameters (8 bits and 4 octets *)
(* in the program), so that every value of a smaller long can be checked.  *)
(***************************************************************************)
EXTENDS Integers, SequencesExt

CONSTANTS OctetBits,    \* bits of an octet
          LongOctets,   \* sizeof(long)
          Halves,       \* words that 64-bit integers are put together from
          StringSizes,  \* lengths of strings
          MaxSubids,    \* MAX_OID_LEN
          Subids        \* subidentifiers other than the first

Power(b, k) == LET upTo[j \in 0 .. k] == IF j = 0 THEN 1 ELSE upTo[j - 1] * b
               IN  upTo[k]

Octet == Power(2, OctetBits)        \* 0x100
High  == Power(2, OctetBits - 1)    \* 0x80, ASN_BIT8, ASN_LONG_LEN
Word  == Power(Octet, LongOctets)   \* 2^32

WideOctets == 2 * LongOctets    \* sizeof(struct counter64)

\* An Opaque holds two octets of tag, one of length and a 64-bit integer.  What
\* is encoded has a length that two octets and a long can hold, and a long holds
\* what the first two subidentifiers are combined to.
ASSUME BerAssumption == /\ OctetBits \in Nat \ {0, 1}
                        /\ LongOctets \in Nat \ {0}
                        /\ WideOctets + 4 <= High /\ 80 <= Word
                        /\ Halves \cup Subids \subseteq 0 .. Word - 1
                        /\ StringSizes \subseteq Nat
                        /\ MaxSubids \in Nat \ {0, 1}
                        /\ \A n \in StringSizes \cup {WideOctets + 4, MaxSubids * WideOctets} :
                              n < Octet * Octet /\ n < Word \div 2

\* The k lowest digits of n in base b, the most significant one first.
Digits(n, k, b) == [j \in 1 .. k |-> (n \div Power(b, k - j)) % b]

Octets(n, k) == Digits(n, k, Octet)

\* What the digits say in base b, from a start value.
Number(start, digits, b) ==
    LET upTo[j \in 0 .. Len(digits)] == IF j = 0 THEN start ELSE upTo[j - 1] * b + digits[j]
    IN  upTo[Len(digits)]

\* n as k octets hold it, and as they are read with a sign.
Cut(n, k)    == n % Power(Octet, k)
Signed(n, k) == IF Cut(n, k) >= Power(Octet, k) \div 2 THEN Cut(n, k) - Power(Octet, k)
                ELSE Cut(n, k)

Least(S) == CHOOSE n \in S : \A m \in S : n <= m

-----------------------------------------------------------------------------
(* Lengths.                                                                 *)

\* asn_build_length: two octets at most, whatever the length.
BuildLength(n) == IF n < High THEN <<n>>
                  ELSE IF n < Octet THEN <<High + 1, n>>
                  ELSE <<High + 2>> \o Octets(n, 2)

\* asn_realloc_rbuild_length: as many octets as it takes, of those of a long.
RBuildLength(n) == IF n < High THEN <<n>>
                   ELSE LET k == Least({j \in 1 .. LongOctets : n < Power(Octet, j)} \cup {LongOctets})
                        IN  <<High + k>> \o Octets(n, k)

NoLength == [used |-> 0, length |-> 0]

\* asn_parse_length at position p: how many octets it takes and what it says;
\* none if it is indefinite, too long or negative.
ParseLength(s, p) ==
    LET k == s[p] - High
        n == Number(0, SubSeq(s, p + 1, p + k), Octet)
    IN  IF s[p] < High THEN [used |-> 1, length |-> s[p]]
        ELSE IF k = 0 \/ k > LongOctets \/ Signed(n, LongOctets) < 0 THEN NoLength
        ELSE [used |-> k + 1, length |-> n]

-----------------------------------------------------------------------------
(* Integers of k octets.                                                    *)

\* The top bits of the j lowest octets of n, one more than an octet has.
TopBits(n, j) == Cut(n, j) \div (Power(Octet, j - 1) \div 2)

\* Mutant: the mask has as many bits as an octet.
Redundant_octet(n, j) == Cut(n, j) \div Power(Octet, j - 1) \in {0, Octet - 1}

\* The top octet says nothing that the next one does not.
Redundant(n, j) == TopBits(n, j) \in {0, 2 * Octet - 1}

\* asn_build_int, asn_build_signed_int64.
BuildSigned(n, k) ==
    Octets(n, Least({j \in 1 .. k : \A m \in j + 1 .. k : Redundant(n, m)}))

\* asn_build_unsigned_int, asn_build_unsigned_int64.
BuildUnsigned(n, k) == IF n >= Power(Octet, k) \div 2 THEN Octets(n, k + 1) ELSE BuildSigned(n, k)

\* One more octet if the first one does not show the sign.
WithSign(s, testvalue) == IF (s[1] >= High) = (testvalue = -1) THEN s
                          ELSE <<testvalue % Octet>> \o s

\* asn_realloc_rbuild_int, asn_realloc_rbuild_unsigned_int: octets are written
\* until nothing but the sign is left.
RBuild(n, testvalue) ==
    WithSign(Octets(n, Least({j \in 1 .. LongOctets : n \div Power(Octet, j) = testvalue})),
             testvalue)

\* asn_realloc_rbuild_unsigned_int64, asn_realloc_rbuild_signed_int64: the low
\* word is filled up only if the high word has something to say.  The low
\* word is shifted as a signed one where n is signed.
RBuildWide(n, testvalue, signed) ==
    LET high == n \div Word
        low  == IF signed THEN Signed(n, LongOctets) ELSE n % Word
        part(m) == Least({j \in 1 .. LongOctets :
                              m \div Power(Octet, j) = testvalue \/ j = LongOctets})
    IN  WithSign(IF high = testvalue THEN Octets(low, part(low))
                 ELSE Octets(high, part(high)) \o Octets(low, LongOctets), testvalue)

\* What a parser starts from: all ones if the top bit of the first octet is set.
SignOf(s) == IF s # <<>> /\ s[1] >= High THEN -1 ELSE 0

\* asn_parse_int, asn_parse_signed_int64: the values an integer of `least` to
\* `most` octets may have, read into k octets.
ParseSigned(s, least, most, k) ==
    IF Len(s) \notin least .. most \/ (Len(s) > k /\ s[1] # 0) THEN {}
    ELSE {Signed(Number(SignOf(s), s, Octet), k)}

\* The same without a sign, with one octet more if that is 0.
UnsignedFrom(start, s, least, k) ==
    IF Len(s) \notin least .. k + 1 \/ (Len(s) = k + 1 /\ s[1] # 0) THEN {}
    ELSE {Cut(Number(start, s, Octet), k)}

\* asn_parse_unsigned_int extends a sign into what has no sign; for
\* asn_parse_unsigned_int64 missing octets are 0.
ParseUnsigned(s) == UnsignedFrom(SignOf(s), s, 1, LongOctets)
ParseUnsignedWide(s) == UnsignedFrom(0, s, 0, WideOctets)

-----------------------------------------------------------------------------
(* Object identifiers.                                                      *)

\* One subidentifier, the high bit set in all of its octets but the last.
BuildSubid(n) ==
    LET k == Least({j \in 1 .. WideOctets : n < Power(High, j)})
    IN  [j \in 1 .. k |-> Digits(n, k, High)[j] + IF j < k THEN High ELSE 0]

\* asn_build_objid and asn_realloc_rbuild_objid, for two subidentifiers or
\* more, which write the same; nothing if the first two are out of range.
BuildObjid(oid) ==
    IF oid[1] > 2 \/ (oid[2] > 40 /\ oid[1] < 2) THEN <<>>
    ELSE FlattenSeq([n \in 1 .. Len(oid) - 1 |->
                        BuildSubid(IF n = 1 THEN (oid[1] * 40 + oid[2]) % Word ELSE oid[n + 1])])

\* The first two subidentifiers from what they were combined to.
FirstTwo(n) == IF n < 40 THEN <<0, n>> ELSE IF n < 80 THEN <<1, n - 40>> ELSE <<2, n - 80>>

\* What the octets i to j of s say, without their high bits, in a long.
SubidOf(s, i, j) == Cut(Number(0, [m \in 1 .. j - i + 1 |-> s[i + m - 1] % High], High), LongOctets)

\* Where the subidentifiers of s end: each with the next octet without the
\* high bit, or with the contents.
SubidEnds(s) ==
    LET end[n \in 0 .. Len(s)] ==
            IF n = 0 THEN 0
            ELSE Least({j \in end[n - 1] + 1 .. Len(s) : s[j] < High} \cup {Len(s)})
    IN  end

\* asn_parse_objid: one subidentifier after the other, and two from the first.
\* No contents at all give a single subidentifier.
ParseObjid(s) ==
    LET end   == SubidEnds(s)
        count == Least({n \in 0 .. Len(s) : end[n] = Len(s)})
        subid(n) == SubidOf(s, end[n - 1] + 1, end[n])
    IN  IF s = <<>> THEN {<<0>>}
        ELSE IF s[Len(s)] >= High \/ count + 1 > MaxSubids THEN {}
        ELSE {FirstTwo(subid(1)) \o [n \in 1 .. count - 1 |-> subid(n + 1)]}

-----------------------------------------------------------------------------
(* Objects: the packet one side builds and the other one parses.            *)

VARIABLES item,      \* what is encoded: [kind, value]
          octets,    \* its length and contents, behind the type
          parsed     \* what the parser made of the octets it was given

berVars == <<item, octets, parsed>>

NotParsed == [available |-> -1, values |-> {}]

WideValues == {high * Word + low : high \in Halves, low \in Halves}

\* Of a string only the length matters.
ItemInit ==
    \/ \E n \in -(Word \div 2) .. Word \div 2 - 1 : item = [kind |-> "int", value |-> n]
    \/ \E n \in 0 .. Word - 1 : item = [kind |-> "unsigned", value |-> n]
    \/ \E n \in WideValues, k \in {"counter64", "opaque u64"} : item = [kind |-> k, value |-> n]
    \/ \E n \in WideValues : item = [kind |-> "opaque i64", value |-> Signed(n, WideOctets)]
    \/ \E n \in StringSizes : item = [kind |-> "string", value |-> n]
    \/ \E n \in 2 .. MaxSubids : \E x \in 0 .. 2, rest \in [1 .. n - 1 -> Subids] :
          item = [kind |-> "objid", value |-> <<x>> \o rest]

BerInit == ItemInit /\ octets = <<>> /\ parsed = NotParsed

\* Behind the type and length of an Opaque: its two tags and a length octet.
Tags(kind) == CASE kind = "opaque u64" -> <<High + 1, High + 2>>
                [] kind = "opaque i64" -> <<High + 1, High + 3>>
                [] OTHER -> <<>>

Wrapped(kind, s) == IF Tags(kind) = <<>> THEN s ELSE Tags(kind) \o <<Len(s)>> \o s

ContentsOf(kind, v) == CASE kind = "int"        -> BuildSigned(v, LongOctets)
                         [] kind = "unsigned"   -> BuildUnsigned(v, LongOctets)
                         [] kind = "opaque i64" -> BuildSigned(v, WideOctets)
                         [] kind = "string"     -> [j \in 1 .. v |-> 0]
                         [] kind = "objid"      -> BuildObjid(v)
                         [] OTHER               -> BuildUnsigned(v, WideOctets)

RContentsOf(kind, v) == CASE kind = "int"        -> RBuild(v, IF v < 0 THEN -1 ELSE 0)
                          [] kind = "unsigned"   -> RBuild(v, 0)
                          [] kind = "opaque i64" -> RBuildWide(v, IF v < 0 THEN -1 ELSE 0, TRUE)
                          [] kind = "string"     -> [j \in 1 .. v |-> 0]
                          [] kind = "objid"      -> BuildObjid(v)
                          [] OTHER               -> RBuildWide(v, 0, FALSE)

Refused == item.kind = "objid" /\ BuildObjid(item.value) = <<>>

\* What is built forward and in reverse.
Encodings ==
    LET forward == Wrapped(item.kind, ContentsOf(item.kind, item.value))
        reverse == Wrapped(item.kind, RContentsOf(item.kind, item.value))
    IN  {BuildLength(Len(forward)) \o forward, RBuildLength(Len(reverse)) \o reverse}

BuildItem == octets = <<>> /\ ~Refused /\ octets' \in Encodings /\ UNCHANGED <<item, parsed>>

\* The contents behind position p, if they are within what was received
\* (_asn_parse_length_check).
Contents(s, p, available) ==
    LET l == ParseLength(s, p)
    IN  IF l = NoLength \/ p - 1 + l.used + l.length > available THEN {}
        ELSE {SubSeq(s, p + l.used, p + l.used + l.length - 1)}

\* A 64-bit integer in an Opaque is found by the tags, once the Opaque itself
\* has been found to be within what was received.
OpaqueContents(available) ==
    LET p == ParseLength(octets, 1).used + 1
    IN  UNION {Contents(octets, p + 2, available) : s \in {s \in Contents(octets, 1, available) :
                  Len(s) <= WideOctets + 4 /\ SubSeq(octets, p, p + 1) = Tags(item.kind)}}

Values(kind, s) == CASE kind = "int"        -> ParseSigned(s, 1, LongOctets, LongOctets)
                     [] kind = "unsigned"   -> ParseUnsigned(s)
                     [] kind = "opaque i64" -> ParseSigned(s, 0, WideOctets + 1, WideOctets)
                     [] kind = "string"     -> {Len(s)}
                     [] kind = "objid"      -> ParseObjid(s)
                     [] OTHER               -> ParseUnsignedWide(s)

ParsedFrom(available) ==
    [available |-> available,
     values |-> UNION {Values(item.kind, s) : s \in IF Tags(item.kind) = <<>>
                                                     THEN Contents(octets, 1, available)
                                                     ELSE OpaqueContents(available)}]

ParseItem(available) == /\ octets # <<>> /\ parsed = NotParsed
                        /\ parsed' = ParsedFrom(available)
                        /\ UNCHANGED <<item, octets>>

BerNext == BuildItem \/ \E n \in 0 .. Len(octets) : ParseItem(n)

BerSpec == BerInit /\ [][BerNext]_berVars

-----------------------------------------------------------------------------
(* Properties.                                                              *)

\* Object identifiers that the combination of the first two subidentifiers
\* can tell apart: x.40 is built as the next x, and 2.y wraps around.
Distinct(oid) == IF oid[1] < 2 THEN oid[2] < 40 ELSE oid[2] + 80 < Word

\* Whatever is built, forward or in reverse, is parsed as the same value, and
\* refused if any of it is missing.
RoundTrip ==
    (parsed # NotParsed /\ (item.kind = "objid" => Distinct(item.value)))
        => parsed.values = IF parsed.available = Len(octets) THEN {item.value} ELSE {}
=============================================================================
