---------------------------- MODULE SnmpMessage ----------------------------
(***************************************************************************)
(* Messages of the three versions of SNMP, from the PDU that snmp_build    *)
(* is given to the one that snmp_parse returns (snmp/snmp_api.c, snmp.c,   *)
(* snmp_auth.c): the wrapper with a community or security data, the fields *)
(* of the PDU, and the list of variables.  As in BerCodec there are two    *)
(* builders, one of which fills the packet from its end.                   *)
(*                                                                         *)
(* A packet is a sequence of octets and types; a type is one element even  *)
(* where it has more bits than an octet of the model.                      *)
(***************************************************************************)
EXTENDS BerCodec

CONSTANTS Pdus,           \* what is handed to snmp_build
          SessionHas,     \* what the session supplies where a PDU has nothing
          SecurityModels, \* the security models that are registered
          CacheSize,      \* VPCACHE_SIZE
          MinMaxSize,     \* 484, the least msgMaxSize
          DefaultEnterprise

VERSION_1  == 0
VERSION_2c == 1
VERSION_3  == 3
DefaultVersion == -1        \* a session that takes messages of any version

GET == 160
GETNEXT == 161
RESPONSE == 162
SET == 163
TRAP == 164
GETBULK == 165
INFORM == 166
TRAP2 == 167
REPORT == 168
ASN_SEQUENCE == 48

\* SNMP_CMD_CONFIRMED
Confirmed(command) == command \in {INFORM, GETBULK, GETNEXT, GET, SET}

-----------------------------------------------------------------------------
(* Objects: one value with its type.                                        *)

\* The type a value of each kind is sent with.  A 64-bit integer in an Opaque
\* is told by the tags inside.
TypeOf(kind) == CASE kind = "int"            -> 2
                  [] kind = "string"         -> 4
                  [] kind = "flags"          -> 4
                  [] kind = "null"           -> 5
                  [] kind = "objid"          -> 6
                  [] kind = "ipaddress"      -> 64
                  [] kind = "counter"        -> 65
                  [] kind = "gauge"          -> 66
                  [] kind = "timeticks"      -> 67
                  [] kind = "nsap"           -> 69
                  [] kind = "counter64"      -> 70
                  [] kind = "uinteger"       -> 71
                  [] kind = "noSuchObject"   -> 128
                  [] kind = "noSuchInstance" -> 129
                  [] kind = "endOfMibView"   -> 130
                  [] OTHER                   -> 68

\* How the contents of each kind are encoded.
Unsigned == {"counter", "gauge", "timeticks", "uinteger"}
Strings  == {"string", "ipaddress", "opaque", "nsap"}
Empty    == {"null", "noSuchObject", "noSuchInstance", "endOfMibView"}
Wide     == {"opaque u64", "opaque i64"}
VarKind  == Unsigned \cup Strings \cup Empty \cup Wide \cup {"int", "objid", "counter64"}

Form(kind) == IF kind \in Unsigned THEN "unsigned" ELSE IF kind \in Strings THEN "string" ELSE kind

\* msgFlags is a string of one octet.  Of other strings only the length matters.
ObjectContents(builder, kind, v) ==
    IF kind \in Empty THEN <<>>
    ELSE IF kind = "flags" THEN <<v>>
    ELSE Wrapped(Form(kind), IF builder = "forward" THEN ContentsOf(Form(kind), v)
                                                    ELSE RContentsOf(Form(kind), v))

\* snmp_build_var_op, snmp_realloc_rbuild_var_op: by kind.
Object(builder, kind, v) ==
    LET s == ObjectContents(builder, kind, v)
    IN  <<TypeOf(kind)>> \o (IF builder = "forward" THEN BuildLength(Len(s)) ELSE RBuildLength(Len(s))) \o s

Objects(builder, kinds, values) ==
    FlattenSeq([j \in DOMAIN kinds |-> Object(builder, kinds[j], values[j])])

\* asn_build_sequence leaves two octets for the length, to be filled in when
\* the contents are there; asn_realloc_rbuild_sequence knows it.
Structure(builder, t, s) ==
    <<t>> \o (IF builder = "forward" THEN <<High + 2>> \o Octets(Len(s), 2) ELSE RBuildLength(Len(s))) \o s

-----------------------------------------------------------------------------
(* PDUs.                                                                    *)

\* The fields before the list of variables.
FieldKinds(command) == IF command = TRAP THEN <<"objid", "ipaddress", "int", "int", "timeticks">>
                                         ELSE <<"int", "int", "int">>

VarBind(builder, var) ==
    Structure(builder, ASN_SEQUENCE, Objects(builder, <<"objid", var.kind>>, <<var.name, var.value>>))

\* snmp_pdu_realloc_rbuild goes along the list, which has no links back, and
\* keeps the last CacheSize variables in slots it fills from the end and wraps
\* around; it builds those, and goes along again up to the oldest of them.
CacheSlot(k) == CacheSize - ((k - 1) % CacheSize)

\* The variable a slot holds when the first n have been gone along.
Held(slot, n) == CHOOSE k \in 1 .. n : CacheSlot(k) = slot /\ k + CacheSize > n

\* Mutant: the neighbour on the other side.
OldestSlot_next(final) == IF final = CacheSize THEN 1 ELSE final + 1

\* The slot of the oldest variable held, once there were more than the slots can hold.
OldestSlot(final) == IF final = 1 THEN CacheSize ELSE final - 1

\* The order in which the first n variables are built.
BuildOrder(count) ==
    LET order[n \in 0 .. count] ==
            IF n = 0 THEN <<>>
            ELSE LET final == CacheSlot(n)
                     held(from, to) == [j \in 1 .. to - from + 1 |-> Held(from + j - 1, n)]
                 IN  IF n <= CacheSize THEN held(final, CacheSize)
                     ELSE held(final, CacheSize) \o held(1, final - 1)
                              \o order[Held(OldestSlot(final), n) - 1]
    IN  order[count]

\* The variables one after the other, as they come to lie in the packet.
VarList(builder, vars) ==
    LET order == IF builder = "forward" THEN [k \in DOMAIN vars |-> k]
                                        ELSE Reverse(BuildOrder(Len(vars)))
    IN  FlattenSeq([j \in DOMAIN order |-> VarBind(builder, vars[order[j]])])

\* snmp_pdu_build, snmp_pdu_realloc_rbuild.
BuildPdu(builder, m) ==
    Structure(builder, m.command,
              Objects(builder, FieldKinds(m.command), m.fields)
                  \o Structure(builder, ASN_SEQUENCE, VarList(builder, m.vars)))

-----------------------------------------------------------------------------
(* Messages.  The administrative data of versions 1 and 2c is the           *)
(* community; of version 3 it is msgID, security level and model, the       *)
(* engine of the security parameters, context engine and context name, and  *)
(* on arrival whether a report may be sent.                                 *)

\* _snmp_build, snmpv3_build: which PDUs a version has, and what GETBULK asks for.
Buildable(m) ==
    /\ m.command \in CASE m.version = VERSION_1  -> {GET, GETNEXT, SET, RESPONSE, TRAP}
                       [] m.version = VERSION_2c -> {GET, GETNEXT, SET, RESPONSE, TRAP2, INFORM, GETBULK}
                       [] OTHER -> {GET, GETNEXT, SET, RESPONSE, TRAP2, INFORM, GETBULK, REPORT}
    /\ m.command = GETBULK => m.fields[2] >= 0 /\ m.fields[3] >= 0

\* The first of the values that is there.
Supplied(v, none, default) == IF v = none THEN default ELSE v

\* What is missing is filled in: fields at -1, the enterprise of a trap, an empty
\* community unless a response carries it, and for version 3 what the session knows.
FilledFields(m) ==
    CASE m.command = GETBULK -> m.fields
      [] m.command = TRAP -> [m.fields EXCEPT ![1] = Supplied(@, <<>>, DefaultEnterprise)]
      [] OTHER -> [m.fields EXCEPT ![2] = Supplied(@, -1, 0), ![3] = Supplied(@, -1, 0)]

FilledCommunity(m) ==
    IF m.command = RESPONSE THEN m.admin
    ELSE <<Supplied(m.admin[1], 0, SessionHas.community)>>

FilledSecurity(m) ==
    LET engine == Supplied(m.admin[4], 0, SessionHas.securityEngine)
    IN  <<m.admin[1],
          Supplied(m.admin[2], 0, SessionHas.level),
          Supplied(m.admin[3], -1, SessionHas.model),
          engine,
          Supplied(m.admin[5], 0, Supplied(SessionHas.contextEngine, 0, engine)),
          Supplied(m.admin[6], -1, SessionHas.contextName)>>

Filled(m) == [m EXCEPT !.fields = FilledFields(m),
                       !.admin = IF m.version = VERSION_3 THEN FilledSecurity(m) ELSE FilledCommunity(m)]

\* snmpv3_calc_msg_flags: authentication 1, privacy 2, reportable 4.
MsgFlags(level, command) == (CASE level = 2 -> 1 [] level = 3 -> 3 [] OTHER -> 0)
                            + IF Confirmed(command) THEN 4 ELSE 0

\* snmpv3_header_build, snmpv3_header_realloc_rbuild: version and global data.
HeaderV3(builder, m) ==
    Object(builder, "int", m.version)
        \o Structure(builder, ASN_SEQUENCE,
                     Objects(builder, <<"int", "int", "flags", "int">>,
                             <<m.admin[1], SessionHas.maxSize, MsgFlags(m.admin[2], m.command), m.admin[3]>>))

\* snmpv3_packet_build: the context, then the PDU.
ScopedPdu(builder, m) ==
    Structure(builder, ASN_SEQUENCE,
              Objects(builder, <<"string", "string">>, <<m.admin[5], m.admin[6]>>) \o BuildPdu(builder, m))

\* The security model (encode_forward, encode_reverse) puts the message together.
\* It is not in the repository: its parameters are a string with the engine, and
\* it leaves the scoped PDU as it is.
Secured(builder, m, header, scoped) ==
    Structure(builder, ASN_SEQUENCE, header \o Object(builder, "string", m.admin[4]) \o scoped)

\* The packet for a message in which nothing is missing any more.
Packet(builder, m) ==
    IF m.version = VERSION_3
    THEN Secured(builder, m, HeaderV3(builder, m), ScopedPdu(builder, m))
    ELSE Structure(builder, ASN_SEQUENCE,
                   Objects(builder, <<"int", "string">>, <<m.version, m.admin[1]>>) \o BuildPdu(builder, m))

-----------------------------------------------------------------------------
(* What a message consists of.                                              *)

Long == -(Word \div 2) .. Word \div 2 - 1

\* Object identifiers that are told apart when they are encoded.
Oid == {oid \in Seq(0 .. Word - 1) : /\ Len(oid) \in 2 .. MaxSubids
                                     /\ oid[1] \in 0 .. 2 /\ Distinct(oid)}

\* The values of each kind; of a string its length.
ValuesOf(kind) ==
    CASE kind = "int"                         -> Long
      [] kind \in Unsigned                    -> 0 .. Word - 1
      [] kind \in {"string", "opaque", "nsap"} -> Nat
      [] kind = "ipaddress"                   -> {4}
      [] kind = "flags"                       -> 0 .. 7
      [] kind = "objid"                       -> Oid
      [] kind \in {"counter64", "opaque u64"} -> 0 .. Power(Octet, WideOctets) - 1
      [] kind = "opaque i64"                  -> -(Power(Octet, WideOctets) \div 2)
                                                     .. Power(Octet, WideOctets) \div 2 - 1
      [] OTHER                                -> {0}

IsList(s, n) == n \in Nat /\ s = [j \in 1 .. n |-> s[j]]

AreValues(kinds, values) == /\ IsList(values, Len(kinds))
                            /\ \A j \in 1 .. Len(kinds) : values[j] \in ValuesOf(kinds[j])

IsVar(var) == /\ var = [name |-> var.name, kind |-> var.kind, value |-> var.value]
              /\ var.kind \in VarKind /\ var.name \in Oid /\ var.value \in ValuesOf(var.kind)

\* The level of security is noAuthNoPriv, authNoPriv or authPriv.
IsAdmin(version, admin) ==
    IF version = VERSION_3
    THEN /\ IsList(admin, 6)
         /\ admin[1] \in Nat \cap Long /\ admin[2] \in 1 .. 3 /\ admin[3] \in SecurityModels
         /\ admin[4] \in Nat /\ admin[5] \in Nat /\ admin[6] \in Nat
    ELSE IsList(admin, 1) /\ admin[1] \in Nat

\* The administrative data and the PDU of a message together.
Understood(version, admin, pdu) ==
    [version |-> version, command |-> pdu.command, admin |-> admin,
     fields |-> pdu.fields, vars |-> pdu.vars]

\* A message in which nothing is missing.
IsMessage(m) ==
    /\ m = Understood(m.version, m.admin, m)
    /\ m.version \in {VERSION_1, VERSION_2c, VERSION_3} /\ m.command \in GET .. REPORT
    /\ IsAdmin(m.version, m.admin)
    /\ AreValues(FieldKinds(m.command), m.fields)
    /\ IsList(m.vars, Len(m.vars)) /\ \A k \in 1 .. Len(m.vars) : IsVar(m.vars[k])

\* A long is at least of two octets.  A packet is as long as two octets and a
\* long can hold.
ASSUME MessageAssumption ==
    /\ CacheSize \in Nat \ {0} /\ LongOctets > 1
    /\ SecurityModels \subseteq Nat \cap Long
    /\ MinMaxSize \in Nat /\ SessionHas.maxSize \in MinMaxSize .. Word \div 2 - 1
    /\ \A m \in Pdus : Buildable(m) /\ IsMessage(Filled(m))
    /\ \A m \in Pdus, builder \in {"forward", "reverse"} :
          LET n == Len(Packet(builder, Filled(m))) IN n < Octet * Octet /\ n < Word \div 2

-----------------------------------------------------------------------------
(* Parsing.  A parser returns the set of what it has understood, which is   *)
(* empty if it has failed.                                                  *)

\* What is understood next after each of the things understood so far.
Then(S, Parser(_)) == UNION {Parser(x) : x \in S}

\* asn_parse_header at a position, where what was received goes up to end.
Header(s, at, end) ==
    IF at + 1 > end THEN {}
    ELSE LET l == ParseLength(s, at + 1)
             from == at + 1 + l.used
         IN  IF l = NoLength \/ from + l.length - 1 > end THEN {}
             ELSE {[type |-> s[at], from |-> from, to |-> from + l.length - 1]}

\* asn_parse_sequence.
HeaderOf(t, s, at, end) == {h \in Header(s, at, end) : h.type = t}

\* The types each parser accepts.
Accepted(kind) == CASE kind \in Unsigned -> {TypeOf(k) : k \in Unsigned}
                    [] kind \in Strings  -> {TypeOf(k) : k \in Strings}
                    [] OTHER             -> {TypeOf(kind)}

\* An address is read into four octets.
Decoded(kind, s) == CASE kind \in Empty -> {0}
                      [] kind = "flags" -> IF Len(s) = 1 THEN {s[1]} ELSE {}
                      [] kind = "ipaddress" -> {n \in Values("string", s) : n <= 4}
                      [] OTHER -> Values(Form(kind), s)

\* One object behind those that are already understood.
ParseObject(kind, s, end, before) ==
    Then({h \in Header(s, before.at, end) : h.type \in Accepted(kind)},
         LAMBDA h : {[at |-> h.to + 1, got |-> Append(before.got, v)] :
                        v \in Decoded(kind, SubSeq(s, h.from, h.to))})

ParseObjects(kinds, s, at, end) ==
    LET first[j \in 0 .. Len(kinds)] ==
            IF j = 0 THEN {[at |-> at, got |-> <<>>]}
            ELSE Then(first[j - 1], LAMBDA b : ParseObject(kinds[j], s, end, b))
    IN  first[Len(kinds)]

\* The kind of a value, from its type and the tags in an Opaque.
KindOf(s, h) ==
    LET wide == {k \in Wide : /\ TypeOf(k) = h.type /\ h.to > h.from
                              /\ SubSeq(s, h.from, h.from + 1) = Tags(k)}
    IN  IF wide # {} THEN wide ELSE {k \in VarKind \ Wide : TypeOf(k) = h.type}

\* What snmp_pdu_parse makes of the value of a variable.  An address must have
\* four octets here.
ParseValue(s, h, kind) ==
    IF kind = "ipaddress" /\ h.to - h.from # 3 THEN {}
    ELSE Decoded(kind, SubSeq(s, h.from + (IF Tags(kind) = <<>> THEN 0 ELSE 3), h.to))

\* snmp_parse_var_op, then the value.  An unknown type is an error.
ParseVarBind(s, at, end) ==
    Then(HeaderOf(ASN_SEQUENCE, s, at, end), LAMBDA list :
    Then(ParseObjects(<<"objid">>, s, list.from, list.to), LAMBDA b :
    Then(Header(s, b.at, list.to), LAMBDA h :
    Then(KindOf(s, h), LAMBDA k :
        {[at |-> h.to + 1, var |-> [name |-> b.got[1], kind |-> k, value |-> v]] :
            v \in ParseValue(s, h, k)}))))

\* One variable more, unless the list has ended.
ParseNextVar(s, end, before) ==
    IF before.at > end THEN {before}
    ELSE {[at |-> b.at, vars |-> Append(before.vars, b.var)] : b \in ParseVarBind(s, before.at, end)}

\* The variables one after the other until the list ends, which takes no more
\* turns than there are octets.
ParseVarList(s, at, end) ==
    LET after[n \in 0 .. end + 1 - at] ==
            IF n = 0 THEN {[at |-> at, vars |-> <<>>]}
            ELSE Then(after[n - 1], LAMBDA b : ParseNextVar(s, end, b))
    IN  {b.vars : b \in after[end + 1 - at]}

\* snmp_pdu_parse.
ParsePdu(s, at, end) ==
    Then({h \in Header(s, at, end) : h.type \in GET .. REPORT}, LAMBDA h :
    Then(ParseObjects(FieldKinds(h.type), s, h.from, h.to), LAMBDA b :
    Then(HeaderOf(ASN_SEQUENCE, s, b.at, h.to), LAMBDA list :
        {[command |-> h.type, fields |-> b.got, vars |-> vars] :
            vars \in ParseVarList(s, list.from, list.to)})))

\* snmp_parse_version: the version a message says it has.
VersionOf(s, end) ==
    Then(HeaderOf(ASN_SEQUENCE, s, 1, end), LAMBDA h :
        {b.got[1] : b \in ParseObjects(<<"int">>, s, h.from, h.to)})

\* snmp_comstr_parse, then the PDU.
ParseCommunityMessage(s, end, sessionVersion) ==
    Then(HeaderOf(ASN_SEQUENCE, s, 1, end), LAMBDA h :
    Then(ParseObjects(<<"int", "string">>, s, h.from, h.to), LAMBDA b :
        IF sessionVersion \notin {DefaultVersion, b.got[1]} THEN {}
        ELSE {Understood(b.got[1], <<b.got[2]>>, pdu) : pdu \in ParsePdu(s, b.at, h.to)}))

Flag(flags, bit) == (flags \div bit) % 2 = 1

LevelOf(flags) == IF ~Flag(flags, 1) THEN 1 ELSE IF Flag(flags, 2) THEN 3 ELSE 2

\* The checks of msgID, msgMaxSize, msgFlags and msgSecurityModel.
GlobalDataValid(id, maxSize, flags, model) ==
    /\ id >= 0 /\ maxSize >= MinMaxSize
    /\ model \in SecurityModels
    /\ Flag(flags, 2) => Flag(flags, 1)

\* snmpv3_parse.  The version is taken from the message, whatever the session's.
\* The global data and the scoped PDU are not held to their own lengths.
ParseV3Message(s, end) ==
    Then(HeaderOf(ASN_SEQUENCE, s, 1, end), LAMBDA h :
    Then(ParseObjects(<<"int">>, s, h.from, h.to), LAMBDA version :
    Then(HeaderOf(ASN_SEQUENCE, s, version.at, h.to), LAMBDA header :
    Then(ParseObjects(<<"int", "int", "flags", "int">>, s, header.from, h.to), LAMBDA global :
    Then(ParseObjects(<<"string">>, s, global.at, h.to), LAMBDA security :
    Then(HeaderOf(ASN_SEQUENCE, s, security.at, h.to), LAMBDA scoped :
    Then(ParseObjects(<<"string", "string">>, s, scoped.from, h.to), LAMBDA context :
        LET g == global.got
        IN  IF ~GlobalDataValid(g[1], g[2], g[3], g[4]) THEN {}
            ELSE {Understood(version.got[1],
                             <<g[1], LevelOf(g[3]), g[4], security.got[1],
                               context.got[1], context.got[2], Flag(g[3], 4)>>, pdu) :
                     pdu \in ParsePdu(s, context.at, h.to)})))))))

\* _snmp_parse.
ParsedMessage(s, end, sessionVersion) ==
    Then(IF sessionVersion = DefaultVersion THEN VersionOf(s, end) ELSE {sessionVersion},
         LAMBDA version :
             CASE version \in {VERSION_1, VERSION_2c} -> ParseCommunityMessage(s, end, sessionVersion)
               [] version = VERSION_3 -> ParseV3Message(s, end)
               [] OTHER -> {})

-----------------------------------------------------------------------------
(* A message on its way from one session to another one.                    *)

VARIABLES message,      \* the PDU, and the version of the session that receives it
          sentPacket,   \* what is sent
          understood    \* how much of it was received, and what it was taken for

messageVars == <<message, sentPacket, understood>>

Nothing == [available |-> -1, messages |-> {}]

MessageInit ==
    /\ \E m \in Pdus, v \in {DefaultVersion, VERSION_1, VERSION_2c, VERSION_3} :
          message = [pdu |-> m, sessionVersion |-> v]
    /\ sentPacket = <<>>
    /\ understood = Nothing

BuildMessage ==
    /\ sentPacket = <<>>
    /\ sentPacket' \in {Packet(builder, Filled(message.pdu)) : builder \in {"forward", "reverse"}}
    /\ UNCHANGED <<message, understood>>

ParseMessage(available) ==
    /\ sentPacket # <<>> /\ understood = Nothing
    /\ understood' = [available |-> available,
                      messages |-> ParsedMessage(sentPacket, available, message.sessionVersion)]
    /\ UNCHANGED <<message, sentPacket>>

\* Bound: only a session that takes any version gets less than all of it.
MessageNext ==
    \/ BuildMessage
    \/ \E n \in 0 .. Len(sentPacket) :
          /\ n < Len(sentPacket) => message.sessionVersion = DefaultVersion
          /\ ParseMessage(n)

MessageSpec == MessageInit /\ [][MessageNext]_messageVars

-----------------------------------------------------------------------------
(* Properties.                                                              *)

\* What arrives of a message: version 3 also says whether a report may be sent.
Arriving(m) == IF m.version = VERSION_3 THEN [m EXCEPT !.admin = Append(@, Confirmed(m.command))]
                                        ELSE m

\* A message that arrives whole at a session of its version is the one that was
\* sent, with its variables in order, whichever builder made it; otherwise
\* nothing is understood.
MessageSurvives ==
    understood # Nothing =>
        understood.messages =
            IF /\ understood.available = Len(sentPacket)
               /\ message.sessionVersion \in {DefaultVersion, message.pdu.version}
            THEN {Arriving(Filled(message.pdu))} ELSE {}
=============================================================================
