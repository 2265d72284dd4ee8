----------------------------- MODULE MCLibrary -----------------------------
EXTENDS Library

\* A callback entry of its own function and argument, and two that share theirs.
MCFunction(c) == IF c = 3 THEN "g" ELSE "f"
MCArgument(c) == IF c = 3 THEN "b" ELSE "a"
MCPriority(c) == IF c = 1 THEN 0 ELSE 1

\* A packet that fits into a buffer, one that does not, and a broken one.
MCPackets == {[head |-> 2, size |-> 2, broken |-> FALSE],
              [head |-> 3, size |-> 5, broken |-> FALSE],
              [head |-> 2, size |-> 3, broken |-> TRUE]}

\* A variable of a message, two values of each kind of which one is at a
\* boundary, and lists of up to seven variables.
MCVar(name, kind, value) == [name |-> name, kind |-> kind, value |-> value]
MCNull == <<MCVar(<<1, 3, 1>>, "null", 0)>>
MCValues == [kind \in {"int"} |-> {-128, 8}]
            @@ [kind \in {"counter", "gauge", "timeticks", "uinteger"} |-> {0, 255}]
            @@ [kind \in {"string", "opaque", "nsap"} |-> {0, 9}]
            @@ [kind \in {"null", "noSuchObject", "noSuchInstance", "endOfMibView"} |-> {0}]
            @@ [kind \in {"ipaddress"} |-> {4}]
            @@ [kind \in {"objid"} |-> {<<0, 0>>, <<2, 1, 255>>}]
            @@ [kind \in {"counter64", "opaque u64"} |-> {127, 65535}]
            @@ [kind \in {"opaque i64"} |-> {-32768, 128}]
MCLists == {MCNull}
           \cup UNION {{<<MCVar(<<1, 3, 1>>, kind, v)>> : v \in MCValues[kind]} : kind \in DOMAIN MCValues}
           \cup {[j \in 1 .. n |-> MCVar(<<1, j>>, "int", j)] : n \in 0 .. 7}

\* Messages of every version and command, with administrative data of their own
\* and without, and one command with every list.
MCPdu(v, command, admin, fields, vars) ==
    [version |-> v, command |-> command, admin |-> admin, fields |-> fields, vars |-> vars]
MCFields(command) == CASE command = TRAP -> {<<<<>>, 4, 6, 1, 200>>, <<<<1, 3, 100>>, 4, 0, 0, 0>>}
                       [] command = GETBULK -> {<<5, 0, 100>>}
                       [] OTHER -> {<<5, -1, -1>>, <<-128, 2, 1>>}
MCAdmin(v) == IF v = VERSION_3
                    THEN {<<7, 0, -1, 0, 0, -1>>, <<127, 3, 3, 5, 0, 2>>,
                          <<0, 1, -1, 0, 4, 0>>, <<1, 2, -1, 9, 0, -1>>}
                    ELSE {<<0>>, <<3>>}
MCCommands(v) == CASE v = VERSION_1  -> {GET, GETNEXT, SET, RESPONSE, TRAP}
                         [] v = VERSION_2c -> (GET .. TRAP2) \ {TRAP}
                         [] OTHER -> (GET .. REPORT) \ {TRAP}
MCPdus ==
    UNION {UNION {{MCPdu(v, c, a, f, MCNull) : a \in MCAdmin(v), f \in MCFields(c)} :
                  c \in MCCommands(v)} : v \in {VERSION_1, VERSION_2c, VERSION_3}}
        \cup {MCPdu(VERSION_2c, RESPONSE, <<3>>, <<5, 0, 0>>, vars) : vars \in MCLists}

MCSessionHas == [community |-> 6, securityEngine |-> 5, contextEngine |-> 0, level |-> 2,
                 model |-> 3, contextName |-> 0, maxSize |-> 100]
MCEnterprise == <<1, 3, 127>>
=============================================================================
