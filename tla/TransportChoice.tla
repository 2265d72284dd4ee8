--------------------------- MODULE TransportChoice ---------------------------
(***************************************************************************)
(* netsnmp_tdomain_transport_full of snmp/snmp_transport.c: which          *)
(* transport is created for the address a session names.  The registered   *)
(* domains are asked by the names they go by; the address may name one     *)
(* (domain:target), the caller may name some, the user or the program may  *)
(* have set defaults (DefaultTable), and otherwise it is udp.  A domain    *)
(* whose transport cannot be created leaves its turn to the next.          *)
(*                                                                         *)
(* One application; host names that have a configuration file of their own *)
(* are left out.                                                           *)
(***************************************************************************)
EXTENDS Integers, SequencesExt, Sublists

CONSTANTS Domain,       \* struct netsnmp_tdomain, static memory
          Names,     \* the names a domain goes by, in order
          Target,       \* default targets
          Lists,        \* lists of names that may be configured
          NoName, NoTarget, NoList, NoDomain

Name == (UNION {ToSet(Names[d]) : d \in Domain}) \cup {"udp", "unix", "other"}

ASSUME ChoiceAssumption == /\ NoName \notin Name /\ NoDomain \notin Domain
                           /\ Lists \subseteq Seq(Name)

\* Default domains are kept per application, default targets per domain; the number
\* of a domain stands for its first name.
NumberOf(d) == CHOOSE i \in 1 .. Cardinality(Domain) : SetToSeq(Domain)[i] = d

VARIABLES domain_list,    \* registered domains
          domains,        \* default domains
          targets,        \* default targets
          call,           \* the arguments
          match, spec,    \* the domain found and the names still to try
          whole,          \* is all of str the address, or what follows the colon?
          tried,          \* domains tried: with which address and default target
          pc

D == INSTANCE DefaultTable WITH TableKey <- {1}, Value <- Lists, NoValue <- NoList, table <- domains
T == INSTANCE DefaultTable WITH TableKey <- 1 .. Cardinality(Domain), Value <- Target,
                                NoValue <- NoTarget, table <- targets

search == <<match, spec, whole, tried, pc>>
choiceVars == <<domain_list, domains, targets, call, search>>

\* str with a name before the colon or without, and one that starts with a slash.
Wish == [name : Name \cup {NoName}, slash : BOOLEAN, domains : Lists \cup {NoList},
         target : Target \cup {NoTarget}]

ChoiceInit == /\ domain_list = <<>>
              /\ D!TableInit /\ T!TableInit
              /\ call = [name |-> NoName, slash |-> FALSE, domains |-> NoList, target |-> NoTarget]
              /\ match = NoDomain /\ spec = <<>> /\ whole = TRUE /\ tried = <<>>
              /\ pc = "idle"

-----------------------------------------------------------------------------
(* Registered domains.                                                      *)

\* netsnmp_tdomain_register: at the end, and not twice.
RegisterDomain(d) == /\ pc = "idle" /\ d \notin ToSet(domain_list)
                     /\ domain_list' = Append(domain_list, d)
                     /\ UNCHANGED <<domains, targets, call, search>>

UnregisterDomain(d) == /\ pc = "idle" /\ d \in ToSet(domain_list)
                       /\ domain_list' = Kept(domain_list, Domain \ {d})
                       /\ UNCHANGED <<domains, targets, call, search>>

Configure == /\ pc = "idle"
             /\ \/ D!TableNext /\ UNCHANGED targets
                \/ T!TableNext /\ UNCHANGED domains
             /\ UNCHANGED <<domain_list, call, search>>

\* The first domain that goes by the name.
find_tdomain(n) == LET i == SelectInSeq(domain_list, LAMBDA d : n \in ToSet(Names[d]))
                   IN  IF i = 0 THEN NoDomain ELSE domain_list[i]

-----------------------------------------------------------------------------
(* netsnmp_tdomain_transport_full.                                          *)

\* First try: a domain named in str.
FirstTry(c) == IF c.name = NoName THEN NoDomain ELSE find_tdomain(c.name)

\* The name of a domain is not part of the address.
WholeAddress(c) == FirstTry(c) = NoDomain

\* Mutant: the program's default is preferred to the one the caller names.
SecondTry_default(c) ==
    LET lookup == D!Lookup(1)
    IN  IF lookup # NoList THEN [match |-> NoDomain, spec |-> lookup]
        ELSE IF c.domains # NoList THEN [match |-> NoDomain, spec |-> c.domains]
        ELSE [match |-> find_tdomain("udp"), spec |-> <<>>]

\* Second try: a path, the caller's domains, the defaults, udp.  A single name
\* is looked up at once, a list is left for the loop.
SecondTry(c) ==
    CASE c.slash -> [match |-> find_tdomain("unix"), spec |-> <<>>]
      [] ~c.slash /\ c.domains # NoList ->
           IF Len(c.domains) = 1 THEN [match |-> find_tdomain(c.domains[1]), spec |-> <<>>]
           ELSE [match |-> NoDomain, spec |-> c.domains]
      [] OTHER ->
           IF D!Lookup(1) = NoList THEN [match |-> find_tdomain("udp"), spec |-> <<>>]
           ELSE [match |-> NoDomain, spec |-> D!Lookup(1)]

Start == \E c \in Wish :
    /\ pc = "idle"
    /\ c.slash => c.name = NoName
    /\ call' = c
    /\ whole' = WholeAddress(c)
    /\ IF FirstTry(c) # NoDomain THEN match' = FirstTry(c) /\ spec' = <<>>
       ELSE match' = SecondTry(c).match /\ spec' = SecondTry(c).spec
    /\ tried' = <<>>
    /\ pc' = "loop"
    /\ UNCHANGED <<domain_list, domains, targets>>

\* A default target the caller gives, or the one set for the domain.
Attempt == [domain |-> match, whole |-> whole,
            target |-> IF call.target # NoTarget THEN call.target ELSE T!Lookup(NumberOf(match))]

CreateSucceeds == /\ pc = "loop" /\ match # NoDomain
                  /\ tried' = Append(tried, Attempt)
                  /\ pc' = "created"
                  /\ UNCHANGED <<domain_list, domains, targets, call, match, spec, whole>>

\* The domain's own function fails, or there is no domain of that name: the next.
CreateFails == /\ pc = "loop"
               /\ tried' = IF match = NoDomain THEN tried ELSE Append(tried, Attempt)
               /\ whole' = TRUE
               /\ IF spec # <<>> THEN /\ match' = find_tdomain(Head(spec))
                                     /\ spec' = Tail(spec) /\ UNCHANGED pc
                  ELSE pc' = "failed" /\ UNCHANGED <<match, spec>>
               /\ UNCHANGED <<domain_list, domains, targets, call>>

Return == /\ pc \in {"created", "failed"}
          /\ pc' = "idle"
          /\ call' = [name |-> NoName, slash |-> FALSE, domains |-> NoList, target |-> NoTarget]
          /\ match' = NoDomain /\ spec' = <<>> /\ whole' = TRUE /\ tried' = <<>>
          /\ UNCHANGED <<domain_list, domains, targets>>

ChoiceNext == \/ \E d \in Domain : RegisterDomain(d) \/ UnregisterDomain(d)
              \/ Configure
              \/ Start \/ CreateSucceeds \/ CreateFails \/ Return

ChoiceSpec == ChoiceInit /\ [][ChoiceNext]_choiceVars

-----------------------------------------------------------------------------
(* Properties.                                                              *)

\* The names a call asks for, in order.
Asked == IF call.name # NoName /\ (\E d \in ToSet(domain_list) : call.name \in ToSet(Names[d]))
         THEN <<call.name>>
         ELSE IF call.slash THEN <<"unix">>
         ELSE IF call.domains # NoList THEN call.domains
         ELSE IF D!Lookup(1) # NoList THEN D!Lookup(1)
         ELSE <<"udp">>

Wanted == Kept([i \in DOMAIN Asked |-> find_tdomain(Asked[i])], Domain)

\* The domains are tried in the order in which their names are asked for, names that
\* are not registered are passed over, none is tried behind one that worked, and
\* the call fails only after all of them.
TriedInOrder == pc # "idle" =>
    LET done == [i \in DOMAIN tried |-> tried[i].domain]
    IN  /\ IsPrefix(done, Wanted)
        /\ pc = "failed" => done = Wanted

\* Whatever else is tried, a domain is given what follows the colon if it is the one
\* named in front of it, and the whole string otherwise: a host name with a port is
\* never cut.
AddressFits == \A i \in DOMAIN tried :
    tried[i].whole = (call.name \notin ToSet(Names[tried[i].domain]))

\* A transport is looked for where it was asked for, with the right part of the address.
TriedRightly == TriedInOrder /\ AddressFits
=============================================================================
