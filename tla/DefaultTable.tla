---------------------------- MODULE DefaultTable ----------------------------
(***************************************************************************)
(* The two tables of snmp/snmp_service.c, default domains and default      *)
(* targets, which are the same code twice: a list in order of the keys,    *)
(* which are the application, or the application and the domain.  An entry *)
(* is there as long as one of its two values is.                           *)
(***************************************************************************)
EXTENDS Integers, SequencesExt, Sublists

CONSTANTS TableKey,      \* numbers, in the order of strcmp
          Value,
          NoValue   \* NULL

ASSUME TableAssumption == TableKey \subseteq Int /\ NoValue \notin Value

VARIABLE table      \* the list: entries with key, user and default

TableInit == table = <<>>

\* Where the loop over the list stops: at the entry of the key, or where it belongs.
Place(k) == LET i == SelectInSeq(table, LAMBDA e : e.key >= k)
            IN  IF i = 0 THEN Len(table) + 1 ELSE i

Present(k) == Place(k) \in DOMAIN table /\ table[Place(k)].key = k

\* The entry of a key, which is made if there is none.
EntryOf(k) == IF Present(k) THEN table[Place(k)]
              ELSE [key |-> k, user |-> NoValue, default |-> NoValue]

With(e) == IF Present(e.key) THEN ReplaceAt(table, Place(e.key), e)
           ELSE InsertAt(table, Place(e.key), e)

Without(k) == IF Present(k) THEN RemoveAt(table, Place(k)) ELSE table

RegisterDefault(k, v) ==
    LET e == [EntryOf(k) EXCEPT !.default = v]
    IN  table' = IF e.default = NoValue /\ e.user = NoValue THEN Without(k) ELSE With(e)

\* A second default for the same key is an error of the configuration.
RegisterUser(k, v) == LET e == EntryOf(k)
                      IN  table' = IF e.user # NoValue THEN table ELSE With([e EXCEPT !.user = v])

\* Mutant: an entry goes as soon as the user has set it.
ClearUser_all == table' = Kept(table, {e \in ToSet(table) : e.user = NoValue})

ClearUser == LET kept == Kept(table, {e \in ToSet(table) : e.default # NoValue})
             IN  table' = [i \in DOMAIN kept |-> [kept[i] EXCEPT !.user = NoValue]]

ClearDefault == table' = <<>>

Lookup(k) == LET e == EntryOf(k) IN IF e.user # NoValue THEN e.user ELSE e.default

TableNext == \/ \E k \in TableKey, v \in Value \cup {NoValue} : RegisterDefault(k, v)
             \/ \E k \in TableKey, v \in Value : RegisterUser(k, v)
             \/ ClearUser \/ ClearDefault

TableSpec == TableInit /\ [][TableNext]_table

-----------------------------------------------------------------------------
(* Properties.                                                              *)

Map == INSTANCE OverridingMap
       WITH Key <- TableKey, default <- [k \in TableKey |-> EntryOf(k).default], 
            user <- [k \in TableKey |-> EntryOf(k).user]

\* An entry is there once, and only as long as it has a value: no memory is kept
\* for keys that nobody sets.
NoIdleEntries == \A i \in DOMAIN table : /\ table[i].user # NoValue \/ table[i].default # NoValue
                                         /\ \A j \in DOMAIN table : table[i].key = table[j].key => i = j

\* However entries come and go, the table is a map in which the user's word counts
\* and is taken back without a loss of the program's, and it keeps what it needs only.
ImplementsMap == Map!Spec /\ []NoIdleEntries
=============================================================================
