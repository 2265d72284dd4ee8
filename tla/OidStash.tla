------------------------------ MODULE OidStash ------------------------------
(***************************************************************************)
(* The table of snmp/oid_stash.c: data by object identifier, in a tree     *)
(* whose nodes keep their children in hash buckets.  A node is named by    *)
(* the identifier that leads to it; the root is the empty one.             *)
(***************************************************************************)
EXTENDS Integers, SequencesExt

CONSTANTS SubId,            \* subidentifiers
          MaxLen,           \* bound: length of identifiers
          children_size,    \* the number of buckets
          None              \* NULL

ASSUME StashAssumption == /\ SubId \subseteq Nat /\ MaxLen \in Nat
                          /\ children_size \in Nat \ {0}
                          /\ None \notin SubId
                          /\ \A n \in 1 .. MaxLen : None \notin [1 .. n -> SubId]

VARIABLES children,     \* the buckets of each node that there is
          stashed          \* the identifiers for which data was accepted

stashVars == <<children, stashed>>

Oid == UNION {[1 .. n -> SubId] : n \in 1 .. MaxLen}

NewNode == [b \in 0 .. children_size - 1 |-> <<>>]

StashInit == children = [n \in {<<>>} |-> NewNode] /\ stashed = {}

\* The buckets of a node with a child more, at the head of its own.
Linked(buckets, v) == [buckets EXCEPT ![v % children_size] = <<v>> \o @]

HasChild(n, v) == v \in ToSet(children[n][v % children_size])

\* The longest part of an identifier that leads to a node.
Closest(o) == LET found[i \in 0 .. Len(o)] ==
                      i = 0 \/ (found[i - 1] /\ HasChild(SubSeq(o, 1, i - 1), o[i]))
                  last == CHOOSE i \in DOMAIN found : found[i] /\ (i = Len(o) \/ ~found[i + 1])
              IN  SubSeq(o, 1, last)

\* netsnmp_oid_stash_get_node.
GetNode(o) == IF Closest(o) = o THEN o ELSE None

GetData(o) == IF GetNode(o) \in stashed THEN GetNode(o) ELSE None

\* The tree after walking down an identifier, with nodes for what was missing.
WithNodes(o) == LET new == {SubSeq(o, 1, i) : i \in Len(Closest(o)) + 1 .. Len(o)}
                    base == [n \in DOMAIN children \cup new |->
                                 IF n \in new THEN NewNode ELSE children[n]]
                IN  [n \in DOMAIN base |-> IF \E k \in new : n = Front(k)
                                           THEN Linked(base[n], o[Len(n) + 1]) ELSE base[n]]

\* Data that is there already is kept.
AddData == \E o \in Oid : /\ children' = WithNodes(o)
                          /\ stashed' = stashed \cup {o}

\* netsnmp_oid_stash_free, from the root.
FreeStash == /\ children' = [n \in {<<>>} |-> NewNode]
             /\ stashed' = {}

StashNext == AddData \/ FreeStash

StashSpec == StashInit /\ [][StashNext]_stashVars

-----------------------------------------------------------------------------
(* netsnmp_oid_stash_getnext_node.                                          *)

\* The children of a node in the order in which the loops meet them.
InLoopOrder(n) == FlattenSeq([b \in 1 .. children_size |-> children[n][b - 1]])

\* Mutant: the first of the children above the bound ends the search.
LeastChild_first(n, bound) == LET above == {i \in DOMAIN InLoopOrder(n) : InLoopOrder(n)[i] > bound}
                              IN  IF above = {} THEN None ELSE InLoopOrder(n)[Min(above)]

\* The least child above a bound; a child that is smaller than the number of
\* buckets ends the search.
LeastChild(n, bound) ==
    LET order == InLoopOrder(n)
        above == {i \in DOMAIN order : order[i] > bound}
        ends  == {i \in above : order[i] <= children_size - 1}
    IN  IF above = {} THEN None
        ELSE IF ends # {} THEN order[Min(ends)] ELSE Min({order[i] : i \in above})

\* One pass of the loop, at a node and with the children above a bound: down to a
\* child, where the search ends if there is data, or up and past the node left behind.
Pass(s) == LET v     == LeastChild(s.at, s.bound)
               child == Append(s.at, v)
           IN  IF s.done THEN s
               ELSE IF v # None THEN [at |-> child, bound |-> -1, done |-> child \in stashed]
               ELSE IF s.at = <<>> THEN [at |-> None, bound |-> -1, done |-> TRUE]
               ELSE [at |-> Front(s.at), bound |-> Last(s.at), done |-> FALSE]

\* Where the loop ends.  Every node leads to data, so that it climbs to the root at
\* most, and then descends once.
WalkOn(n, bound) ==
    LET after[k \in 0 .. 2 * MaxLen] ==
            IF k = 0 THEN [at |-> n, bound |-> bound, done |-> FALSE] ELSE Pass(after[k - 1])
    IN  after[2 * MaxLen].at

\* The search starts at the closest node, past the subidentifier that comes after
\* the one that was not found.
GetNext(o) == LET i == Len(Closest(o)) + 1
              IN  WalkOn(Closest(o), IF i + 1 <= Len(o) THEN o[i + 1] ELSE -1)

\* netsnmp_oid_stash_store: the identifiers below a node, as many levels down as
\* there can be, in the order they are saved.
Dump == LET below[k \in 0 .. MaxLen] ==
                [n \in DOMAIN children |->
                    IF k = 0 THEN <<>>
                    ELSE FlattenSeq([i \in DOMAIN InLoopOrder(n) |->
                             LET child == Append(n, InLoopOrder(n)[i])
                             IN  (IF child \in stashed THEN <<child>> ELSE <<>>) \o below[k - 1][child]])]
        IN  below[MaxLen][<<>>]

-----------------------------------------------------------------------------
(* Properties.                                                              *)

\* The order of object identifiers.
OidBefore(o, p) == \/ IsStrictPrefix(o, p)
                   \/ \E i \in DOMAIN o \cap DOMAIN p :
                         o[i] < p[i] /\ SubSeq(o, 1, i - 1) = SubSeq(p, 1, i - 1)

Successor(o) == IF \A p \in stashed : ~OidBefore(o, p) THEN None
                ELSE CHOOSE p \in stashed : /\ OidBefore(o, p)
                                              /\ \A q \in stashed : OidBefore(o, q) => p = q \/ OidBefore(p, q)

\* Whatever else shares its buckets and its nodes, data is found under its own
\* identifier and no other, and a node that is only on the way has none.
FindsExactly == \A o \in Oid : GetData(o) = IF o \in stashed THEN o ELSE None

\* All data is written to persistent storage, once.
SavesAll == ToSet(Dump) = stashed /\ Len(Dump) = Cardinality(stashed)

\* From one node to the next, all data is met in the order of object identifiers.
NextFromNode == \A o \in DOMAIN children \ {<<>>} : GetNext(o) = Successor(o)

\* The stash is exact in all it is asked for: by the hash buckets of a lookup, the
\* recursion of a save, and the search of a walk for the least child.
StashExact == FindsExactly /\ SavesAll /\ NextFromNode

=============================================================================
