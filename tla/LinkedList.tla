----------------------------- MODULE LinkedList -----------------------------
(***************************************************************************)
(* The singly linked list container of snmp/container_list_ssll.c, node by *)
(* node, with one iterator on it.  A node that is freed may be the next    *)
(* one malloc returns.                                                     *)
(*                                                                         *)
(* As in BinaryArray, the model keeps whether container->sync is still the *)
(* copy the iterator holds.                                                *)
(***************************************************************************)
EXTENDS Integers, SequencesExt

CONSTANTS Item,      \* the objects that may be stored: records with a key
          Node,      \* the memory of list nodes
          Null

ASSUME ListAssumption == /\ IsFiniteSet(Node)
                         /\ \A e \in Item : e.key \in Int
                         /\ Null \notin Node \cup Item

VARIABLES
    kind,       \* sl->unsorted and sl->fifo
    head,       \* sl->head
    next,       \* node->next
    item,       \* node->data, Null for memory that is free
    count,      \* sl->count
    inSync,     \* it->base.sync = c->sync
    at,         \* it->pos
    last        \* it->last

nodes == <<kind, head, next, item, count>>
cursor == <<inSync, at, last>>
listVars == <<nodes, cursor>>

Kind == {"sorted", "lifo", "fifo"}

ListInit == /\ kind \in Kind
            /\ head = Null
            /\ next = [n \in Node |-> Null]
            /\ item = [n \in Node |-> Null]
            /\ count = 0
            /\ inSync = FALSE
            /\ at = Null
            /\ last = Null

\* The node n and those behind it, i of them at most.
Walk(n, i) == LET go[j \in 0 .. i] ==
                    IF j = 0 THEN IF n = Null THEN <<>> ELSE <<n>>
                    ELSE LET w == go[j - 1]
                         IN  IF Len(w) < j \/ next[w[j]] = Null THEN w
                             ELSE Append(w, next[w[j]])
              IN  go[i]

Chain == Walk(head, Cardinality(Node))

Free == {n \in Node : item[n] = Null}

Key(n) == item[n].key

\* The node of a list of nodes before the one at i.
Before(c, i) == IF i = 1 THEN Null ELSE c[i - 1]

\* The first index of the chain that satisfies a test, or 0.
FirstIndex(c, Test(_)) ==
    LET hits == {i \in DOMAIN c : Test(c[i])}
    IN  IF hits = {} THEN 0 ELSE CHOOSE i \in hits : \A j \in hits : i <= j

-----------------------------------------------------------------------------
(* Changes.  Each one makes the iterator stale.                              *)

Stale == inSync' = FALSE /\ UNCHANGED <<at, last>>

\* Mutant: a new entry goes before those of the same key.
Predecessor_before(e) ==
    LET c == Chain
        i == FirstIndex(c, LAMBDA n : Key(n) >= e.key)
    IN  IF kind = "lifo" THEN Null
        ELSE IF kind = "fifo" \/ i = 0 THEN c[Len(c)]
        ELSE Before(c, i)

\* The node the new one goes behind, Null for the head of the list.
Predecessor(e) ==
    LET c == Chain
        i == FirstIndex(c, LAMBDA n : Key(n) > e.key)
    IN  IF kind = "lifo" THEN Null
        ELSE IF kind = "fifo" \/ i = 0 THEN c[Len(c)]
        ELSE Before(c, i)

\* _ssll_insert; without memory it returns before it changes anything.
ListInsert(e) == \E new \in Free :
    /\ item' = [item EXCEPT ![new] = e]
    /\ count' = count + 1
    /\ IF head = Null THEN head' = new /\ next' = [next EXCEPT ![new] = Null]
       ELSE LET p == Predecessor(e)
            IN  IF p = Null THEN /\ head' = new
                                 /\ next' = [next EXCEPT ![new] = head]
                ELSE /\ next' = [next EXCEPT ![new] = next[p], ![p] = new]
                     /\ UNCHANGED head
    /\ Stale
    /\ UNCHANGED kind

\* A sorted list need not be searched beyond this node.
Stops(n, k) == kind = "sorted" /\ Key(n) > k

\* The node of _ssll_remove at which the search ends, as an index; it tests
\* the head for equality before anything else.
Removable(k) ==
    LET c == Chain
        i == FirstIndex(c, LAMBDA n : Key(n) = k \/ Stops(n, k))
    IN  IF i # 0 /\ Key(c[i]) = k THEN i ELSE 0

\* The node at i leaves the list.  What its memory holds is never read again;
\* malloc clears it.
Unlink(i) ==
    LET n == Chain[i]  p == Before(Chain, i)
    IN  IF p = Null THEN head' = next[n] /\ next' = [next EXCEPT ![n] = Null]
        ELSE next' = [next EXCEPT ![p] = next[n], ![n] = Null] /\ UNCHANGED head

Release(i) == /\ Unlink(i)
              /\ item' = [item EXCEPT ![Chain[i]] = Null]
              /\ count' = count - 1
              /\ Stale
              /\ UNCHANGED kind

ListRemove(k) == /\ head # Null
                 /\ Removable(k) # 0
                 /\ Release(Removable(k))

\* _ssll_remove without data takes the first entry.
ListPop == head # Null /\ Release(1)

ListClear == /\ head' = Null
             /\ next' = [n \in Node |-> Null]
             /\ item' = [n \in Node |-> Null]
             /\ count' = 0
             /\ Stale
             /\ UNCHANGED kind

-----------------------------------------------------------------------------
(* Searches change nothing.                                                 *)

DataOf(c, i) == IF i = 0 THEN Null ELSE item[c[i]]

\* Where the search of _get stops: at the key, or in a sorted list at the
\* first greater one.
StopIndex(c, k) == FirstIndex(c, LAMBDA n : Key(n) = k \/ Stops(n, k))

\* _ssll_find: _get with exact = 1.
ListFind(k) == LET c == Chain IN DataOf(c, StopIndex(c, k))

-----------------------------------------------------------------------------
(* The iterator.  It reads nothing of the list unless it is in sync.        *)

ListIterReset == /\ inSync' = TRUE
                 /\ at' = head
                 /\ last' = Null
                 /\ UNCHANGED nodes

ListIterNext == /\ inSync /\ at # Null
                /\ at' = next[at]
                /\ UNCHANGED <<inSync, last, nodes>>

\* The last node is looked for from the current one on, and remembered.
ListIterLast == /\ inSync /\ last = Null
                /\ LET from == IF at # Null THEN at ELSE head
                       rest == Walk(from, Cardinality(Node))
                   IN  from # Null /\ last' = rest[Len(rest)]
                /\ UNCHANGED <<inSync, at, nodes>>

ListNext == \/ \E e \in Item : ListInsert(e) \/ ListRemove(e.key)
            \/ ListPop
            \/ ListClear
            \/ ListIterReset
            \/ ListIterNext
            \/ ListIterLast

ListSpec == ListInit /\ [][ListNext]_listVars

-----------------------------------------------------------------------------
(* Properties.                                                              *)

\* An iterator that is in sync stands on a node of the list or behind its
\* end, and the last node it remembers is the last: a node that was freed
\* and maybe allocated again is never followed.
CursorOnList == inSync => /\ at \in ToSet(Chain) \cup {Null}
                          /\ last # Null => last = Chain[Len(Chain)]

Contents == [i \in DOMAIN Chain |-> item[Chain[i]]]

List == INSTANCE OrderedList WITH items <- Contents

\* The nodes and pointers make a list in the order of its kind.
ImplementsList == List!Spec
=============================================================================
