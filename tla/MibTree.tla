------------------------------- MODULE MibTree -------------------------------
(***************************************************************************)
(* How snmp/parse.c builds the tree of object identifiers.  A module that  *)
(* is read first reads the modules it imports from, and then links its     *)
(* nodes under what it imports; nodes whose parent is not there yet wait   *)
(* as orphans.  A definition like { iso 3 1 } makes a node without a name  *)
(* for 3, which is merged with the named one when that comes; one like     *)
(* { org } makes a second node at the place of org.  Unloading a module    *)
(* leaves the nodes that others need.                                      *)
(***************************************************************************)
EXTENDS Integers, SequencesExt

CONSTANTS Mod,          \* modules that have a file
          Imports,      \* [Mod -> Seq of [label, mod]], mod may have no file
          Nodes,        \* [Mod -> Seq of [label, parent, subid]]
          NoSubid,      \* the subid of name ::= { parent }
          MaxParses     \* bound: modules parsed

VARIABLES mib,     \* the tree and the lists of the parser, see MibInit
          settled  \* auxiliary: the orphans have been adopted since the last change

mibVars == <<mib, settled>>

\* A label is a tuple: <<name>>, or <<ANON, i, parse>>.
Anon(l) == l[1] = "anonymous#"

\* The list at tree_head is that of the children of 0.
MibInit == /\ settled = TRUE
           /\ mib = [node    |-> 0 :> [label |-> <<"">>, subid |-> 0, mods |-> {"base"}, full |-> TRUE, kids |-> <<1>>]
                                 @@ 1 :> [label |-> <<"iso">>, subid |-> 1, mods |-> {"base"}, full |-> TRUE, kids |-> <<>>],
                     hash    |-> <<1>>,    \* tbuckets: the node put in last is first
                     nodes   |-> <<>>,     \* nbuckets
                     orphans |-> <<>>, loaded |-> {}, parses |-> 0]

-----------------------------------------------------------------------------
(* The tree.                                                                *)

Fresh(s) == CHOOSE i \in 1..(Cardinality(DOMAIN s.node) + 1) : i \notin DOMAIN s.node

FirstOf(seq, P(_)) == LET i == SelectInSeq(seq, P) IN IF i = 0 THEN 0 ELSE seq[i]

Find(s, l, m) == FirstOf(s.hash, LAMBDA n : s.node[n].label = l /\ m \in s.node[n].mods)

FindAny(s, l) == FirstOf(s.hash, LAMBDA n : s.node[n].label = l)

Kid(s, n, i) == FirstOf(s.node[n].kids, LAMBDA k : s.node[k].subid = i)

\* Unlinked from its peers and from the hash.
FreeNode(s, n) == [s EXCEPT !.node = [p \in DOMAIN s.node \ {n} |-> [s.node[p] EXCEPT !.kids = Remove(@, n)]],
                            !.hash = Remove(@, n)]

ParentOf(s, n) == CHOOSE p \in DOMAIN s.node : n \in Range(s.node[p].kids)

\* The last of the peers behind a node that have its subidentifier.
Xroot(s, n) ==
    LET peers == s.node[ParentOf(s, n)].kids
        at    == SelectInSeq(peers, LAMBDA k : k = n)
        run   == {j \in at..Len(peers) : \A i \in at..j : s.node[peers[i]].subid = s.node[n].subid}
    IN  peers[Max(run)]

\* As a child of p, before the one that is now at that place.
InsertNode(s, p, at, new, d) ==
    [s EXCEPT !.node = [@ EXCEPT ![p].kids = InsertAt(@, at, new)]
                       @@ new :> [label |-> d.label, subid |-> d.subid, mods |-> {d.mod}, full |-> TRUE, kids |-> <<>>],
              !.hash = <<new>> \o @]

-----------------------------------------------------------------------------
(* merge_anon_children.                                                     *)

RECURSIVE Merge(_, _, _)

\* Two nodes with the same label stay two; of two with different ones the second goes
\* and its children move to the first.
MergeChild(s, c, b) ==
    LET n == s.node
        m == FirstOf(n[b].kids, LAMBDA k : /\ n[k].subid = n[c].subid
                                           /\ Anon(n[c].label) \/ Anon(n[k].label) \/ n[k].label # n[c].label)
    IN  IF m = 0 THEN [s EXCEPT !.node[b].kids = <<c>> \o @]
        ELSE IF Anon(n[c].label) THEN FreeNode(Merge(s, c, m), c)
        ELSE IF Anon(n[m].label) THEN LET t == FreeNode(Merge(s, m, c), m) IN [t EXCEPT !.node[b].kids = <<c>> \o @]
        ELSE FreeNode([s EXCEPT !.node[m].kids = @ \o n[c].kids], c)

Merge(s, a, b) == FoldLeft(LAMBDA t, c : MergeChild(t, c, b), [s EXCEPT !.node[a].kids = <<>>], s.node[a].kids)

\* The old node takes everything over from the new one but the number of its modules:
\* one that is in no module any more stays in none.
TakeOver(s, old, new) ==
    LET t    == FreeNode(s, new)
        mods == IF s.node[old].mods = {} THEN {} ELSE s.node[new].mods
    IN  [t EXCEPT !.node[old] = [s.node[new] EXCEPT !.mods = mods], !.hash = <<old>> \o Remove(@, old)]

-----------------------------------------------------------------------------
(* do_subtree: the nodes whose parent is root move into the tree.           *)

RECURSIVE DoSubtree(_, _)

\* A new node goes to the end, or in front of old, the one with its subidentifier.
\* For name ::= { parent } old is the parent itself, but the new node goes to the front
\* of all its peers.
Link(s, x, d) ==
    LET beside == d.subid = NoSubid
        p      == IF beside THEN ParentOf(s, x) ELSE x
        i      == IF beside THEN s.node[x].subid ELSE d.subid
        old    == IF beside THEN x ELSE Kid(s, x, i)
        peers  == s.node[p].kids
        at     == IF beside THEN 1 ELSE IF old = 0 THEN Len(peers) + 1 ELSE SelectInSeq(peers, LAMBDA k : k = old)
        new    == Fresh(s)
    IN  IF old # 0 /\ s.node[old].label = d.label
        THEN DoSubtree([s EXCEPT !.node[old].mods = @ \cup {d.mod}], old)
        ELSE LET t == DoSubtree(InsertNode(s, p, at, new, [d EXCEPT !.subid = i]), new)
             IN  IF old = 0 THEN t
                 ELSE IF Anon(d.label) THEN FreeNode(Merge(t, new, old), new)
                 ELSE IF Anon(s.node[old].label) THEN TakeOver(Merge(t, old, new), old, new)
                 ELSE t

DoSubtree(s, root) ==
    LET Mine(d) == d.parent = s.node[root].label
        x       == Xroot(s, root)
    IN  FoldLeft(LAMBDA t, d : Link(t, x, d),
                 [s EXCEPT !.nodes = SelectSeq(@, LAMBDA d : ~Mine(d))], SelectSeq(s.nodes, Mine))

-----------------------------------------------------------------------------
(* Reading and unloading.                                                   *)

\* Every parse numbers the nodes without a name anew.
Parsed(m, parse) ==
    LET Numbered(l) == IF Anon(l) THEN Append(l, parse) ELSE l
    IN  [i \in DOMAIN Nodes[m] |-> [label |-> Numbered(Nodes[m][i].label), parent |-> Numbered(Nodes[m][i].parent),
                                    subid |-> Nodes[m][i].subid, mod |-> m]]

\* Mutant: what is left is dropped.
Linkup_drop(s, m) ==
    LET Import(t, i) == LET n == IF i.mod \in Mod THEN Find(t, i.label, i.mod) ELSE FindAny(t, i.label)
                        IN  IF n = 0 THEN t ELSE DoSubtree(t, n)
        linked       == FoldLeft(Import, [s EXCEPT !.nodes = Reverse(Parsed(m, s.parses))], Imports[m])
    IN  [FoldLeft(DoSubtree, linked, linked.node[0].kids) EXCEPT !.nodes = <<>>]

\* Under what is imported, and under the roots; what is left becomes an orphan, before
\* the others if its parent is left as well.
Linkup(s, m) ==
    LET Import(t, i) == LET n == IF i.mod \in Mod THEN Find(t, i.label, i.mod) ELSE FindAny(t, i.label)
                        IN  IF n = 0 THEN t ELSE DoSubtree(t, n)
        linked       == FoldLeft(Import, [s EXCEPT !.nodes = Reverse(Parsed(m, s.parses))], Imports[m])
        rooted       == FoldLeft(DoSubtree, linked, linked.node[0].kids)
        Internal(d)  == \E i \in DOMAIN rooted.nodes : rooted.nodes[i].label = d.parent
    IN  [rooted EXCEPT !.orphans = Reverse(SelectSeq(rooted.nodes, Internal)) \o @
                                   \o SelectSeq(rooted.nodes, LAMBDA d : ~Internal(d)),
                       !.nodes = <<>>]

RECURSIVE Read(_, _)
\* Marked as read before its imports are, so that a circle ends.
Read(s, m) ==
    IF m \notin Mod \ s.loaded THEN s
    ELSE LET t == FoldLeft(LAMBDA u, i : Read(u, i.mod), [s EXCEPT !.loaded = @ \cup {m}], Imports[m])
         IN  Linkup([t EXCEPT !.parses = @ + 1], m)

RECURSIVE Adopted(_)
Adopted(s) == LET i == SelectInSeq(s.nodes, LAMBDA d : FindAny(s, d.parent) # 0)
              IN  IF i = 0 THEN [s EXCEPT !.orphans = s.nodes, !.nodes = <<>>]
                  ELSE Adopted(DoSubtree(s, FindAny(s, s.nodes[i].parent)))

RECURSIVE UnloadNode(_, _, _)

\* A node in no module stays while it has children, without what it said.
UnloadNode(s, m, n) ==
    LET t == FoldLeft(LAMBDA u, k : UnloadNode(u, m, k), [s EXCEPT !.node[n].mods = @ \ {m}], s.node[n].kids)
    IN  IF t.node[n].mods # {} THEN t
        ELSE IF t.node[n].kids = <<>> THEN FreeNode(t, n)
        ELSE [t EXCEPT !.node[n].full = FALSE]

-----------------------------------------------------------------------------

ReadModule(m) == /\ m \notin mib.loaded /\ mib.parses < MaxParses
                 /\ mib' = Read(mib, m) /\ settled' = FALSE

\* At the end of netsnmp_init_mib.
AdoptOrphans == /\ mib' = Adopted([mib EXCEPT !.nodes = Reverse(mib.orphans), !.orphans = <<>>])
                /\ settled' = TRUE

\* The module need only be known.
UnloadModule(m) ==
    /\ mib' = [FoldLeft(LAMBDA s, k : UnloadNode(s, m, k), mib, mib.node[0].kids) EXCEPT !.loaded = @ \ {m}]
    /\ settled' = FALSE

MibNext == (\E m \in Mod : ReadModule(m) \/ UnloadModule(m)) \/ AdoptOrphans

MibSpec == MibInit /\ [][MibNext]_mibVars

-----------------------------------------------------------------------------
(* What the definitions mean.                                               *)

\* The definitions of some modules, in which a node without a name has its own.
Defined(mods) == UNION {Range(Parsed(m, 0)) : m \in mods}

RECURSIVE Meaning(_, _)
\* Object identifiers that labels have by the definitions, found step by step.
Meaning(defs, known) ==
    LET more == {[label |-> d.label, oid |-> IF d.subid = NoSubid THEN p.oid ELSE Append(p.oid, d.subid)] :
                 <<d, p>> \in {dp \in defs \X known : dp[1].parent = dp[2].label}}
    IN  IF more \subseteq known THEN known ELSE Meaning(defs, known \cup more)

Means(mods) == {p \in Meaning(Defined(mods), {[label |-> <<"iso">>, oid |-> <<1>>]}) : ~Anon(p.label)}

RECURSIVE PlacesBelow(_, _, _)
PlacesBelow(s, n, oid) ==
    UNION {LET o == Append(oid, s.node[k].subid)
           IN  {[label |-> s.node[k].label, oid |-> o]} \cup PlacesBelow(s, k, o) : k \in Range(s.node[n].kids)}

Places == {p \in PlacesBelow(mib, 0, <<>>) : ~Anon(p.label)}

\* What all modules together define.
Definable == Means(Mod)

Sole(p) == \A q \in Definable : q.oid = p.oid => q = p

\* The places that an object shares with its parent.
Shared == {q.oid : q \in {q \in Definable : \E d \in Defined(Mod) : d.subid = NoSubid /\ d.label = q.label}}

BelowShared(p) == \E oid \in Shared : IsPrefix(oid, p.oid)

-----------------------------------------------------------------------------
(* Properties.                                                              *)

\* In whatever order modules are read, unloaded and read again, once the orphans are
\* adopted every object that the loaded modules define is where its definition says.
\* Objects that share their identifier with another name are left out: one of the names
\* may be freed when a node without a name gets one.
Complete == settled => \A p \in Means(mib.loaded) : Sole(p) => p \in Places

\* Nothing is where no definition puts it, and no such object is there twice.  Objects
\* below a name ::= { parent } are left out: a name that has stayed for its children is
\* not found when its module is read again, unless its parent comes next.
NothingElse == /\ Places \subseteq Definable
               /\ \A p \in Places : Sole(p) /\ ~BelowShared(p)
                                       => Cardinality({n \in DOMAIN mib.node : mib.node[n].label = p.label}) = 1

\* A node that is in no module any more is there for the sake of its children.
NoDeadwood == \A n \in DOMAIN mib.node : mib.node[n].mods = {} => mib.node[n].kids # <<>>

\* The tree is what the definitions of the loaded modules say, and no more.
TreeExact == Complete /\ NothingElse /\ NoDeadwood
=============================================================================
