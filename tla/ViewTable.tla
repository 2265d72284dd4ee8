------------------------------ MODULE ViewTable ------------------------------
(***************************************************************************)
(* The views of snmp/vacm.c: a list of families of subtrees, each included *)
(* or excluded and each with a mask of subidentifiers that may be          *)
(* anything, and the two questions asked of it: which entry decides for    *)
(* one object identifier, and whether a whole subtree is decided alike.    *)
(***************************************************************************)
EXTENDS Integers, SequencesExt

CONSTANTS ViewName,       \* names of views, numbers in the order of memcmp
          Subtrees,    \* the object identifiers given to create, sequences of numbers
          Wild,       \* the masks, as the positions whose bit is 0
          Queried,      \* the object identifiers asked about
          MaxViews,   \* bound: entries in the list
          NoView      \* NULL

View == [name : ViewName, subtree : Subtrees, wild : Wild, type : {"included", "excluded"}]

\* A subtree that a view names may be asked about.
ASSUME ViewAssumption == /\ ViewName \subseteq Nat /\ MaxViews \in Nat
                         /\ Queried \subseteq Seq(Nat) /\ Subtrees \subseteq Queried
                         /\ \A w \in Wild : w \subseteq Nat \ {0}
                         /\ NoView \notin View

VARIABLE views

ViewInit == views = <<>>

\* As snmp_oid_compare orders what create stores: the length is the first element.
OidLess(s, t) == \/ Len(s) < Len(t)
                 \/ Len(s) = Len(t) /\ \E i \in DOMAIN s : s[i] < t[i] /\ \A j \in 1..(i - 1) : s[j] = t[j]

\* Create does not look for an entry of the same index: a second one goes behind it.
\* The caller sets the type and the mask of the entry at once.
CreateView(v) ==
    LET i == SelectInSeq(views, LAMBDA e : \/ e.name > v.name
                                           \/ e.name = v.name /\ OidLess(v.subtree, e.subtree))
    IN  views' = InsertAt(views, IF i = 0 THEN Len(views) + 1 ELSE i, v)

\* Destroy compares what it is given with what is stored, where the length is in front.
DestroyView(n, oid) ==
    LET i == SelectInSeq(views, LAMBDA e : e.name = n /\ <<Len(e.subtree)>> \o e.subtree = oid)
    IN  i # 0 /\ views' = RemoveAt(views, i)

ClearViews == views' = <<>>

-----------------------------------------------------------------------------

\* Up to the end of the shorter of the two, whatever the mask leaves open.
Alike(e, oid) == \A i \in DOMAIN e.subtree \cap DOMAIN oid : i \in e.wild \/ e.subtree[i] = oid[i]

Covers(e, n, oid) == e.name = n /\ Len(e.subtree) <= Len(oid) /\ Alike(e, oid)

Inside(n, oid) == {e \in Range(views) : e.name = n /\ Len(e.subtree) > Len(oid) /\ Alike(e, oid)}

\* The longest that covers it, and of these the greatest, and of these the first.
ViewGet(n, oid) ==
    LET upto[i \in 0 .. Len(views)] ==
            IF i = 0 THEN NoView
            ELSE IF /\ Covers(views[i], n, oid)
                    /\ upto[i - 1] = NoView \/ OidLess(upto[i - 1].subtree, views[i].subtree)
            THEN views[i] ELSE upto[i - 1]
    IN  upto[Len(views)]

Includes(v) == v # NoView /\ v.type = "included"

\* Mutant: entries inside the subtree are compared with each other only.
SubtreeCheck_inside(n, oid) ==
    LET types == {e.type : e \in Inside(n, oid)}
    IN  IF types = {"included", "excluded"} THEN "unknown"
        ELSE IF Includes(ViewGet(n, oid)) THEN "success" ELSE "notinview"

SubtreeCheck(n, oid) ==
    LET types == {e.type : e \in Inside(n, oid)}
        all   == IF Includes(ViewGet(n, oid)) THEN "included" ELSE "excluded"
    IN  IF types \ {all} # {} THEN "unknown"
        ELSE IF all = "included" THEN "success" ELSE "notinview"

-----------------------------------------------------------------------------

ViewNext == \/ Len(views) < MaxViews /\ \E v \in View : CreateView(v)
            \/ \E n \in ViewName, oid \in Queried : DestroyView(n, oid)
            \/ ClearViews

ViewSpec == ViewInit /\ [][ViewNext]_views

-----------------------------------------------------------------------------
(* Properties.                                                              *)

\* The views there are: those with an entry.
Views == {v.name : v \in Range(views)}

Below == [oid \in Queried |-> {o \in Queried : IsPrefix(oid, o)}]

\* A caller that has checked a subtree need not ask again inside of it: every object
\* identifier below is decided as the subtree is.
SubtreeSound == \A n \in Views, oid \in Queried :
                    /\ SubtreeCheck(n, oid) = "success" => \A o \in Below[oid] : Includes(ViewGet(n, o))
                    /\ SubtreeCheck(n, oid) = "notinview" => \A o \in Below[oid] : ~Includes(ViewGet(n, o))

\* Without masks, and with one entry for a subtree, only a subtree that has both is
\* unknown.  With a mask an entry may hide another of the same length completely, and
\* the answer is only careful.
UnknownIsMixed ==
    /\ \A v \in Range(views) : v.wild = {}
    /\ \A i, j \in DOMAIN views : i # j => <<views[i].name, views[i].subtree>> # <<views[j].name, views[j].subtree>>
    => \A n \in Views, oid \in Queried :
           SubtreeCheck(n, oid) = "unknown" => {Includes(ViewGet(n, o)) : o \in Below[oid]} = BOOLEAN

\* The answer about a subtree can be relied on, and is no more careful than it must be.
SubtreeDecided == SubtreeSound /\ UnknownIsMixed
=============================================================================
