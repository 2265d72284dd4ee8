----------------------------- MODULE AccessTable -----------------------------
(***************************************************************************)
(* The access entries of one or more groups in snmp/vacm.c: a list in      *)
(* order of its index, and the choice among the entries that apply to a    *)
(* request, which comes down to comparing two of them at a time.           *)
(***************************************************************************)
EXTENDS Integers, SequencesExt

CONSTANTS Group, Context,   \* Context: sequences of characters, which are numbers
          Model,            \* security models, 0 is SNMP_SEC_MODEL_ANY
          Level,
          MaxEntries,       \* bound: entries in the list
          NoAccess           \* NULL

AccessEntry   == [group : Group, context : Context, model : Model, level : Level, match : {"exact", "prefix"}]

ASSUME AccessAssumption == /\ Group \subseteq Nat /\ 0 \in Model /\ Model \subseteq Nat
                           /\ Level \subseteq Nat \ {0} /\ MaxEntries \in Nat
                           /\ Context \subseteq Seq(Nat) /\ NoAccess \notin AccessEntry

VARIABLE access

Request == [group : Group, context : Context, model : Model \ {0}, level : Level]

AccessInit == access = <<>>

\* Strings carry their length in front, so that a shorter one is smaller.
Index(e) == <<e.group, Len(e.context)>> \o e.context \o <<e.model, e.level>>

IndexLess(d, e) == \E i \in DOMAIN Index(d) \cap DOMAIN Index(e) :
                       /\ Index(d)[i] < Index(e)[i]
                       /\ \A j \in 1..(i - 1) : Index(d)[j] = Index(e)[j]

\* Mutant: new entries go to the front.
CreateAccess_front(e) == access' = <<e>> \o access

\* A second entry of the same index goes behind the first.  The caller sets contextMatch
\* of the entry at once, which is not in the index.
CreateAccess(e) == LET i == SelectInSeq(access, LAMBDA d : IndexLess(e, d))
                   IN  access' = InsertAt(access, IF i = 0 THEN Len(access) + 1 ELSE i, e)

DestroyAccess(e) == LET i == SelectInSeq(access, LAMBDA d : Index(d) = Index(e))
                    IN  i # 0 /\ access' = RemoveAt(access, i)

DestroyAll == access' = <<>>

-----------------------------------------------------------------------------

Applies(e, r) == /\ e.group = r.group /\ e.model \in {r.model, 0} /\ e.level <= r.level
                 /\ IF e.match = "exact" THEN e.context = r.context ELSE IsPrefix(e.context, r.context)

\* The four criteria are alternatives, and none of them looks back at an earlier one.
ChooseBest(current, candidate) ==
    IF \/ current = NoAccess
       \/ current.model = 0 /\ candidate.model # 0
       \/ current.match = "prefix" /\ candidate.match = "exact"
       \/ current.match = "prefix" /\ Len(current.context) < Len(candidate.context)
       \/ current.level < candidate.level
    THEN candidate ELSE current

GetAccess(r) ==
    LET upto[i \in 0 .. Len(access)] ==
            IF i = 0 THEN NoAccess
            ELSE IF Applies(access[i], r) THEN ChooseBest(upto[i - 1], access[i])
            ELSE upto[i - 1]
    IN  upto[Len(access)]

-----------------------------------------------------------------------------

AccessNext == \/ Len(access) < MaxEntries /\ \E e \in AccessEntry : CreateAccess(e)
              \/ \E e \in AccessEntry : DestroyAccess(e)
              \/ DestroyAll

AccessSpec == AccessInit /\ [][AccessNext]_access

-----------------------------------------------------------------------------
(* Properties.                                                              *)

Candidates(r) == {e \in Range(access) : Applies(e, r)}

\* For requests whose candidates share one context the choice is that of RFC 3415, the
\* model of the request first and the highest level after it: the comparison of two
\* would not give it in every order, the order of the list does.
BestOfContext ==
    \A r \in Request :
        (\A d, e \in Candidates(r) : d.context = e.context /\ d.match = e.match) =>
        LET own == {e \in Candidates(r) : e.model = r.model}
            of  == IF own # {} THEN own ELSE Candidates(r)
        IN  of # {} => GetAccess(r) \in of /\ \A e \in of : e.level <= GetAccess(r).level
=============================================================================
