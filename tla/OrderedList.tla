---------------------------- MODULE OrderedList ----------------------------
(***************************************************************************)
(* What a linked-list container promises: a sequence of entries, kept by   *)
(* key or by age, from which entries are taken by key or from the front.   *)
(***************************************************************************)
EXTENDS Integers, SequencesExt

CONSTANTS Item       \* records with a field key, an integer

VARIABLES items,     \* the entries, first to last
          kind       \* "sorted", "lifo" or "fifo"

Kind == {"sorted", "lifo", "fifo"}

Init == items = <<>> /\ kind \in Kind

\* A sorted list keeps entries of the same key in the order of their arrival.
Place(e) == CASE kind = "lifo"   -> 1
              [] kind = "fifo"   -> Len(items) + 1
              [] kind = "sorted" -> Cardinality({i \in DOMAIN items : items[i].key <= e.key}) + 1

Put(e) == items' = InsertAt(items, Place(e), e)

\* The oldest or youngest entry of the key, depending on the kind.
Take(k) == LET hits == {i \in DOMAIN items : items[i].key = k}
           IN  /\ hits # {}
               /\ items' = RemoveAt(items, CHOOSE i \in hits : \A j \in hits : i <= j)

Pop == /\ items # <<>>
       /\ items' = Tail(items)

Empty == items' = <<>>

Next == /\ \/ \E e \in Item : Put(e) \/ Take(e.key)
           \/ Pop
           \/ Empty
        /\ UNCHANGED kind

Spec == Init /\ [][Next]_<<items, kind>>
=============================================================================
