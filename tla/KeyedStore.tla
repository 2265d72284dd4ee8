----------------------------- MODULE KeyedStore -----------------------------
(***************************************************************************)
(* What include/library/container.h promises of a container, whatever it   *)
(* is made of: it holds entries that have a key, finds the entry of a key  *)
(* and the entry of the next higher key, and forgets what is removed.      *)
(* Nothing is said of sorting, of memory, or of iterators.                 *)
(***************************************************************************)
EXTENDS Integers

CONSTANTS Entry,     \* records with a field key, an integer
          NoEntry    \* NULL

VARIABLES held,      \* the entries in the container
          unique,    \* it refuses a second entry with the same key
          ordered,   \* it keeps its entries in the order of their keys
          found      \* the latest question and its answer, or NoEntry

vars == <<held, unique, ordered, found>>

Init == /\ held = {}
        /\ unique \in BOOLEAN
        /\ ordered \in BOOLEAN
        /\ found = NoEntry

WithKey(k) == {e \in held : e.key = k}

Above(k) == {e \in held : e.key > k}

Least(S) == {e \in S : \A f \in S : e.key <= f.key}

Answer(query, k, S) ==
    /\ found' \in [query : {query}, key : {k}, entry : IF S = {} THEN {NoEntry} ELSE S]
    /\ UNCHANGED <<held, unique, ordered>>

Silent == found' = NoEntry

-----------------------------------------------------------------------------

Configure == /\ held = {}
             /\ unique' \in BOOLEAN
             /\ ordered' \in BOOLEAN
             /\ Silent /\ UNCHANGED held

Put(e) == /\ unique => WithKey(e.key) = {}
          /\ held' = held \cup {e}
          /\ Silent /\ UNCHANGED <<unique, ordered>>

Take(e) == /\ e \in held
           /\ held' = held \ {e}
           /\ Silent /\ UNCHANGED <<unique, ordered>>

Empty == /\ held' = {}
         /\ Silent /\ UNCHANGED <<unique, ordered>>

Find(k) == Answer("find", k, WithKey(k))

\* There is no next higher key in a container that keeps no order.
FindNext(k) == Answer("find next", k, IF ordered THEN Least(Above(k)) ELSE {})

First == Answer("first", 0, IF ordered THEN Least(held) ELSE held)

\* An operation that is refused, or that is about something else.
NoEffect == Silent /\ UNCHANGED <<held, unique, ordered>>

Next == \/ Configure
        \/ \E e \in Entry : Put(e) \/ Take(e) \/ Find(e.key) \/ FindNext(e.key)
        \/ Empty
        \/ First
        \/ NoEffect

Spec == Init /\ [][Next]_vars
=============================================================================
