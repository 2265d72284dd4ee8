---------------------------- MODULE BinaryArray ----------------------------
(***************************************************************************)
(* The array container of snmp/container_binary_array.c, with one iterator *)
(* on it.  Insertion appends and marks the array dirty; whatever needs the *)
(* order sorts it first.                                                   *)
(*                                                                         *)
(* Entries are the objects the application stores, compared by their key.  *)
(* container->sync is only ever compared with the copy of it an iterator   *)
(* holds, so the model keeps the difference, lag.                          *)
(***************************************************************************)
EXTENDS Integers, SequencesExt

CONSTANTS Entry,       \* the objects that may be stored: records with a key
          NoEntry,     \* NULL
          FirstSize    \* the elements first allocated for: 10 in the code

ASSUME ArrayAssumption == /\ \A e \in Entry : e.key \in Nat
                          /\ NoEntry \notin Entry
                          /\ FirstSize \in Nat \ {0}

VARIABLES
    data,        \* t->data[0 .. t->count - 1]
    maxSize,     \* t->max_size
    dirty,       \* t->dirty
    duplicates,  \* CONTAINER_KEY_ALLOW_DUPLICATES
    unsorted,    \* CONTAINER_KEY_UNSORTED
    found,       \* what the latest operation was asked and returned, if it is a search
    pos,         \* it->pos, with -1 for the wrapped 0 - 1
    lag,         \* c->sync - it->base.sync: 0 in sync, 1 for every positive value
    view,        \* auxiliary: data as it was when the iterator was last in its hands
    overtaken    \* auxiliary: the iterator removed the last entry since its reset

store == <<data, maxSize, dirty, duplicates, unsorted>>
iterator == <<pos, lag, view, overtaken>>
arrayVars == <<store, found, iterator>>

ArrayInit == /\ data = <<>>
             /\ maxSize = 0
             /\ dirty = FALSE
             /\ duplicates = FALSE
             /\ unsorted = FALSE
             /\ found = NoEntry
             /\ pos = 0
             /\ lag = 1
             /\ view = <<>>
             /\ overtaken = FALSE

Keys == {e.key : e \in Entry}

\* ++c->sync, n times.  An iterator that is behind stays behind.
Bump(n) == /\ lag' = IF lag + n > 0 THEN 1 ELSE lag + n
           /\ view' = IF lag' = 1 THEN <<>> ELSE view
           /\ UNCHANGED <<pos, overtaken>>

-----------------------------------------------------------------------------
(* Sorting and searching.                                                   *)

InOrder(s) == \A i, j \in DOMAIN s : i < j => s[i].key <= s[j].key

\* What array_qsort may make of s; ArraySort models how.
Sortings(s) == {t \in SetToSeqs(ToSet(s)) : InOrder(t)}

\* Sort_Array has something to do.
Sorts == dirty /\ ~unsorted

Sorted == IF Sorts THEN Sortings(data) ELSE {data}

\* The loop of a search by halves in n entries, where below holds the indices that
\* are below what is sought, and hit those at which it ends at once.  A turn
\* leaves where to look, from 0, and how far.
Halved(n, below, hit) ==
    LET turn[i \in 0 .. n] ==
          IF i = 0 THEN <<0, n>>
          ELSE LET first  == turn[i - 1][1]
                   len    == turn[i - 1][2]
                   half   == len \div 2
                   middle == first + half
               IN  IF len = 0 THEN <<first, 0>>
                   ELSE IF middle + 1 \in below THEN <<middle + 1, len - half - 1>>
                   ELSE IF middle + 1 \in hit THEN <<middle, 0>>
                   ELSE <<first, half>>
    IN  turn[n][1]

\* The loop of binary_search: the index, from 0, at which it stops.
Probe(s, k) == Halved(Len(s), {i \in DOMAIN s : s[i].key < k}, {i \in DOMAIN s : s[i].key = k})

\* Indices count from 1 here and in what follows, with 0 for -1.
At(i, s) == IF i < Len(s) THEN i + 1 ELSE 0

Linear(s, k) == LET hits == {i \in DOMAIN s : s[i].key = k}
                IN  IF hits = {} THEN 0 ELSE CHOOSE i \in hits : \A j \in hits : i <= j

SearchExact(s, k) ==
    IF unsorted THEN Linear(s, k)
    ELSE LET i == At(Probe(s, k), s)
         IN  IF i # 0 /\ s[i].key = k THEN i ELSE 0

\* Mutant: only the first duplicate is skipped.
SearchNext_once(s, k) ==
    IF unsorted THEN 0
    ELSE LET i == At(Probe(s, k), s)
         IN  IF i # 0 /\ s[i].key = k THEN At(i, s) ELSE i

\* binary_search with exact = 0, and the skipping of duplicates in get.  The
\* skipping starts where the search has stopped, maybe inside the duplicates.
SearchNext(s, k) ==
    IF unsorted THEN 0
    ELSE LET i     == At(Probe(s, k), s)
             next  == IF i # 0 /\ s[i].key = k THEN At(i, s) ELSE i
             above == {j \in DOMAIN s : j >= next /\ s[j].key # k}
         IN  IF next = 0 \/ ~duplicates THEN next
             ELSE IF above = {} THEN 0
             ELSE CHOOSE j \in above : \A m \in above : j <= m

EntryAt(s, i) == IF i = 0 THEN NoEntry ELSE s[i]

\* Whatever reads the array sorts it first; the order is all that changes.
Arrange(s) == /\ data' = s
              /\ dirty' = (dirty /\ ~Sorts)
              /\ UNCHANGED <<maxSize, duplicates, unsorted>>
              /\ Bump(IF Sorts THEN 1 ELSE 0)

-----------------------------------------------------------------------------
(* The operations on the container.                                         *)

NoResult == found' = NoEntry

\* Options are set on a container that was just created.
SetOptions == /\ data = <<>> /\ ~dirty
              /\ duplicates' \in BOOLEAN
              /\ unsorted' \in BOOLEAN
              /\ NoResult
              /\ UNCHANGED <<data, maxSize, dirty, iterator>>

\* netsnmp_binary_array_get: an empty array is left as it is, dirty or not.
Search(query, k, Index(_)) ==
    IF data = <<>> THEN /\ found' = [query |-> query, key |-> k, entry |-> NoEntry]
                        /\ UNCHANGED <<store, iterator>>
    ELSE \E s \in Sorted : /\ found' = [query |-> query, key |-> k, entry |-> EntryAt(s, Index(s))]
                           /\ Arrange(s)

FindExact(k) == Search("find", k, LAMBDA s : SearchExact(s, k))

FindAfter(k) == Search("find next", k, LAMBDA s : SearchNext(s, k))

FindFirst == Search("first", 0, LAMBDA s : 1)

\* for_each and get_subset sort as well; what they find is in Subset.
ForEach == /\ \E s \in Sorted : Arrange(s)
           /\ NoResult

\* The array has an entry with this key and takes no second one.
Refuses(s, e) == ~duplicates /\ SearchExact(s, e.key) # 0

Full == Len(data) >= maxSize

\* The duplicate test of netsnmp_binary_array_insert sorts the array, if it
\* is made and the array is not empty.
Tested == IF duplicates \/ data = <<>> THEN {data} ELSE Sorted

InsertRefused(e) == \E s \in Tested : /\ Refuses(s, e)
                                      /\ Arrange(s)
                                      /\ NoResult

\* realloc may fail only after the duplicate test.
InsertNoMemory(e) == \E s \in Tested :
    /\ Full
    /\ ~Refuses(s, e)
    /\ IF duplicates \/ data = <<>> THEN UNCHANGED <<store, iterator>> ELSE Arrange(s)
    /\ NoResult

\* sync is incremented by Sort_Array or, unless the array was dirty, by insert.
InsertBumps ==
    LET wasDirty == ~duplicates /\ dirty
        sorted   == ~duplicates /\ data # <<>> /\ Sorts
    IN  (IF sorted THEN 1 ELSE 0) + (IF wasDirty THEN 0 ELSE 1)

\* The application stores an object once.
Insert(e) == \E s \in Tested :
    /\ e \notin ToSet(data)
    /\ ~Refuses(s, e)
    /\ data' = Append(s, e)
    /\ maxSize' = IF ~Full THEN maxSize ELSE IF maxSize > 0 THEN 2 * maxSize ELSE FirstSize
    /\ dirty' = TRUE
    /\ Bump(InsertBumps)
    /\ NoResult
    /\ UNCHANGED <<duplicates, unsorted>>

\* Mutant: sync is incremented only when the last entry goes.
RemoveBumps_last(s, i) == IF i = Len(s) THEN 1 ELSE 0

\* netsnmp_binary_array_remove_at does not count the removal of the last entry.
RemoveBumps(s, i) == IF i = Len(s) THEN 0 ELSE 1

RemoveKey(k) ==
    /\ data # <<>>
    /\ \E s \in Sorted :
         LET i == SearchExact(s, k)
         IN  IF i = 0 THEN Arrange(s)
             ELSE /\ data' = RemoveAt(s, i)
                  /\ dirty' = (dirty /\ ~Sorts)
                  /\ Bump((IF Sorts THEN 1 ELSE 0) + RemoveBumps(s, i))
                  /\ UNCHANGED <<maxSize, duplicates, unsorted>>
    /\ NoResult

Clear == /\ data' = <<>>
         /\ dirty' = FALSE
         /\ Bump(1)
         /\ NoResult
         /\ UNCHANGED <<maxSize, duplicates, unsorted>>

-----------------------------------------------------------------------------
(* The iterator.                                                            *)

InSync == lag = 0

\* _ba_iterator_position
Current == IF InSync /\ pos + 1 \in DOMAIN data THEN data[pos + 1] ELSE NoEntry

\* The iterator is made, or used again.
IterReset == \E s \in Sorted :
    /\ data' = s
    /\ dirty' = (dirty /\ ~Sorts)
    /\ pos' = 0
    /\ lag' = 0
    /\ view' = s
    /\ overtaken' = FALSE
    /\ NoResult
    /\ UNCHANGED <<maxSize, duplicates, unsorted>>

\* A caller goes on until it is given NULL.
IterNext == /\ pos < Len(data)
            /\ pos' = pos + 1
            /\ NoResult
            /\ UNCHANGED <<store, lag, view, overtaken>>

\* A caller removes the entry it was given: ++it->base.sync always,
\* ++c->sync unless it was the last entry.
IterRemove ==
    LET i == pos + 1 IN
    /\ Current # NoEntry
    /\ data' = RemoveAt(data, i)
    /\ lag' = RemoveBumps(data, i) - 1
    /\ view' = RemoveAt(data, i)
    /\ overtaken' = (overtaken \/ i = Len(data))
    /\ pos' = pos - 1
    /\ NoResult
    /\ UNCHANGED <<maxSize, dirty, duplicates, unsorted>>

ArrayNext == \/ SetOptions
             \/ \E e \in Entry : Insert(e) \/ InsertRefused(e) \/ InsertNoMemory(e)
             \/ \E k \in Keys : FindExact(k) \/ FindAfter(k) \/ RemoveKey(k)
             \/ FindFirst
             \/ ForEach
             \/ Clear
             \/ IterReset
             \/ IterNext
             \/ IterRemove

ArraySpec == ArrayInit /\ [][ArrayNext]_arrayVars

-----------------------------------------------------------------------------
(* Partial keys: the entries whose key has the same leading part.           *)

Prefix(k) == k \div 2

\* binary_search_for_start: it halves until it is at the first match.
SubsetStart(s, p) ==
    LET i == At(Halved(Len(s), {j \in DOMAIN s : Prefix(s[j].key) < p}, {}), s)
    IN  IF i # 0 /\ Prefix(s[i].key) = p THEN i ELSE 0

\* netsnmp_binary_array_get_subset: from the start, as long as entries match.
Subset(s, p) ==
    LET start == SubsetStart(s, p)
        ends  == {i \in start + 1 .. Len(s) : Prefix(s[i].key) # p}
        end   == IF ends = {} THEN Len(s)
                 ELSE (CHOOSE i \in ends : \A j \in ends : i <= j) - 1
    IN  IF start = 0 THEN <<>> ELSE SubSeq(s, start, end)

-----------------------------------------------------------------------------
(* Properties.                                                              *)

\* get_subset returns every entry that matches the partial key, and no other,
\* although it looks at a part of the array only (container.h:176).
SubsetExact == (~unsorted /\ ~dirty) =>
    \A k \in Keys : ToSet(Subset(data, Prefix(k)))
                      = {e \in ToSet(data) : Prefix(e.key) = Prefix(k)}

\* An iterator that is in sync walks over the array as it was when it was
\* reset, less what it removed itself: nothing that was inserted, moved or
\* sorted since is handed out at a wrong place.  Two cases are left out that
\* the code does get wrong: an iterator that has removed the last entry has
\* counted one change too many, so that it is in sync again after a change
\* of somebody else, and an array that is kept unsorted takes new entries
\* without counting them.
IteratorSound == (InSync /\ ~overtaken /\ ~unsorted) => IsPrefix(data, view)

Store == INSTANCE KeyedStore WITH held <- ToSet(data), unique <- ~duplicates,
                                  ordered <- ~unsorted

\* The array is a keyed store: sorting late, searching by halves and moving
\* entries about cannot be told from a set of entries.
ImplementsStore == Store!Spec
=============================================================================
