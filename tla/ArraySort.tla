----------------------------- MODULE ArraySort -----------------------------
(***************************************************************************)
(* array_qsort of snmp/container_binary_array.c: how the array container   *)
(* is sorted.  The recursion is a stack of ranges still to be sorted; one  *)
(* step is one turn of the partitioning loop.  Indices start at 1.         *)
(***************************************************************************)
EXTENDS Integers, SequencesExt

CONSTANTS SortKeys,    \* keys that are compared
          MaxLength    \* of the arrays that are sorted

ASSUME SortAssumption == SortKeys \subseteq Int /\ MaxLength \in Nat

VARIABLES input,       \* auxiliary: the array as it was given
          array,       \* data
          ranges,      \* calls to come, the next one low
          stage,       \* "idle", "loop", "return" or "sorted"
          low, high,   \* the range of the running call
          iUp, jDown, mid  \* its local variables

sortVars == <<input, array, ranges, stage, low, high, iUp, jDown, mid>>

SortInit == /\ input = <<>>
            /\ array = <<>>
            /\ ranges = <<>>
            /\ stage = "idle"
            /\ low = 0 /\ high = 0
            /\ iUp = 0 /\ jDown = 0 /\ mid = 0

\* Sort_Array calls it for an array of at least two entries.
Start == /\ stage = "idle"
         /\ \E n \in 2 .. MaxLength : \E s \in [1 .. n -> SortKeys] :
              /\ input' = s
              /\ array' = s
              /\ ranges' = <<<<1, n>>>>
         /\ stage' = "return"
         /\ UNCHANGED <<low, high, iUp, jDown, mid>>

\* The next call.  The pivot is the middle entry, by value: its place may change.
Call == /\ stage = "return" /\ ranges # <<>>
        /\ LET r == Head(ranges)
           IN  /\ low' = r[1] /\ high' = r[2]
               /\ iUp' = r[1] /\ jDown' = r[2]
               /\ mid' = array[(r[1] - 1 + r[2] - 1) \div 2 + 1]
        /\ ranges' = Tail(ranges)
        /\ stage' = "loop"
        /\ UNCHANGED <<input, array>>

\* Where the two inner loops stop.
Up == CHOOSE a \in iUp .. high :
        /\ a = high \/ array[a] >= mid
        /\ \A b \in iUp .. a - 1 : array[b] < mid

Down == CHOOSE a \in low .. jDown :
          /\ a = low \/ mid >= array[a]
          /\ \A b \in a + 1 .. jDown : mid < array[b]

Swapped(a, b) == [array EXCEPT ![a] = array[b], ![b] = array[a]]

\* Mutant: entries change places even if the two sides have passed each other.
Turn_crossed(a, b) == /\ array' = IF a # b THEN Swapped(a, b) ELSE array
                      /\ iUp' = IF a <= b THEN a + 1 ELSE a
                      /\ jDown' = IF a <= b THEN b - 1 ELSE b

\* One turn: two entries on the wrong sides change places.
Turn(a, b) == /\ array' = IF a < b THEN Swapped(a, b) ELSE array
              /\ iUp' = IF a <= b THEN a + 1 ELSE a
              /\ jDown' = IF a <= b THEN b - 1 ELSE b

Partition == /\ stage = "loop"
             /\ Turn(Up, Down)
             /\ stage' = IF Up # Down /\ iUp' <= jDown' THEN "loop" ELSE "recurse"
             /\ UNCHANGED <<input, ranges, low, high, mid>>

\* The two halves; a half of one entry or none needs no call.
Recurse == /\ stage = "recurse"
           /\ ranges' = (IF jDown > low THEN <<<<low, jDown>>>> ELSE <<>>)
                          \o (IF iUp < high THEN <<<<iUp, high>>>> ELSE <<>>) \o ranges
           /\ stage' = "return"
           /\ UNCHANGED <<input, array, low, high, iUp, jDown, mid>>

Finish == /\ stage = "return" /\ ranges = <<>>
          /\ stage' = "sorted"
          /\ UNCHANGED <<input, array, ranges, low, high, iUp, jDown, mid>>

SortNext == Start \/ Call \/ Partition \/ Recurse \/ Finish

SortFairness == WF_sortVars(Call \/ Partition \/ Recurse \/ Finish)

SortSpec == SortInit /\ [][SortNext]_sortVars /\ SortFairness

-----------------------------------------------------------------------------
(* Properties.                                                              *)

Count(s, k) == Cardinality({n \in DOMAIN s : s[n] = k})

\* The array is in order and holds what it was given, however many keys are equal.
Sorting == /\ \A m, n \in DOMAIN array : m < n => array[m] <= array[n]
           /\ \A k \in SortKeys : Count(array, k) = Count(input, k)

\* Whenever the sorting ends, it has sorted.
SortedRight == stage = "sorted" => Sorting

\* The sorting of any array ends, and then it has sorted.
SortCorrect == (stage # "idle") ~> (stage = "sorted" /\ Sorting)
=============================================================================
