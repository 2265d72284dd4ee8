----------------------------- MODULE Containers -----------------------------
(***************************************************************************)
(* The containers of the library side by side: the array, how it is sorted,*)
(* and the linked list.  They share nothing in the code, so one of them is *)
(* chosen and takes all the steps.                                         *)
(***************************************************************************)
EXTENDS BinaryArray, LinkedList, ArraySort

VARIABLE container    \* the container that is used

containersVars == <<container, arrayVars, listVars, sortVars>>

ContainersInit == /\ container \in {"binary array", "ssll", "qsort"}
                  /\ ArrayInit
                  /\ ListInit
                  /\ container # "ssll" => kind = "fifo"
                  /\ SortInit

ContainersNext == /\ \/ container = "binary array" /\ ArrayNext /\ UNCHANGED <<listVars, sortVars>>
                     \/ container = "ssll" /\ ListNext /\ UNCHANGED <<arrayVars, sortVars>>
                     \/ container = "qsort" /\ SortNext /\ UNCHANGED <<arrayVars, listVars>>
                  /\ UNCHANGED container

ContainersSpec == ContainersInit /\ [][ContainersNext]_containersVars /\ SortFairness

-----------------------------------------------------------------------------
(* Properties.                                                              *)

\* What is handed out while a container changes is sound: the entries of a partial
\* key, and the places of the iterators of arrays and lists.
HandedOutSound == SubsetExact /\ IteratorSound /\ CursorOnList
=============================================================================
