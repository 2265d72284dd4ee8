------------------------------ MODULE Sublists ------------------------------
(***************************************************************************)
(* What is left of a list when a loop over it removes the entries that do  *)
(* not qualify: a recursive function, which can be reasoned about.         *)
(***************************************************************************)
EXTENDS Integers, Sequences

\* The entries of s that are in G, in their order.
Kept(s, G) ==
    LET upto[i \in 0 .. Len(s)] == IF i = 0 THEN <<>>
                                   ELSE IF s[i] \in G THEN Append(upto[i - 1], s[i])
                                   ELSE upto[i - 1]
    IN  upto[Len(s)]
=============================================================================
