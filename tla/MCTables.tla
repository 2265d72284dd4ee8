------------------------------ MODULE MCTables ------------------------------
EXTENDS Tables

\* Views of up to two subidentifiers over {1, 2}.  The object identifiers asked about
\* also have a 3, which no view names, and are longer by one.
MCSubtrees == {<<1>>, <<2>>, <<1, 1>>, <<1, 2>>}
MCWild     == {{}, {1}, {2}}
MCQueried  == SeqOf(1..3, 3) \ {<<>>}

\* Two domains share a name.  Defaults name one or both of them and one that there is not.
MCNames == [d1 |-> <<"udp", "ip">>, d2 |-> <<"unix", "ip">>]
MCLists == {<<"ip">>, <<"unix", "other", "udp">>}

\* Two engines share a bucket.
MCBucket(e) == 1

\* The zeros of a probe, a clock that may be true, and one ahead of all.
MCClaimed == {[boot |-> 0, time |-> 0], [boot |-> 1, time |-> 1], [boot |-> BootMax, time |-> TimeMax]}

\* It does not matter which memory a handler is given.
HandlerSymmetry == Permutations(Handler)

\* A context and one that it is a prefix of.
MCContext == {<<1>>, <<1, 2>>}

-----------------------------------------------------------------------------
(* Four modules of MIBs:                                                    *)
(*   A  a ::= { iso 3 1 }, e ::= { d 1 }, l ::= { g }, m ::= { l 1 };        *)
(*      imports d from C                                                    *)
(*   B  b ::= { iso 3 1 }, f ::= { iso 3 2 7 }                              *)
(*   C  org ::= { iso 3 }, c ::= { a 5 }, d ::= { org 2 }; imports a from   *)
(*      A, in a circle                                                      *)
(*   D  g ::= { c 1 }, h ::= { x 1 }, k ::= { iso 3 9 }, n ::= { m 1 },      *)
(*      r ::= { c 2 }, q ::= { r }; imports nothing, and x is nowhere       *)

Leaf(l, p, i) == [label |-> l, parent |-> p, subid |-> i]
From(l, m)    == [label |-> l, mod |-> m]
Unnamed(i)    == <<"anonymous#", i>>

MCNodes ==
    "A" :> <<Leaf(Unnamed(1), <<"iso">>, 3), Leaf(<<"a">>, Unnamed(1), 1), Leaf(<<"e">>, <<"d">>, 1),
             Leaf(<<"l">>, <<"g">>, NoSubid), Leaf(<<"m">>, <<"l">>, 1)>>
 @@ "B" :> <<Leaf(Unnamed(2), <<"iso">>, 3), Leaf(<<"b">>, Unnamed(2), 1),
             Leaf(Unnamed(3), <<"iso">>, 3), Leaf(Unnamed(4), Unnamed(3), 2), Leaf(<<"f">>, Unnamed(4), 7)>>
 @@ "C" :> <<Leaf(<<"org">>, <<"iso">>, 3), Leaf(<<"c">>, <<"a">>, 5), Leaf(<<"d">>, <<"org">>, 2)>>
 @@ "D" :> <<Leaf(<<"g">>, <<"c">>, 1), Leaf(<<"h">>, <<"x">>, 1),
             Leaf(Unnamed(5), <<"iso">>, 3), Leaf(<<"k">>, Unnamed(5), 9),
             Leaf(<<"n">>, <<"m">>, 1), Leaf(<<"r">>, <<"c">>, 2), Leaf(<<"q">>, <<"r">>, NoSubid)>>

MCImports == "A" :> <<From(<<"d">>, "C")>> @@ "B" :> <<>>
          @@ "C" :> <<From(<<"a">>, "A")>> @@ "D" :> <<>>
=============================================================================
