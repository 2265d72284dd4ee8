---------------------------- MODULE MCContainers ----------------------------
EXTENDS Containers

\* Two entries of the same key, which share a partial key with a third.
MCEntry == {[key |-> 1, tag |-> 1], [key |-> 2, tag |-> 1],
            [key |-> 2, tag |-> 2], [key |-> 3, tag |-> 1]}

MCItem == MCEntry \ {[key |-> 3, tag |-> 1]}
=============================================================================
