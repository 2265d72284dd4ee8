------------------------------ MODULE AfdxSnmp ------------------------------
(***************************************************************************)
(* The program's own code side by side: main with the calls it makes, the  *)
(* transmission of one board, and the ARP lookup.  In the code, main calls *)
(* the board through the transport, and nothing calls the lookup.  What    *)
(* SnmpGet assumes of a transmission, that it may fail or succeed without  *)
(* main knowing, is all that the board lets it know, so one of the three   *)
(* is chosen and takes all the steps.                                      *)
(***************************************************************************)
EXTENDS SnmpGet, AfdxBoard, ArpResolver

VARIABLE part    \* the part that is looked at

programVars == <<part, getVars, boardVars, arpVars>>

ProgramInit == /\ part \in {"main", "board", "arp"}
               /\ GetInit /\ BoardInit /\ ArpInit

ProgramNext ==
    /\ \/ part = "main" /\ GetNext /\ UNCHANGED <<boardVars, arpVars>>
       \/ part = "board" /\ BoardNext /\ UNCHANGED <<getVars, arpVars>>
       \/ part = "arp" /\ ArpNext /\ UNCHANGED <<getVars, boardVars>>
    /\ UNCHANGED part

\* The fairness of main, where main is looked at, and of the lookup's threads.
ProgramSpec == /\ ProgramInit /\ [][ProgramNext]_programVars
               /\ WF_getVars(part = "main" /\ MainStep)
               /\ CallFairness
               /\ ArpFairness
=============================================================================
