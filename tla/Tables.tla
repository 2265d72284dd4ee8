------------------------------- MODULE Tables -------------------------------
(***************************************************************************)
(* What the library keeps in tables and lists side by side: the stash, the *)
(* defaults of transports and the choice made by them, access control, the *)
(* MIB tree, the handlers of the log, and the clocks of remote engines.    *)
(* They share nothing in the code but the table of defaults, of which      *)
(* TransportChoice has instances of its own, so one of them is chosen and  *)
(* takes all the steps.                                                    *)
(***************************************************************************)
EXTENDS OidStash, DefaultTable, TransportChoice, ViewTable, AccessTable, MibTree,
        LogHandlers, EngineTime

VARIABLE structure    \* the structure that is used

lookupVars  == <<stashVars, table, views, access, mibVars>>
serviceVars == <<choiceVars, logVars, timeVars>>
tablesVars  == <<structure, lookupVars, serviceVars>>

TablesInit == /\ structure \in {"stash", "defaults", "views", "access", "mibs",
                                "choice", "log", "time"}
              /\ StashInit
              /\ TableInit
              /\ ViewInit
              /\ AccessInit
              /\ MibInit
              /\ ChoiceInit
              /\ LogInit
              /\ TimeInit
              /\ structure # "time" => \A e \in Engine : truth[e].time = 0

LookupNext ==
    \/ structure = "stash" /\ StashNext /\ UNCHANGED <<table, views, access, mibVars>>
    \/ structure = "defaults" /\ TableNext /\ UNCHANGED <<stashVars, views, access, mibVars>>
    \/ structure = "views" /\ ViewNext /\ UNCHANGED <<stashVars, table, access, mibVars>>
    \/ structure = "access" /\ AccessNext /\ UNCHANGED <<stashVars, table, views, mibVars>>
    \/ structure = "mibs" /\ MibNext /\ UNCHANGED <<stashVars, table, views, access>>

ServiceNext ==
    \/ structure = "choice" /\ ChoiceNext /\ UNCHANGED <<logVars, timeVars>>
    \/ structure = "log" /\ LogNext /\ UNCHANGED <<choiceVars, timeVars>>
    \/ structure = "time" /\ TimeNext /\ UNCHANGED <<choiceVars, logVars>>

TablesNext == /\ \/ LookupNext /\ UNCHANGED serviceVars
                 \/ ServiceNext /\ UNCHANGED lookupVars
              /\ UNCHANGED structure

TablesSpec == TablesInit /\ [][TablesNext]_tablesVars
=============================================================================
