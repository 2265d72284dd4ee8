------------------------------ MODULE FdEvents ------------------------------
(***************************************************************************)
(* External file descriptors in the event loop, snmp/fd_event_manager.c:   *)
(* one table for each kind of event, a round that asks which descriptors   *)
(* to select and dispatches those that were reported, and callbacks that   *)
(* register and unregister descriptors meanwhile.                          *)
(***************************************************************************)
EXTENDS Integers, Sequences, FiniteSets

CONSTANTS Kinds,              \* number of kinds: read, write and exception are 1, 2 and 3
          Fd,                 \* file descriptors
          NumExternalFds,     \* NUM_EXTERNAL_FDS, the length of each table
          MaxRegistrations    \* bound: registrations made

ASSUME FdAssumption == /\ Kinds \in 1 .. 3
                       /\ NumExternalFds \in Nat \ {0}
                       /\ MaxRegistrations \in Nat

Kind == 1 .. Kinds
Slot == 0 .. NumExternalFds - 1

\* An entry of a table; reg tells the registrations of a descriptor apart.
Unused == [fd |-> 0, reg |-> 0]

VARIABLES
    fdTable,        \* external_readfd, external_readfdfunc, ... of each kind
    fdLen,          \* external_readfdlen, ...
    registrations,  \* auxiliary: registrations so far
    unregistered,   \* external_fd_unregistered
    fdPhase,        \* "idle", "selected", "scan" or "callback"
    fdKind, fdSlot, \* where the dispatch loops are
    fdBits,         \* readfds, ...: the bits that are set
    fdCount,        \* *count
    watched,        \* auxiliary: the registrations select was asked about
    reported,       \* auxiliary: the descriptors it reported
    called          \* auxiliary: what this round has called, in order

fdTables  == <<fdTable, fdLen, registrations, unregistered>>
fdLoops   == <<fdPhase, fdKind, fdSlot, fdBits, fdCount>>
fdVars    == <<fdTables, fdLoops, watched, reported, called>>

FdInit == /\ fdTable = [k \in Kind |-> [n \in Slot |-> Unused]]
          /\ fdLen = [k \in Kind |-> 0]
          /\ registrations = 0
          /\ unregistered = FALSE
          /\ fdPhase = "idle"
          /\ fdKind = 1 /\ fdSlot = 0
          /\ fdBits = {}
          /\ fdCount = 0
          /\ watched = {} /\ reported = {} /\ called = <<>>

Registered(k) == {fdTable[k][n] : n \in 0 .. fdLen[k] - 1}

\* The application runs: between rounds, between select and the dispatch, and
\* in callbacks.
AppRuns == fdPhase # "scan"

-----------------------------------------------------------------------------

\* register_readfd, register_writefd, register_exceptfd; a full table refuses.
RegisterFd(k, fd) ==
    /\ AppRuns
    /\ registrations < MaxRegistrations
    /\ fdLen[k] < NumExternalFds
    /\ registrations' = registrations + 1
    /\ fdTable' = [fdTable EXCEPT ![k][fdLen[k]] = [fd |-> fd, reg |-> registrations + 1]]
    /\ fdLen' = [fdLen EXCEPT ![k] = @ + 1]
    /\ UNCHANGED <<unregistered, fdLoops, watched, reported, called>>

FirstEntry(k, fd) == {n \in 0 .. fdLen[k] - 1 :
                    /\ fdTable[k][n].fd = fd
                    /\ \A m \in 0 .. n - 1 : fdTable[k][m].fd # fd}

\* Entry n leaves, the later ones move down; the slot behind the last entry
\* keeps what it held.
Shifted(t, n, len) == [m \in Slot |-> IF m \in n .. len - 2 THEN t[m + 1] ELSE t[m]]

\* Mutant: the dispatch loops are not told.
UnregisterFd_silent(k, fd) ==
    /\ AppRuns
    /\ \E n \in FirstEntry(k, fd) : fdTable' = [fdTable EXCEPT ![k] = Shifted(@, n, fdLen[k])]
    /\ fdLen' = [fdLen EXCEPT ![k] = @ - 1]
    /\ UNCHANGED <<registrations, unregistered, fdLoops, watched, reported, called>>

\* unregister_readfd, ...: the first entry of this descriptor.
UnregisterFd(k, fd) ==
    /\ AppRuns
    /\ \E n \in FirstEntry(k, fd) : fdTable' = [fdTable EXCEPT ![k] = Shifted(@, n, fdLen[k])]
    /\ fdLen' = [fdLen EXCEPT ![k] = @ - 1]
    /\ unregistered' = TRUE
    /\ UNCHANGED <<registrations, fdLoops, watched, reported, called>>

\* netsnmp_external_event_info2, and select: count includes the descriptors
\* of sessions that are ready, which nobody takes off it again.
EventInfo ==
    /\ fdPhase = "idle"
    /\ unregistered' = FALSE
    /\ watched' = UNION {{k} \X Registered(k) : k \in Kind}
    /\ \E ready \in SUBSET {<<w[1], w[2].fd>> : w \in watched'}, sessions \in {0, 1} :
          /\ fdBits' = ready
          /\ reported' = ready
          /\ fdCount' = Cardinality(ready) + sessions
    /\ fdPhase' = "selected"
    /\ called' = <<>>
    /\ UNCHANGED <<fdTable, fdLen, registrations, fdKind, fdSlot>>

\* netsnmp_dispatch_external_events2.
Dispatch == /\ fdPhase = "selected"
            /\ fdPhase' = "scan"
            /\ fdKind' = 1 /\ fdSlot' = 0
            /\ UNCHANGED <<fdTables, fdBits, fdCount, watched, reported, called>>

\* The condition of the three loops.
GoesOn == fdCount > 0 /\ fdSlot < fdLen[fdKind] /\ ~unregistered

CallFd == /\ fdPhase = "scan"
          /\ GoesOn
          /\ <<fdKind, fdTable[fdKind][fdSlot].fd>> \in fdBits
          /\ fdPhase' = "callback"
          /\ called' = Append(called, <<fdKind, fdTable[fdKind][fdSlot]>>)
          /\ UNCHANGED <<fdTables, fdKind, fdSlot, fdBits, fdCount, watched, reported>>

SkipFd == /\ fdPhase = "scan"
          /\ GoesOn
          /\ <<fdKind, fdTable[fdKind][fdSlot].fd>> \notin fdBits
          /\ fdSlot' = fdSlot + 1
          /\ UNCHANGED <<fdTables, fdPhase, fdKind, fdBits, fdCount, watched, reported, called>>

\* The callback returns; the bit of whatever slot i now holds is cleared.
FdReturns == /\ fdPhase = "callback"
             /\ fdBits' = fdBits \ {<<fdKind, fdTable[fdKind][fdSlot].fd>>}
             /\ fdCount' = fdCount - 1
             /\ fdSlot' = fdSlot + 1
             /\ fdPhase' = "scan"
             /\ UNCHANGED <<fdTables, fdKind, watched, reported, called>>

\* After the last loop the sets and the count, the caller's, are not used again.
NextLoop == /\ fdPhase = "scan"
            /\ ~GoesOn
            /\ IF fdKind = Kinds
               THEN /\ fdPhase' = "idle"
                    /\ fdKind' = 1
                    /\ fdBits' = {} /\ fdCount' = 0
               ELSE /\ fdKind' = fdKind + 1
                    /\ UNCHANGED <<fdPhase, fdBits, fdCount>>
            /\ fdSlot' = 0
            /\ UNCHANGED <<fdTables, watched, reported, called>>

FdNext == \/ \E k \in Kind, fd \in Fd : RegisterFd(k, fd) \/ UnregisterFd(k, fd)
          \/ EventInfo \/ Dispatch \/ CallFd \/ SkipFd \/ FdReturns \/ NextLoop

FdSpec == FdInit /\ [][FdNext]_fdVars

-----------------------------------------------------------------------------
(* Properties.                                                              *)

CalledSet == {called[n] : n \in DOMAIN called}

\* A round calls nobody who was not registered when select was asked, or
\* whose descriptor was not reported, even if a descriptor is closed, used
\* again and registered anew in a callback; nobody twice; and, if nothing
\* was unregistered meanwhile, every descriptor that was reported.
RoundExact ==
    /\ \A c \in CalledSet : c \in watched /\ <<c[1], c[2].fd>> \in reported
    /\ Len(called) = Cardinality(CalledSet)
    /\ (fdPhase = "idle" /\ ~unregistered) => reported = {<<c[1], c[2].fd>> : c \in CalledSet}
=============================================================================
