-------------------------- MODULE CallbackRegistry --------------------------
(***************************************************************************)
(* The callback lists of snmp/callback.c, one for each event.  A callback  *)
(* may register, unregister and call callbacks itself; a lock per event,   *)
(* a counter that is waited for and then ignored, tells the list is being  *)
(* traversed.                                                              *)
(***************************************************************************)
EXTENDS Integers, SequencesExt, Sublists

CONSTANTS Events,        \* <<major, minor>> pairs, as numbers: the order of clear_callback
          Entries,       \* struct snmp_gen_callback
          Function(_),   \* the sc_callback an entry is registered with
          Argument(_),   \* its sc_client_arg, or NoArg
          Priority(_),
          NoArg,
          MaxCalls,      \* bound: calls inside calls
          MaxDrift       \* bound: how far below 0 a lock count is taken on

ASSUME RegistryAssumption == /\ Events \subseteq Int
                             /\ \A c \in Entries : Priority(c) \in Int
                             /\ MaxCalls \in Nat \ {0}
                             /\ MaxDrift \in Nat

VARIABLES
    thecallbacks,  \* the list of each event
    marked,        \* entries whose sc_callback was set to NULL
    clientArg,     \* scp->sc_client_arg
    locks,         \* _locks
    calls,         \* the calls of snmp_call_callbacks under way, outermost first
    cleared,       \* the events clear_callback is done with
    argsFreed      \* auxiliary: how often each client argument was freed

registryVars == <<thecallbacks, marked, clientArg, locks, calls, cleared, argsFreed>>

Args == {Argument(c) : c \in Entries} \ {NoArg}

RegistryInit == /\ thecallbacks = [e \in Events |-> <<>>]
                /\ marked = {}
                /\ clientArg = [c \in Entries |-> NoArg]
                /\ locks = [e \in Events |-> 0]
                /\ calls = <<>>
                /\ cleared = {}
                /\ argsFreed = [a \in Args |-> 0]

Allocated == UNION {ToSet(thecallbacks[e]) : e \in Events}

\* The application may use the list of this event now, in callbacks of the
\* event as well; what a lock count may drift to is bounded.
Usable(e) == cleared = {} /\ locks[e] >= -MaxDrift

\* The entries whose callbacks are running.
Running == {calls[n].entry : n \in DOMAIN calls}

\* _callback_lock: after 100 ms it returns without the lock; nobody looks at
\* what it returns, and _callback_unlock counts down in any case.
Locked(e) == IF locks[e] >= 1 THEN locks[e] ELSE locks[e] + 1

LockedOnly(e) == locks' = [locks EXCEPT ![e] = Locked(e) - 1]

-----------------------------------------------------------------------------
(* Changing the lists.                                                      *)

\* Behind every entry of the same or a more urgent priority.
Place(e, c) ==
    Cardinality({d \in ToSet(thecallbacks[e]) : Priority(d) <= Priority(c)}) + 1

\* An argument that was freed is not used again.
RegisterCallback(e, c) ==
    /\ Usable(e)
    /\ c \notin Allocated
    /\ LockedOnly(e)
    /\ thecallbacks' = [thecallbacks EXCEPT ![e] = InsertAt(@, Place(e, c), c)]
    /\ clientArg' = [clientArg EXCEPT ![c] = Argument(c)]
    /\ UNCHANGED <<marked, calls, cleared, argsFreed>>

\* The entries of an event that unregistering finds: those of the function,
\* and of the argument if matchargs is set.
Targets(e, f, a, matchargs) ==
    {c \in ToSet(thecallbacks[e]) \ marked : /\ Function(c) = f
                                             /\ matchargs => clientArg[c] = a}

\* Entries are freed if the lock count is 1, and only marked otherwise.  The
\* count is 1 also where the lock was not taken, in a callback of the event;
\* to free an entry whose callback is running, which the code does not
\* prevent, leaves the caller a freed entry and has no successor here.  To
\* unregister nothing still uses the lock, as does registering without memory.
UnregisterCallback(e, f, a, matchargs) ==
    LET S == Targets(e, f, a, matchargs)
    IN  /\ Usable(e)
        /\ Locked(e) = 1 => S \cap Running = {}
        /\ LockedOnly(e)
        /\ IF Locked(e) = 1
           THEN /\ thecallbacks' = [thecallbacks EXCEPT ![e] = Kept(@, Entries \ S)]
                /\ clientArg' = [c \in Entries |-> IF c \in S THEN NoArg ELSE clientArg[c]]
                /\ UNCHANGED marked
           ELSE /\ marked' = marked \cup S
                /\ UNCHANGED <<thecallbacks, clientArg>>
        /\ UNCHANGED <<calls, cleared, argsFreed>>

\* Mutant: only the entry's own argument is cleared.
Shares_not(c, d) == c = d

\* netsnmp_callback_clear_client_arg finds d when the argument of c is freed.
Shares(c, d) == clientArg[c] = clientArg[d]

\* clear_callback, one event: of several entries with the same argument the
\* first one frees it and clears it in the others, in this event and later.
ClearEvent(e) ==
    /\ calls = <<>>
    /\ e \notin cleared
    /\ \A d \in Events : d < e => d \in cleared
    /\ LET list  == thecallbacks[e]
           owns  == {n \in DOMAIN list : list[n] \notin marked /\ clientArg[list[n]] # NoArg}
           frees == {n \in owns : \A m \in owns : m < n => ~Shares(list[m], list[n])}
       IN  /\ argsFreed' = [a \in Args |->
                 argsFreed[a] + Cardinality({n \in frees : clientArg[list[n]] = a})]
           /\ clientArg' = [c \in Entries |->
                 IF c \in ToSet(list) \/ (c \notin marked /\ \E n \in frees : Shares(list[n], c))
                 THEN NoArg ELSE clientArg[c]]
           /\ marked' = marked \ ToSet(list)
    /\ thecallbacks' = [thecallbacks EXCEPT ![e] = <<>>]
    /\ LockedOnly(e)
    /\ cleared' = cleared \cup {e}
    /\ UNCHANGED calls

-----------------------------------------------------------------------------
(* Calling.                                                                 *)

\* The entries from position n on that still have a callback.
Callable(e, n) == {m \in DOMAIN thecallbacks[e] : m >= n /\ thecallbacks[e][m] \notin marked}

First(S) == CHOOSE n \in S : \A m \in S : n <= m

\* snmp_call_callbacks up to the first callback.
Call(e) ==
    /\ Usable(e)
    /\ Len(calls) < MaxCalls
    /\ IF Callable(e, 1) = {} THEN LockedOnly(e) /\ UNCHANGED calls
       ELSE /\ locks' = [locks EXCEPT ![e] = Locked(e)]
            /\ calls' = Append(calls, [event |-> e, entry |-> thecallbacks[e][First(Callable(e, 1))]])
    /\ UNCHANGED <<thecallbacks, marked, clientArg, cleared, argsFreed>>

\* A callback returns, and the traversal goes on from its entry.
Returns ==
    /\ calls # <<>>
    /\ LET n    == Len(calls)
           e    == calls[n].event
           here == {m \in DOMAIN thecallbacks[e] : thecallbacks[e][m] = calls[n].entry}
           rest == Callable(e, First(here) + 1)
       IN  IF rest = {}
           THEN /\ calls' = SubSeq(calls, 1, n - 1)
                /\ locks' = [locks EXCEPT ![e] = @ - 1]
           ELSE /\ calls' = [calls EXCEPT ![n].entry = thecallbacks[e][First(rest)]]
                /\ UNCHANGED locks
    /\ UNCHANGED <<thecallbacks, marked, clientArg, cleared, argsFreed>>

RegistryNext ==
    \/ \E e \in Events :
         \/ \E c \in Entries : RegisterCallback(e, c)
         \/ \E c \in Entries, matchargs \in BOOLEAN :
               UnregisterCallback(e, Function(c), Argument(c), matchargs)
         \/ ClearEvent(e)
         \/ Call(e)
    \/ Returns

RegistrySpec == RegistryInit /\ [][RegistryNext]_registryVars

-----------------------------------------------------------------------------
(* Properties.                                                              *)

\* However many entries of however many events share a client argument,
\* clear_callback frees it once, and no entry is left that has it.
ArgsFreedOnce == \A a \in Args :
    /\ argsFreed[a] <= 1
    /\ argsFreed[a] = 1 => \A c \in Allocated \ marked : clientArg[c] # a
=============================================================================
