----------------------------- MODULE EngineTime -----------------------------
(***************************************************************************)
(* The cache of snmp/lcd_time.c: what the clock of each remote engine was  *)
(* when it was heard last, from which its present time is estimated to     *)
(* tell fresh messages from replayed ones.  The list of a hash bucket is   *)
(* searched for the engine, so only free_enginetime shows that engines     *)
(* share one.  snmpv3_local_snmpEngineTime is the clock of this process.   *)
(***************************************************************************)
EXTENDS Integers, FiniteSetsExt

CONSTANTS Engine,
          Bucket(_),    \* hash_engineID
          TimeMax,      \* ENGINETIME_MAX
          BootMax,      \* ENGINEBOOT_MAX
          Claimed,      \* the clocks claimed by messages without authentication
          NoRecord      \* NULL

Clock == [boot : 0..BootMax, time : 0..TimeMax]

ASSUME TimeAssumption == /\ {TimeMax, BootMax} \subseteq Nat /\ Claimed \subseteq Clock
                         /\ NoRecord \notin [clock : Clock, at : 0..TimeMax, auth : BOOLEAN]

VARIABLES now,       \* the clock of this process, up to TimeMax: the difference is an int
          record,    \* etimelist
          truth,     \* auxiliary: the clocks of the engines themselves
          proved,    \* auxiliary: engines heard with authentication, and not freed since
          rebooted   \* auxiliary: engines that have started again since they were heard so

timeVars == <<now, record, truth, proved, rebooted>>

TimeInit == /\ now = 0
            /\ record = [e \in Engine |-> NoRecord]
            /\ truth \in [Engine -> {c \in Clock : c.boot = 1}]
            /\ proved = {} /\ rebooted = {}

NewBoot(b) == Min({b + 1, BootMax})

-----------------------------------------------------------------------------
(* What the cache does.                                                     *)

\* Mutant: an unauthenticated clock replaces an authenticated one.
Store_any(e, c, authenticated) ==
    record' = [record EXCEPT ![e] = [clock |-> c, at |-> now, auth |-> authenticated]]

\* What was heard without authentication never takes the place of what was.
Store(e, c, authenticated) ==
    IF record[e] = NoRecord \/ authenticated \/ ~record[e].auth
    THEN record' = [record EXCEPT ![e] = [clock |-> c, at |-> now, auth |-> authenticated]]
    ELSE record' = record

\* An authenticated question is answered with zeros if nothing authenticated was heard.
Estimate(e, authenticated) ==
    LET r == record[e]
    IN  IF authenticated /\ ~r.auth THEN [boot |-> 0, time |-> 0]
        ELSE IF now - r.at > TimeMax - r.clock.time
             THEN [boot |-> NewBoot(r.clock.boot), time |-> (now - r.at) - (TimeMax - r.clock.time)]
             ELSE [boot |-> r.clock.boot, time |-> r.clock.time + (now - r.at)]

\* The whole bucket goes, whoever else is in it.
FreeEngine(e) ==
    /\ record' = [f \in Engine |-> IF Bucket(f) = Bucket(e) THEN NoRecord ELSE record[f]]
    /\ proved' = {f \in proved : Bucket(f) # Bucket(e)}
    /\ UNCHANGED <<now, truth, rebooted>>

FreeAll == /\ record' = [e \in Engine |-> NoRecord] /\ proved' = {}
           /\ UNCHANGED <<now, truth, rebooted>>

-----------------------------------------------------------------------------
(* What happens to it.                                                      *)

\* An authenticated message of the engine, with its clock.
Hear(e) == /\ Store(e, truth[e], TRUE)
           /\ proved' = proved \cup {e} /\ rebooted' = rebooted \ {e} /\ UNCHANGED <<now, truth>>

\* A message that nobody vouches for, or the probe that stores zeros.
HearUnproved(e, c) == Store(e, c, FALSE) /\ UNCHANGED <<now, truth, proved, rebooted>>

\* RFC 3414: when the time would exceed its maximum it reverts to zero in the next boot.
Ticked(c) == IF c.time < TimeMax THEN [c EXCEPT !.time = @ + 1]
             ELSE [boot |-> NewBoot(c.boot), time |-> 0]

Tick == /\ now < TimeMax /\ now' = now + 1
        /\ truth' = [e \in Engine |-> Ticked(truth[e])]
        /\ UNCHANGED <<record, proved, rebooted>>

Reboot(e) == /\ truth[e].boot < BootMax
             /\ truth' = [truth EXCEPT ![e] = [boot |-> truth[e].boot + 1, time |-> 0]]
             /\ rebooted' = rebooted \cup {e} /\ UNCHANGED <<now, record, proved>>

TimeNext == \/ \E e \in Engine : Hear(e) \/ FreeEngine(e) \/ Reboot(e)
            \/ \E e \in Engine, c \in Claimed : HearUnproved(e, c)
            \/ FreeAll \/ Tick

TimeSpec == TimeInit /\ [][TimeNext]_timeVars

-----------------------------------------------------------------------------
(* Properties.                                                              *)

Known == {e \in Engine : record[e] # NoRecord}

Later(c, d) == c.boot > d.boot \/ (c.boot = d.boot /\ c.time > d.time)

\* An engine that was heard with authentication is never taken to be more than a second
\* ahead of what it is (its genuine messages would be dropped as replayed), even if it
\* has started again; and if it has not, its boot is known and its time to a second.
\* A boot at its maximum no longer tells anything.
AuthenticEstimate ==
    \A e \in proved :
        truth[e].boot < BootMax =>
        LET c == Estimate(e, TRUE)
        IN  /\ ~Later([c EXCEPT !.time = @ - 1], truth[e])
            /\ e \notin rebooted => c.boot = truth[e].boot /\ c.time - truth[e].time \in {0, 1}

\* The estimate of an engine does not go back while nothing is heard from it.
GoesForward ==
    Tick => \A e \in Known, a \in BOOLEAN :
                LET c == Estimate(e, a) IN c.boot < BootMax => ~Later(c, Estimate(e, a)')

\* A cached clock can be relied on, whether its engine was heard just now or long ago.
EstimateSound == [][GoesForward /\ AuthenticEstimate']_timeVars
=============================================================================
