----------------------------- MODULE SnmpAlarm -----------------------------
(***************************************************************************)
(* The alarms of snmp/snmp_alarm.c.  run_alarms calls what is due, and a   *)
(* callback may do anything to the alarms, its own included, and may run   *)
(* them again from inside.                                                 *)
(*                                                                         *)
(* An alarm stands for its clientreg: regnum grows with every registration *)
(* so a number may be used again here once nothing remembers it.  Times    *)
(* are relative to the clock, in ticks.                                    *)
(***************************************************************************)
EXTENDS Integers, SequencesExt

CONSTANTS Alarm,        \* client registration numbers
          Intervals,    \* what t may be; 0 is a struct timeval of zeros
          MaxLate,      \* bound: the clock stops when an alarm is this late
          MaxNesting    \* bound: run_alarms inside run_alarms

ASSUME AlarmAssumption == /\ Intervals \subseteq Nat
                          /\ \E n \in Intervals : \A m \in Intervals : m <= n
                          /\ MaxLate \in Nat \ {0}
                          /\ MaxNesting \in Nat \ {0}

VARIABLES
    thealarms,    \* the list, in order of registration
    interval,     \* a->t
    repeats,      \* SA_REPEAT
    fired,        \* the alarms with SA_FIRED
    left,         \* a->t_nextM minus the clock
    running,      \* the calls of run_alarms, outermost first
    quiet         \* auxiliary: ticks since the alarm was registered, reset or called

alarmVars == <<thealarms, interval, repeats, fired, left, running, quiet>>

Listed == ToSet(thealarms)

Longest == CHOOSE n \in Intervals : \A m \in Intervals : m <= n

\* A call of run_alarms that is inside a callback: the alarm, and the ticks
\* since it read t_now.
Calling(a) == [alarm |-> a, since |-> 0]

\* The alarms whose callbacks are running.
InCallback == {running[n].alarm : n \in DOMAIN running}

AlarmInit == /\ thealarms = <<>>
             /\ interval = [a \in Alarm |-> 0]
             /\ repeats = [a \in Alarm |-> FALSE]
             /\ fired = {}
             /\ left = [a \in Alarm |-> 0]
             /\ running = <<>>
             /\ quiet = [a \in Alarm |-> 0]

-----------------------------------------------------------------------------
(* What the application and the callbacks may do at any time.               *)

RegisterAlarm(a, t, r) == /\ a \notin Listed \cup InCallback
                          /\ thealarms' = Append(thealarms, a)
                          /\ interval' = [interval EXCEPT ![a] = t]
                          /\ repeats' = [repeats EXCEPT ![a] = r]
                          /\ left' = [left EXCEPT ![a] = t]
                          /\ quiet' = [quiet EXCEPT ![a] = 0]
                          /\ UNCHANGED <<fired, running>>

\* Entries that are freed keep nothing.
Clear(S) == /\ fired' = fired \ S
            /\ interval' = [b \in Alarm |-> IF b \in S THEN 0 ELSE interval[b]]
            /\ repeats' = [b \in Alarm |-> b \notin S /\ repeats[b]]
            /\ left' = [b \in Alarm |-> IF b \in S THEN 0 ELSE left[b]]
            /\ quiet' = [b \in Alarm |-> IF b \in S THEN 0 ELSE quiet[b]]

\* snmp_alarm_unregister unlinks the alarm wherever it is on the list.
Forget(a) == /\ \E n \in DOMAIN thealarms :
                   thealarms[n] = a /\ thealarms' = RemoveAt(thealarms, n)
             /\ Clear({a})

UnregisterAlarm(a) == Forget(a) /\ UNCHANGED running

UnregisterAlarms == thealarms' = <<>> /\ Clear(Alarm) /\ UNCHANGED running

AlarmReset(a) == /\ a \in Listed
                 /\ left' = [left EXCEPT ![a] = interval[a]]
                 /\ quiet' = [quiet EXCEPT ![a] = IF a \in InCallback THEN @ ELSE 0]
                 /\ UNCHANGED <<thealarms, interval, repeats, fired, running>>

-----------------------------------------------------------------------------
(* run_alarms.                                                              *)

\* The clock.  t_now was read before the callback was called.
AlarmTick == /\ \A a \in Listed : left[a] > -MaxLate
             /\ \A n \in DOMAIN running : running[n].since < Longest + MaxLate
             /\ left' = [a \in Alarm |-> IF a \in Listed THEN left[a] - 1 ELSE 0]
             /\ quiet' = [a \in Alarm |->
                            IF a \in Listed /\ quiet[a] < Longest THEN quiet[a] + 1 ELSE quiet[a]]
             /\ running' = [n \in DOMAIN running |-> [running[n] EXCEPT !.since = @ + 1]]
             /\ UNCHANGED <<thealarms, interval, repeats, fired>>

Unfired == {n \in DOMAIN thealarms : thealarms[n] \notin fired}

\* Mutant: the alarms are taken in the order of the list.
FindNext_in_list == {thealarms[n] : n \in {n \in Unfired : \A m \in Unfired : n <= m}}

\* sa_find_next: the earliest alarm that is not being called, the first one
\* in the list if several are.
FindNext == {thealarms[n] : n \in {n \in Unfired :
                \A m \in Unfired : /\ left[thealarms[m]] >= left[thealarms[n]]
                                   /\ left[thealarms[m]] = left[thealarms[n]] => m >= n}}

Overdue == {a \in FindNext : left[a] <= 0}

\* run_alarms is called, by the application or by a callback, and goes on
\* until nothing is due: each turn calls one alarm.
Fire(a) == /\ a \in Overdue
           /\ fired' = fired \cup {a}
           /\ quiet' = [quiet EXCEPT ![a] = 0]
           /\ UNCHANGED <<thealarms, interval, repeats, left>>

RunAlarms == /\ Len(running) < MaxNesting
             /\ \E a \in Alarm : /\ Fire(a)
                                 /\ running' = Append(running, Calling(a))

\* Mutant: the next time is counted from the time the alarm was due.
Update_cumulative(a, since) ==
    IF repeats[a] /\ interval[a] > 0
    THEN /\ left' = [left EXCEPT ![a] = @ + interval[a]]
         /\ fired' = fired \ {a}
         /\ UNCHANGED <<thealarms, interval, repeats, quiet>>
    ELSE Forget(a)

\* sa_update_entry, once t_nextM has been cleared: a repeating alarm is set
\* from the time it was called at, any other is removed.
Update(a, since) ==
    IF repeats[a] /\ interval[a] > 0
    THEN /\ left' = [left EXCEPT ![a] = interval[a] - since]
         /\ fired' = fired \ {a}
         /\ UNCHANGED <<thealarms, interval, repeats, quiet>>
    ELSE Forget(a)

\* The innermost callback returns.  If it has removed its own alarm there is
\* nothing to update.  The loop goes on with RunAlarms or is left.
CallbackReturns ==
    /\ running # <<>>
    /\ LET r == running[Len(running)]
       IN  IF r.alarm \in Listed THEN Update(r.alarm, r.since)
           ELSE UNCHANGED <<thealarms, interval, repeats, fired, left, quiet>>
    /\ running' = SubSeq(running, 1, Len(running) - 1)

AlarmNext == \/ \E a \in Alarm : \/ \E t \in Intervals, r \in BOOLEAN : RegisterAlarm(a, t, r)
                                 \/ UnregisterAlarm(a)
                                 \/ AlarmReset(a)
             \/ UnregisterAlarms
             \/ AlarmTick
             \/ RunAlarms
             \/ CallbackReturns

\* The application keeps calling run_alarms, callbacks return, and time passes.
AlarmFairness == /\ WF_alarmVars(AlarmTick)
                 /\ WF_alarmVars(RunAlarms)
                 /\ SF_alarmVars(CallbackReturns)

AlarmSpec == AlarmInit /\ [][AlarmNext]_alarmVars /\ AlarmFairness

-----------------------------------------------------------------------------
(* Properties.                                                              *)

AlarmCall == [alarm : Alarm, since : Nat]

AlarmTypeOK == /\ thealarms \in Seq(Alarm)
               /\ interval \in [Alarm -> 0 .. Longest]
               /\ repeats \in [Alarm -> BOOLEAN]
               /\ fired \subseteq Alarm
               /\ left \in [Alarm -> Int]
               /\ running \in Seq(AlarmCall)
               /\ quiet \in [Alarm -> 0 .. Longest]

\* An alarm is marked as fired exactly while its callback runs: it is never
\* called from inside itself, and never left marked, which would silence it
\* for good, whatever its callback does to the list.
FiredWhileCalled ==
    /\ fired = InCallback \cap Listed
    /\ \A m, n \in DOMAIN running : running[m].alarm = running[n].alarm => m = n

\* No alarm is called before its interval is over, counted from the latest of
\* its registration, its reset and its previous call.  (A reset made by the
\* callback of the alarm itself is lost, so quiet leaves it out.)
NeverEarly == [][\A a \in Alarm : a \in fired' \ fired => quiet[a] >= interval[a]]_alarmVars

\* An alarm that is late is called, put off, or removed: it is not
\* starved by alarms that repeat faster, or by callbacks that run alarms.
LateAlarmRuns == \A a \in Alarm :
    (a \in Listed /\ left[a] < 0) ~> (a \notin Listed \/ a \in fired \/ left[a] >= 0)
=============================================================================
