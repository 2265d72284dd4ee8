---------------------------- MODULE LibraryProofs ----------------------------
(***************************************************************************)
(* Proofs about the services of the library that are side by side in       *)
(* Library, for any number of alarms, endpoints, callbacks, descriptors,   *)
(* packets and changes, and for octets and longs of any width.  Each has   *)
(* an invariant of its own.                                                *)
(***************************************************************************)
EXTENDS SnmpAlarm, CallbackDomain, PersistentStore, FdEvents, CallbackRegistry, StreamReader,
        SequenceLemmas

-----------------------------------------------------------------------------
(* SnmpAlarm: marks are never confused, and no alarm comes early           *)

\* No alarm is listed twice.
Unique == IsInjective(thealarms)

\* An alarm that waits has waited, and will wait, for its interval in all.
Waits == \A a \in Listed \ fired :
             quiet[a] + left[a] >= interval[a] \/ quiet[a] = Longest

\* While its callback runs an alarm is quiet at least since it was called.
Calls == \A n \in DOMAIN running : running[n].alarm \in Listed =>
             \/ quiet[running[n].alarm] >= running[n].since
             \/ quiet[running[n].alarm] = Longest

AlarmInv == AlarmTypeOK /\ Unique /\ FiredWhileCalled /\ Waits /\ Calls

-----------------------------------------------------------------------------
(* The steps                                                               *)

LEMMA LongestInterval == Longest \in Nat /\ \A t \in Intervals : t \in 0 .. Longest
<1>1. Longest \in Intervals /\ \A t \in Intervals : t <= Longest
  BY AlarmAssumption DEF Longest
<1> QED
  BY <1>1, AlarmAssumption

LEMMA ListedRange == Listed = Range(thealarms)
  BY DEF Listed, ToSet, Range

\* The list and the calls hold alarms only.
LEMMA Alarms ==
    ASSUME AlarmInv
    PROVE  /\ Listed \subseteq Alarm
           /\ \A n \in DOMAIN running : /\ running[n].alarm \in Alarm
                                        /\ running[n].since \in Nat
                                        /\ running[n].alarm \in InCallback
<1>1. Listed \subseteq Alarm
  BY DEF AlarmInv, AlarmTypeOK, Listed, ToSet
<1>2. \A n \in DOMAIN running : running[n] \in AlarmCall
  BY DEF AlarmInv, AlarmTypeOK
<1>3. \A c \in AlarmCall : c.alarm \in Alarm /\ c.since \in Nat
  BY DEF AlarmCall
<1>4. \A n \in DOMAIN running : running[n].alarm \in InCallback
  BY DEF InCallback
<1> QED
  BY <1>1, <1>2, <1>3, <1>4, Zenon

LEMMA AlarmInitInv == AlarmInit => AlarmInv
<1> SUFFICES ASSUME AlarmInit PROVE AlarmInv
  OBVIOUS
<1>1. AlarmTypeOK
  BY LongestInterval DEF AlarmInit, AlarmTypeOK
<1>2. Listed = {} /\ DOMAIN running = {} /\ fired = {} /\ DOMAIN thealarms = {}
  BY DEF AlarmInit, Listed, ToSet
<1> QED
  BY <1>1, <1>2 DEF AlarmInv, Unique, IsInjective, FiredWhileCalled, InCallback, Waits, Calls

LEMMA RegisterStep ==
    ASSUME AlarmInv, NEW a \in Alarm, NEW t \in Intervals, NEW r \in BOOLEAN,
           RegisterAlarm(a, t, r)
    PROVE  AlarmInv'
<1>1. /\ a \notin Listed /\ a \notin InCallback
      /\ thealarms \in Seq(Alarm) /\ thealarms' = Append(thealarms, a)
  BY DEF AlarmInv, AlarmTypeOK, RegisterAlarm
<1>2. Listed' = Listed \cup {a} /\ Unique'
  <2>1. Listed' = Range(thealarms')
    BY DEF Listed, ToSet, Range
  <2>2. a \notin Range(thealarms) /\ IsInjective(thealarms)
    BY <1>1, ListedRange DEF AlarmInv, Unique
  <2> QED
    BY <1>1, <2>1, <2>2, ListedRange, AppendRange DEF Unique
<1>3. t \in 0 .. Longest /\ Longest \in Nat
  BY LongestInterval
<1>4. AlarmTypeOK'
  <2>1. thealarms' \in Seq(Alarm)
    BY <1>1
  <2> QED
    BY <1>3, <2>1 DEF AlarmInv, AlarmTypeOK, RegisterAlarm
<1>5. FiredWhileCalled'
  BY <1>1, <1>2 DEF AlarmInv, FiredWhileCalled, InCallback, RegisterAlarm
<1>6. Waits'
  <2>1. interval'[a] = t /\ left'[a] = t /\ quiet'[a] = 0
    BY DEF AlarmInv, AlarmTypeOK, RegisterAlarm
  <2>2. \A b \in Listed : /\ b # a /\ interval'[b] = interval[b]
                          /\ left'[b] = left[b] /\ quiet'[b] = quiet[b]
    <3>1. Listed \subseteq Alarm
      BY Alarms
    <3> QED
      BY <1>1, <3>1 DEF AlarmInv, AlarmTypeOK, RegisterAlarm
  <2>3. fired' = fired
    BY DEF RegisterAlarm
  <2>4. quiet'[a] + left'[a] >= interval'[a]
    BY <1>3, <2>1
  <2>5. \A b \in Listed \ fired : quiet'[b] + left'[b] >= interval'[b] \/ quiet'[b] = Longest
    BY <2>2 DEF AlarmInv, Waits
  <2>6. Longest' = Longest
    BY DEF Longest
  <2> QED
    BY <1>2, <2>3, <2>4, <2>5, <2>6 DEF Waits
<1>7. Calls'
  <2>1. running' = running
    BY DEF RegisterAlarm
  <2>2. \A n \in DOMAIN running : running[n].alarm \in Alarm \ {a}
    BY <1>1, Alarms
  <2>3. \A b \in Alarm \ {a} : quiet'[b] = quiet[b]
    BY DEF AlarmInv, AlarmTypeOK, RegisterAlarm
  <2> QED
    BY <1>2, <2>1, <2>2, <2>3 DEF AlarmInv, Calls
<1> QED
  BY <1>2, <1>4, <1>5, <1>6, <1>7 DEF AlarmInv

\* Entries are cleared, and the others left alone.
LEMMA Clears ==
    ASSUME AlarmInv, NEW S \in SUBSET Alarm, Clear(S)
    PROVE  /\ fired' = fired \ S
           /\ interval' \in [Alarm -> 0 .. Longest]
           /\ repeats' \in [Alarm -> BOOLEAN]
           /\ left' \in [Alarm -> Int]
           /\ quiet' \in [Alarm -> 0 .. Longest]
           /\ \A b \in Alarm \ S : /\ interval'[b] = interval[b]
                                   /\ left'[b] = left[b]
                                   /\ quiet'[b] = quiet[b]
  BY LongestInterval DEF AlarmInv, AlarmTypeOK, Clear

\* One alarm is unlinked, exactly that one.
LEMMA Forgets ==
    ASSUME AlarmInv, NEW a \in Alarm, Forget(a)
    PROVE  /\ thealarms' \in Seq(Alarm) /\ Unique'
           /\ Listed' = Listed \ {a}
<1>1. PICK n \in DOMAIN thealarms : thealarms[n] = a /\ thealarms' = RemoveAt(thealarms, n)
  BY DEF Forget
<1>2. thealarms \in Seq(Alarm) /\ IsInjective(thealarms) /\ n \in 1 .. Len(thealarms)
  BY SMTT(30) DEF AlarmInv, AlarmTypeOK, Unique
<1>3. Listed' = Range(thealarms')
  BY DEF Listed, ToSet, Range
<1>4. thealarms' \in Seq(Alarm)
  BY <1>1, <1>2, RemoveAtElements
<1>5. Range(thealarms') = Range(thealarms) \ {a} /\ IsInjective(thealarms')
  BY <1>1, <1>2, RemoveAtRange
<1> QED
  BY <1>3, <1>4, <1>5, ListedRange DEF Unique

\* Removing alarms while callbacks run, their own included.
LEMMA Removes ==
    ASSUME AlarmInv, NEW S \in SUBSET Alarm, Clear(S), UNCHANGED running,
           thealarms' \in Seq(Alarm), Unique', Listed' = Listed \ S
    PROVE  AlarmInv'
<1>1. Listed \subseteq Alarm /\ \A n \in DOMAIN running : running[n].alarm \in Alarm
  BY Alarms
<1>2. AlarmTypeOK'
  BY Clears DEF AlarmInv, AlarmTypeOK
<1>3. FiredWhileCalled'
  BY Clears DEF AlarmInv, FiredWhileCalled, InCallback
<1>4. Waits'
  BY <1>1, Clears, SMTT(30) DEF AlarmInv, Waits
<1>5. Calls'
  BY <1>1, Clears, ZenonT(40) DEF AlarmInv, Calls
<1> QED
  BY <1>2, <1>3, <1>4, <1>5 DEF AlarmInv

LEMMA UnregisterStep ==
    ASSUME AlarmInv, UnregisterAlarms \/ \E a \in Alarm : UnregisterAlarm(a) PROVE AlarmInv'
<1>1. CASE UnregisterAlarms
  <2>1. thealarms' = <<>> /\ thealarms' \in Seq(Alarm) /\ DOMAIN thealarms' = {}
    BY <1>1 DEF UnregisterAlarms
  <2>2. Unique' /\ Listed' = {}
    BY <2>1 DEF Unique, IsInjective, Listed, ToSet
  <2>3. Listed \subseteq Alarm
    BY Alarms
  <2> QED
    BY <1>1, <2>1, <2>2, <2>3, Removes DEF UnregisterAlarms
<1>2. ASSUME NEW a \in Alarm, UnregisterAlarm(a) PROVE AlarmInv'
  <2>1. Forget(a) /\ Clear({a}) /\ UNCHANGED running
    BY <1>2 DEF UnregisterAlarm, Forget
  <2>2. thealarms' \in Seq(Alarm) /\ Unique' /\ Listed' = Listed \ {a}
    BY <2>1, Forgets
  <2>3. {a} \in SUBSET Alarm
    OBVIOUS
  <2> QED
    BY <2>1, <2>2, <2>3, Removes
<1> QED
  BY <1>1, <1>2

LEMMA AlarmResetStep ==
    ASSUME AlarmInv, NEW a \in Alarm, AlarmReset(a) PROVE AlarmInv'
<1>1. /\ UNCHANGED <<thealarms, interval, repeats, fired, running>>
      /\ left' = [left EXCEPT ![a] = interval[a]]
      /\ \/ quiet' = quiet
         \/ a \notin InCallback /\ quiet' = [quiet EXCEPT ![a] = 0]
  BY DEF AlarmInv, AlarmTypeOK, AlarmReset
<1>2. Listed' = Listed /\ Listed \subseteq Alarm
  BY <1>1 DEF AlarmInv, AlarmTypeOK, Listed, ToSet
<1>3. AlarmTypeOK'
  <2>1. interval[a] \in Int /\ 0 \in 0 .. Longest
    BY LongestInterval DEF AlarmInv, AlarmTypeOK
  <2>2. left' \in [Alarm -> Int]
    BY <1>1, <2>1 DEF AlarmInv, AlarmTypeOK
  <2>3. quiet' \in [Alarm -> 0 .. Longest]
    BY <1>1, <2>1 DEF AlarmInv, AlarmTypeOK
  <2> QED
    BY <1>1, <2>2, <2>3 DEF AlarmInv, AlarmTypeOK
<1>4. Unique' /\ FiredWhileCalled'
  BY <1>1, <1>2 DEF AlarmInv, Unique, FiredWhileCalled, InCallback
<1>5. Waits'
  BY <1>1, <1>2, LongestInterval DEF AlarmInv, AlarmTypeOK, Waits
<1>6. Calls'
  BY <1>1, <1>2 DEF AlarmInv, AlarmTypeOK, Calls, InCallback
<1> QED
  BY <1>3, <1>4, <1>5, <1>6 DEF AlarmInv

LEMMA TickStep == ASSUME AlarmInv, AlarmTick PROVE AlarmInv'
<1>1. /\ UNCHANGED <<thealarms, interval, repeats, fired>>
      /\ \A a \in Alarm : left'[a] = IF a \in Listed THEN left[a] - 1 ELSE 0
      /\ \A a \in Alarm : quiet'[a] = IF a \in Listed /\ quiet[a] < Longest
                                      THEN quiet[a] + 1 ELSE quiet[a]
      /\ DOMAIN running' = DOMAIN running
      /\ \A n \in DOMAIN running : /\ running'[n].alarm = running[n].alarm
                                   /\ running'[n].since = running[n].since + 1
  <2>1. \A n \in DOMAIN running : running[n] \in AlarmCall
    BY DEF AlarmInv, AlarmTypeOK
  <2>2. \A c \in AlarmCall : /\ [c EXCEPT !.since = @ + 1].alarm = c.alarm
                             /\ [c EXCEPT !.since = @ + 1].since = c.since + 1
    BY DEF AlarmCall
  <2>3. running' = [n \in DOMAIN running |-> [running[n] EXCEPT !.since = @ + 1]]
    BY DEF AlarmTick
  <2>4. /\ DOMAIN running' = DOMAIN running
        /\ \A n \in DOMAIN running : /\ running'[n].alarm = running[n].alarm
                                     /\ running'[n].since = running[n].since + 1
    BY <2>1, <2>2, <2>3, Zenon
  <2>5. /\ \A a \in Alarm : left'[a] = IF a \in Listed THEN left[a] - 1 ELSE 0
        /\ \A a \in Alarm : quiet'[a] = IF a \in Listed /\ quiet[a] < Longest
                                        THEN quiet[a] + 1 ELSE quiet[a]
        /\ UNCHANGED <<thealarms, interval, repeats, fired>>
    BY DEF AlarmTick
  <2> QED
    BY <2>4, <2>5
<1>2. Listed' = Listed /\ Listed \subseteq Alarm
  BY <1>1, Alarms DEF Listed
<1>3. AlarmTypeOK'
  <2>1. left' \in [Alarm -> Int]
    BY <1>1 DEF AlarmInv, AlarmTypeOK, AlarmTick
  <2>2. quiet' \in [Alarm -> 0 .. Longest]
    BY LongestInterval DEF AlarmInv, AlarmTypeOK, AlarmTick
  <2>3. running' \in Seq(AlarmCall)
    <3>1. \A n \in 1 .. Len(running) :
             [running[n] EXCEPT !.since = @ + 1] \in AlarmCall
      <4>1. \A n \in 1 .. Len(running) : running[n] \in AlarmCall
        BY DEF AlarmInv, AlarmTypeOK
      <4>2. \A c \in AlarmCall : [c EXCEPT !.since = @ + 1] \in AlarmCall
        BY DEF AlarmCall
      <4> QED
        BY <4>1, <4>2
    <3>2. running' = [n \in 1 .. Len(running) |-> [running[n] EXCEPT !.since = @ + 1]]
      BY DEF AlarmInv, AlarmTypeOK, AlarmTick
    <3>3. Len(running) \in Nat
      BY DEF AlarmInv, AlarmTypeOK
    <3> QED
      BY <3>1, <3>2, <3>3, IsASeq
  <2> QED
    BY <1>1, <2>1, <2>2, <2>3 DEF AlarmInv, AlarmTypeOK
<1>4. Unique' /\ FiredWhileCalled'
  BY <1>1, <1>2 DEF AlarmInv, Unique, FiredWhileCalled, InCallback
<1>5. \A a \in Listed : /\ quiet[a] \in 0 .. Longest /\ left[a] \in Int
                        /\ interval[a] \in 0 .. Longest
  BY <1>2 DEF AlarmInv, AlarmTypeOK
<1>6. Longest \in Nat /\ Longest' = Longest
  BY LongestInterval DEF Longest
<1>7. Waits'
  <2> SUFFICES ASSUME NEW a \in Listed \ fired
               PROVE  quiet'[a] + left'[a] >= interval[a] \/ quiet'[a] = Longest
    BY <1>1, <1>2, <1>6 DEF Waits
  <2>1. quiet[a] + left[a] >= interval[a] \/ quiet[a] = Longest
    BY DEF AlarmInv, Waits
  <2>2. /\ left'[a] = left[a] - 1
        /\ quiet'[a] = IF quiet[a] < Longest THEN quiet[a] + 1 ELSE quiet[a]
    BY <1>1, <1>2
  <2> QED
    BY <1>5, <1>6, <2>1, <2>2
<1>8. Calls'
  <2> SUFFICES ASSUME NEW n \in DOMAIN running, running[n].alarm \in Listed
               PROVE  \/ quiet'[running[n].alarm] >= running[n].since + 1
                      \/ quiet'[running[n].alarm] = Longest
    BY <1>1, <1>2, <1>6 DEF Calls
  <2> DEFINE a == running[n].alarm
  <2>1. quiet[a] >= running[n].since \/ quiet[a] = Longest
    BY DEF AlarmInv, Calls
  <2>2. quiet'[a] = IF quiet[a] < Longest THEN quiet[a] + 1 ELSE quiet[a]
    BY <1>1, <1>2
  <2>3. running[n].since \in Nat /\ quiet[a] \in 0 .. Longest
    BY <1>5, Alarms
  <2> QED
    BY <1>6, <2>1, <2>2, <2>3
<1> QED
  BY <1>3, <1>4, <1>7, <1>8 DEF AlarmInv

\* What run_alarms calls is listed, is not being called, and is due.
LEMMA Due == ASSUME NEW a \in Overdue PROVE a \in Listed \ fired /\ left[a] <= 0
  BY DEF Overdue, FindNext, Unfired, Listed, ToSet

LEMMA RunAlarmsStep == ASSUME AlarmInv, RunAlarms PROVE AlarmInv'
<1>1. PICK a \in Alarm : Fire(a) /\ running' = Append(running, Calling(a))
  BY DEF RunAlarms
<1>2. a \in Listed /\ a \notin fired /\ a \notin InCallback
  BY <1>1, Due DEF Fire, AlarmInv, FiredWhileCalled
<1>3. /\ UNCHANGED <<thealarms, interval, repeats, left>>
      /\ fired' = fired \cup {a} /\ quiet' = [quiet EXCEPT ![a] = 0]
  BY <1>1 DEF Fire
<1>4. Calling(a) \in AlarmCall /\ Calling(a).alarm = a /\ Calling(a).since = 0
  BY DEF Calling, AlarmCall
<1>5. /\ running \in Seq(AlarmCall) /\ Len(running) \in Nat
      /\ running' \in Seq(AlarmCall)
      /\ DOMAIN running = 1 .. Len(running)
      /\ DOMAIN running' = DOMAIN running \cup {Len(running) + 1}
      /\ \A n \in DOMAIN running : running'[n] = running[n]
      /\ running'[Len(running) + 1].alarm = a
      /\ running'[Len(running) + 1].since = 0
  <2>1. running \in Seq(AlarmCall)
    BY DEF AlarmInv, AlarmTypeOK
  <2>2. PICK c \in AlarmCall : c = Calling(a)
    BY <1>4
  <2>3. running' = Append(running, c) /\ c.alarm = a /\ c.since = 0
    BY <1>1, <1>4, <2>2
  <2>4. /\ Len(running) \in Nat /\ DOMAIN running = 1 .. Len(running)
        /\ running' \in Seq(AlarmCall)
        /\ DOMAIN running' = DOMAIN running \cup {Len(running) + 1}
        /\ \A n \in DOMAIN running : running'[n] = running[n]
        /\ running'[Len(running) + 1] = c
    BY <2>1, <2>3
  <2> QED
    BY <2>1, <2>3, <2>4
<1>6. Listed' = Listed /\ Listed \subseteq Alarm
  BY <1>3, Alarms DEF Listed
<1>7. InCallback' = InCallback \cup {a}
  BY <1>5 DEF InCallback
<1>8. Longest \in Nat /\ Longest' = Longest
  BY LongestInterval DEF Longest
<1>9. AlarmTypeOK'
  BY <1>3, <1>5, <1>8 DEF AlarmInv, AlarmTypeOK
<1>10. FiredWhileCalled'
  <2>1. fired' = InCallback' \cap Listed'
    BY <1>2, <1>3, <1>6, <1>7 DEF AlarmInv, FiredWhileCalled
  <2>2. \A n \in DOMAIN running : running'[n].alarm # a
    BY <1>2, <1>5 DEF InCallback
  <2>3. \A m, n \in DOMAIN running' : running'[m].alarm = running'[n].alarm => m = n
    BY <1>5, <2>2 DEF AlarmInv, FiredWhileCalled
  <2> QED
    BY <2>1, <2>3 DEF FiredWhileCalled
<1>11. Waits'
  BY <1>3, <1>6, <1>8 DEF AlarmInv, AlarmTypeOK, Waits
<1>12. Calls'
  <2>1. \A n \in DOMAIN running : running[n].alarm \in Alarm /\ running[n].alarm # a
    BY <1>2, Alarms DEF InCallback
  <2>2. quiet'[a] = 0 /\ \A b \in Alarm \ {a} : quiet'[b] = quiet[b]
    BY <1>3 DEF AlarmInv, AlarmTypeOK
  <2> QED
    BY <1>5, <1>6, <1>8, <2>1, <2>2 DEF AlarmInv, Calls
<1>13. Unique'
  BY <1>3 DEF AlarmInv, Unique
<1> QED
  BY <1>9, <1>10, <1>11, <1>12, <1>13 DEF AlarmInv

LEMMA CallbackReturnsStep == ASSUME AlarmInv, CallbackReturns PROVE AlarmInv'
<1> DEFINE last == Len(running)
           a == running[last].alarm
           since == running[last].since
<1>1. /\ running \in Seq(AlarmCall) /\ last \in Nat /\ last # 0
      /\ DOMAIN running = 1 .. last /\ last \in DOMAIN running
  BY DEF AlarmInv, AlarmTypeOK, CallbackReturns
<1>2. a \in Alarm /\ since \in Nat
  BY <1>1, Alarms
<1>3. /\ running' \in Seq(AlarmCall)
      /\ DOMAIN running' = 1 .. last - 1
      /\ \A n \in 1 .. last - 1 : running'[n] = running[n]
  <2>1. running' = SubSeq(running, 1, last - 1)
    BY DEF CallbackReturns
  <2> QED
    BY <1>1, <2>1
<1>4. InCallback' = InCallback \ {a}
  <2>1. \A n \in 1 .. last - 1 : n \in DOMAIN running /\ running[n].alarm # a
    BY <1>1 DEF AlarmInv, FiredWhileCalled
  <2>2. \A n \in DOMAIN running : n \in 1 .. last - 1 \/ n = last
    BY <1>1
  <2> HIDE DEF a, last
  <2>3. InCallback' = {running[n].alarm : n \in 1 .. last - 1}
    BY <1>3 DEF InCallback
  <2>4. InCallback = {running[n].alarm : n \in 1 .. last - 1} \cup {a}
    BY <1>1, <2>1, <2>2 DEF InCallback, a
  <2> QED
    BY <2>1, <2>3, <2>4
<1>5. \A m, n \in DOMAIN running' : running'[m].alarm = running'[n].alarm => m = n
  BY <1>1, <1>3 DEF AlarmInv, FiredWhileCalled
<1>6. Longest \in Nat /\ Longest' = Longest
  BY LongestInterval DEF Longest
<1>7. \A n \in 1 .. last - 1 : /\ n \in DOMAIN running
                               /\ running[n].alarm \in Alarm /\ running[n].alarm # a
  BY <1>1, Alarms DEF AlarmInv, FiredWhileCalled
<1> HIDE DEF a, since, last
\* Nothing to update: the alarm is not on the list any more.
<1>8. CASE a \notin Listed
  <2>1. UNCHANGED <<thealarms, interval, repeats, fired, left, quiet>>
    BY <1>8 DEF CallbackReturns, a, last
  <2>2. Listed' = Listed
    BY <2>1 DEF Listed
  <2>3. FiredWhileCalled'
    BY <1>4, <1>5, <1>8, <2>1, <2>2 DEF AlarmInv, FiredWhileCalled
  <2>4. Calls'
    BY <1>3, <1>6, <1>7, <2>1, <2>2 DEF AlarmInv, Calls
  <2>5. AlarmTypeOK' /\ Unique' /\ Waits'
    BY <1>3, <2>1, <2>2 DEF AlarmInv, AlarmTypeOK, Unique, Waits
  <2> QED
    BY <2>3, <2>4, <2>5 DEF AlarmInv
\* It waits again, from the time it was called at.
<1>9. CASE /\ a \in Listed
           /\ left' = [left EXCEPT ![a] = interval[a] - since]
           /\ fired' = fired \ {a}
           /\ UNCHANGED <<thealarms, interval, repeats, quiet>>
  <2>1. Listed' = Listed /\ Listed \subseteq Alarm
    BY <1>9, Alarms DEF Listed
  <2>2. FiredWhileCalled'
    BY <1>4, <1>5, <1>9, <2>1 DEF AlarmInv, FiredWhileCalled
  <2>3. Calls'
    BY <1>3, <1>6, <1>7, <1>9, <2>1 DEF AlarmInv, Calls
  <2>4. interval[a] \in 0 .. Longest /\ quiet[a] \in 0 .. Longest
    BY <1>2 DEF AlarmInv, AlarmTypeOK
  <2>5. AlarmTypeOK' /\ Unique'
    <3>1. interval[a] - since \in Int
      BY <1>2, <1>6, <2>4
    <3>2. left' \in [Alarm -> Int]
      BY <1>9, <3>1 DEF AlarmInv, AlarmTypeOK
    <3> QED
      BY <1>3, <1>9, <3>2 DEF AlarmInv, AlarmTypeOK, Unique
  <2>6. quiet[a] >= since \/ quiet[a] = Longest
    BY <1>1, <1>9 DEF AlarmInv, Calls, a, since
  <2>7. left'[a] = interval[a] - since
    BY <1>2, <1>9 DEF AlarmInv, AlarmTypeOK
  <2>8. quiet'[a] + left'[a] >= interval'[a] \/ quiet'[a] = Longest
    BY <1>2, <1>6, <1>9, <2>4, <2>6, <2>7
  <2>9. \A b \in Alarm \ {a} : left'[b] = left[b]
    BY <1>9 DEF AlarmInv, AlarmTypeOK
  <2>10. Waits'
    BY <1>6, <1>9, <2>1, <2>8, <2>9 DEF AlarmInv, Waits
  <2> QED
    BY <2>2, <2>3, <2>5, <2>10 DEF AlarmInv
\* It was called for the last time.
<1>10. CASE Forget(a)
  <2>1. thealarms' \in Seq(Alarm) /\ Unique' /\ Listed' = Listed \ {a}
    BY <1>2, <1>10, Forgets
  <2>2. /\ {a} \in SUBSET Alarm /\ Clear({a})
    BY <1>2, <1>10 DEF Forget
  <2>3. /\ fired' = fired \ {a}
        /\ \A b \in Alarm \ {a} : /\ interval'[b] = interval[b]
                                  /\ left'[b] = left[b]
                                  /\ quiet'[b] = quiet[b]
    BY <2>2, Clears
  <2>4. AlarmTypeOK'
    BY <1>3, <2>1, <2>2, Clears DEF AlarmInv, AlarmTypeOK
  <2>5. FiredWhileCalled'
    BY <1>4, <1>5, <2>1, <2>3 DEF AlarmInv, FiredWhileCalled
  <2>6. Waits'
    BY <1>6, <2>1, <2>3, Alarms DEF AlarmInv, Waits
  <2>7. Calls'
    BY <1>3, <1>6, <1>7, <2>1, <2>3 DEF AlarmInv, Calls
  <2> QED
    BY <2>1, <2>4, <2>5, <2>6, <2>7 DEF AlarmInv
<1> QED
  BY <1>8, <1>9, <1>10 DEF CallbackReturns, Update, a, since, last

-----------------------------------------------------------------------------
(* The results                                                             *)

\* The invariant holds of every reachable state.
THEOREM AlarmInvariance == AlarmSpec => []AlarmInv
<1>1. AlarmInv /\ [AlarmNext]_alarmVars => AlarmInv'
  <2> SUFFICES ASSUME AlarmInv, [AlarmNext]_alarmVars PROVE AlarmInv'
    OBVIOUS
  <2>1. CASE UNCHANGED alarmVars
    BY <2>1 DEF alarmVars, AlarmInv, AlarmTypeOK, Unique, FiredWhileCalled, InCallback,
                Waits, Calls, Listed
  <2>2. ASSUME NEW a \in Alarm, NEW t \in Intervals, NEW r \in BOOLEAN,
               RegisterAlarm(a, t, r)
        PROVE  AlarmInv'
    BY <2>2, RegisterStep
  <2>3. CASE UnregisterAlarms \/ \E a \in Alarm : UnregisterAlarm(a)
    BY <2>3, UnregisterStep
  <2>4. ASSUME NEW a \in Alarm, AlarmReset(a) PROVE AlarmInv'
    BY <2>4, AlarmResetStep
  <2>5. CASE AlarmTick
    BY <2>5, TickStep
  <2>6. CASE RunAlarms
    BY <2>6, RunAlarmsStep
  <2>7. CASE CallbackReturns
    BY <2>7, CallbackReturnsStep
  <2> QED
    BY <2>1, <2>2, <2>3, <2>4, <2>5, <2>6, <2>7 DEF AlarmNext
<1> QED
  BY <1>1, AlarmInitInv, PTL DEF AlarmSpec

\* An alarm is marked as fired exactly while its callback runs, whatever the
\* callback does to the list: run_alarms neither calls it again from inside
\* itself nor leaves it marked.
THEOREM AlwaysFiredWhileCalled == AlarmSpec => []FiredWhileCalled
<1>1. AlarmInv => FiredWhileCalled
  BY DEF AlarmInv
<1> QED
  BY <1>1, AlarmInvariance, PTL

\* run_alarms calls no alarm before its interval is over: the invariant adds up
\* what has passed and what is left, and an alarm that is due has nothing left.
THEOREM AlarmsNeverEarly == AlarmSpec => NeverEarly
<1>1. AlarmInv /\ [AlarmNext]_alarmVars =>
         [\A a \in Alarm : a \in fired' \ fired => quiet[a] >= interval[a]]_alarmVars
  <2> SUFFICES ASSUME AlarmInv, AlarmNext, NEW a \in Alarm, a \in fired' \ fired
               PROVE  quiet[a] >= interval[a]
    BY DEF alarmVars
  <2>1. Fire(a)
    <3>1. CASE RunAlarms
      BY <3>1 DEF RunAlarms, Fire
    <3>2. CASE CallbackReturns
      BY <3>2 DEF CallbackReturns, Update, Forget, Clear
    <3>3. ASSUME ~RunAlarms, ~CallbackReturns PROVE FALSE
      BY <3>3 DEF AlarmNext, RegisterAlarm, UnregisterAlarm, UnregisterAlarms, Forget,
                  Clear, AlarmReset, AlarmTick
    <3> QED
      BY <3>1, <3>2, <3>3
  <2>2. a \in Listed \ fired /\ left[a] <= 0
    BY <2>1, Due DEF Fire
  <2>3. quiet[a] + left[a] >= interval[a] \/ quiet[a] = Longest
    BY <2>2 DEF AlarmInv, Waits
  <2>4. left[a] \in Int /\ quiet[a] \in 0 .. Longest /\ interval[a] \in 0 .. Longest
    BY DEF AlarmInv, AlarmTypeOK
  <2> QED
    BY <2>2, <2>3, <2>4, LongestInterval
<1> QED
  BY <1>1, AlarmInvariance, PTL DEF AlarmSpec, NeverEarly

-----------------------------------------------------------------------------
(* CallbackDomain: on the one queue of all endpoints replies find the way back*)

\* Endpoints that were opened; their numbers are not used again.
Opened == 1 .. callbackCount

\* Clients are linked to servers, and only clients make requests.
Links == /\ \A n \in Opened : linkedto[n] # 0 =>
              linkedto[n] \in Opened /\ linkedto[linkedto[n]] = 0
         /\ \A r \in DOMAIN requester : /\ requester[r] \in Opened
                                        /\ linkedto[requester[r]] # 0

\* A message on its way to a server names the client that sent the request,
\* and one on its way to a client is for the client that sent the request.
Addressed(m) == /\ m.num \in Opened
                /\ m.request \in DOMAIN requester
                /\ requester[m.request] = IF linkedto[m.num] = 0 THEN m.from ELSE m.num

Queue == \A i \in DOMAIN thequeue : Addressed(thequeue[i])

StillHeld == \A r \in held : /\ r.request \in DOMAIN requester
                        /\ requester[r.request] = r.from

Read == \A d \in delivered : /\ d.request \in DOMAIN requester
                             /\ d.at = requester[d.request]

DomainInv == CallbackTypeOK /\ Links /\ Queue /\ StillHeld /\ Read

-----------------------------------------------------------------------------
(* Sequences                                                               *)

\* Taking an element out of a sequence leaves elements of it.
LEMMA RemoveAtKeeps ==
    ASSUME NEW S, NEW s \in Seq(S), NEW n \in 1 .. Len(s)
    PROVE  /\ RemoveAt(s, n) \in Seq(S)
           /\ \A i \in DOMAIN RemoveAt(s, n) : \E j \in DOMAIN s : RemoveAt(s, n)[i] = s[j]
<1> DEFINE t == RemoveAt(s, n)
<1>1. /\ t \in Seq(S) /\ Len(t) = Len(s) - 1
      /\ \A i \in 1 .. Len(s) - 1 : t[i] = IF i < n THEN s[i] ELSE s[i + 1]
  BY RemoveAtElements
<1> HIDE DEF t
<1>2. /\ DOMAIN t = 1 .. Len(s) - 1 /\ DOMAIN s = 1 .. Len(s) /\ Len(s) \in Nat
  BY <1>1, LenProperties
<1>3. \A i \in 1 .. Len(s) - 1 : i \in 1 .. Len(s) /\ i + 1 \in 1 .. Len(s)
  BY <1>2
<1>4. \A i \in DOMAIN t : \E j \in DOMAIN s : t[i] = s[j]
  BY <1>1, <1>2, <1>3
<1> QED
  BY <1>1, <1>4 DEF t

-----------------------------------------------------------------------------
(* The steps                                                               *)

\* What is addressed stays so while endpoints and requests are only added.
LEMMA StaysAddressed ==
    ASSUME DomainInv, NEW m \in Message, Addressed(m),
           callbackCount' >= callbackCount, callbackCount' \in Nat,
           \A n \in Opened : linkedto'[n] = linkedto[n],
           DOMAIN requester \subseteq DOMAIN requester',
           \A r \in DOMAIN requester : requester'[r] = requester[r]
    PROVE  Addressed(m)'
<1>1. Opened \subseteq Opened'
  BY DEF DomainInv, CallbackTypeOK, Opened
<1>2. m.num \in Opened /\ m.request \in DOMAIN requester
  BY DEF Addressed
<1> QED
  BY <1>1, <1>2 DEF Addressed

\* Push adds a message, or fails to.
LEMMA Pushes ==
    ASSUME DomainInv, NEW m \in Message, Addressed(m)', Push(m),
           \A x \in Message : Addressed(x) => Addressed(x)'
    PROVE  /\ Queue'
           /\ thequeue' \in Seq(Message)
           /\ pipe' \in [Endpoint -> Nat]
           /\ writeFailed' \subseteq Endpoint
<1>1. thequeue' \in {thequeue, Append(thequeue, m)}
  BY DEF Push
<1>2. thequeue \in Seq(Message)
  BY DEF DomainInv, CallbackTypeOK
<1>3. /\ DOMAIN Append(thequeue, m) = DOMAIN thequeue \cup {Len(thequeue) + 1}
      /\ \A i \in DOMAIN thequeue : Append(thequeue, m)[i] = thequeue[i]
      /\ Append(thequeue, m)[Len(thequeue) + 1] = m
      /\ Append(thequeue, m) \in Seq(Message)
  BY <1>2
<1>4. Queue'
  <2>1. \A i \in DOMAIN thequeue' : \/ thequeue'[i] = m
                                    \/ i \in DOMAIN thequeue /\ thequeue'[i] = thequeue[i]
    BY <1>1, <1>3
  <2>2. \A i \in DOMAIN thequeue : thequeue[i] \in Message /\ Addressed(thequeue[i])
    BY <1>2 DEF DomainInv, Queue
  <2>3. \A i \in DOMAIN thequeue' : \E x \in Message : x = thequeue'[i] /\ Addressed(x)'
    BY <2>1, <2>2
  <2> QED
    BY <2>3 DEF Queue
<1>5. m.num \in Endpoint
  BY DEF Message
<1>6. pipe' \in [Endpoint -> Nat]
  <2>1. pipe' = pipe \/ pipe' = [pipe EXCEPT ![m.num] = @ + 1]
    BY DEF Push
  <2>2. pipe \in [Endpoint -> Nat]
    BY DEF DomainInv, CallbackTypeOK
  <2> QED
    BY <1>5, <2>1, <2>2
<1>7. writeFailed' \subseteq Endpoint
  <2>1. writeFailed' \subseteq writeFailed \cup {m.num}
    BY DEF Push
  <2> QED
    BY <1>5, <2>1 DEF DomainInv, CallbackTypeOK
<1> QED
  BY <1>1, <1>2, <1>3, <1>4, <1>6, <1>7

LEMMA DomainInitInv == CallbackInit => DomainInv
<1> SUFFICES ASSUME CallbackInit PROVE DomainInv
  OBVIOUS
<1>1. CallbackTypeOK
  BY CallbackAssumption DEF CallbackInit, CallbackTypeOK, Endpoint
<1>2. Links /\ Queue /\ StillHeld /\ Read
  BY DEF CallbackInit, Links, Opened, Queue, StillHeld, Read
<1> QED
  BY <1>1, <1>2 DEF DomainInv

LEMMA OpenEndpointStep ==
    ASSUME DomainInv, NEW to \in 0 .. MaxEndpoints, OpenEndpoint(to) PROVE DomainInv'
<1>1. /\ callbackCount \in Nat /\ callbackCount' = callbackCount + 1
      /\ callbackCount' \in Endpoint /\ callbackCount' \in 0 .. MaxEndpoints
      /\ callbackCount' \notin Opened /\ Opened' = Opened \cup {callbackCount'}
      /\ Opened' \subseteq Endpoint
  BY CallbackAssumption, SMTT(30) DEF DomainInv, CallbackTypeOK, OpenEndpoint, NextNumber, Endpoint, Opened
<1>2. /\ linkedto' \in [Endpoint -> 0 .. MaxEndpoints]
      /\ linkedto'[callbackCount'] = to
      /\ \A n \in Opened : linkedto'[n] = linkedto[n]
  BY <1>1 DEF DomainInv, CallbackTypeOK, OpenEndpoint, NextNumber
<1>3. CallbackTypeOK'
  <2>1. trlist' \subseteq 1 .. callbackCount'
    BY <1>1 DEF DomainInv, CallbackTypeOK, OpenEndpoint, NextNumber, Opened
  <2> QED
    BY <1>1, <1>2, <2>1 DEF DomainInv, CallbackTypeOK, OpenEndpoint, NextNumber
<1>4. Links'
  <2>1. to # 0 => to \in Opened /\ linkedto[to] = 0
    BY <1>1 DEF OpenEndpoint, Opened
  <2> QED
    BY <1>1, <1>2, <2>1 DEF DomainInv, Links, OpenEndpoint
<1>5. Queue'
  <2>1. \A i \in DOMAIN thequeue : Addressed(thequeue[i])'
    BY <1>1, <1>2, StaysAddressed, SMTT(30) DEF DomainInv, CallbackTypeOK, Queue, OpenEndpoint
  <2> QED
    BY <2>1 DEF Queue, OpenEndpoint
<1> QED
  BY <1>3, <1>4, <1>5 DEF DomainInv, StillHeld, Read, OpenEndpoint

LEMMA SendRequestStep ==
    ASSUME DomainInv, NEW c \in Endpoint, SendRequest(c) PROVE DomainInv'
<1> DEFINE r == Len(requester) + 1
<1>1. /\ requester \in Seq(Endpoint) /\ r \in Request
      /\ requester' = Append(requester, c)
      /\ requester' \in Seq(Endpoint) /\ Len(requester') = r /\ r <= MaxRequests
      /\ DOMAIN requester' = DOMAIN requester \cup {r}
      /\ requester'[r] = c
      /\ \A q \in DOMAIN requester : requester'[q] = requester[q]
  BY CallbackAssumption DEF DomainInv, CallbackTypeOK, SendRequest, Request
<1>2. c \in Opened /\ linkedto[c] \in Opened /\ linkedto[linkedto[c]] = 0
  BY DEF DomainInv, CallbackTypeOK, Links, SendRequest, Opened
<1>3. PICK m \in Message : m = [num |-> linkedto[c], from |-> c, request |-> r]
  <2>1. linkedto[c] \in Endpoint
    BY <1>2, CallbackAssumption DEF DomainInv, CallbackTypeOK, Opened, Endpoint
  <2>2. r \in Request
    BY <1>1
  <2> HIDE DEF r
  <2>3. [num |-> linkedto[c], from |-> c, request |-> r] \in Message
    BY <2>1, <2>2 DEF Message
  <2> QED
    BY <2>3
<1>4. Addressed(m)'
  <2>1. callbackCount' = callbackCount /\ linkedto' = linkedto
    BY DEF SendRequest
  <2>2. m.num = linkedto[c] /\ m.from = c /\ m.request = r
    BY <1>3
  <2> HIDE DEF r
  <2> QED
    BY <1>1, <1>2, <2>1, <2>2 DEF Addressed, Opened
<1>5. \A x \in Message : Addressed(x) => Addressed(x)'
  <2>1. callbackCount' = callbackCount /\ linkedto' = linkedto /\ callbackCount \in Nat
    BY CallbackAssumption DEF DomainInv, CallbackTypeOK, SendRequest
  <2>2. \A q \in DOMAIN requester : q \in DOMAIN requester'
    BY <1>1
  <2> HIDE DEF r
  <2> QED
    BY <1>1, <2>1, <2>2, StaysAddressed
<1>6. /\ Queue'
      /\ thequeue' \in Seq(Message)
      /\ pipe' \in [Endpoint -> Nat]
      /\ writeFailed' \subseteq Endpoint
  <2>1. CASE linkedto[c] \in trlist
    <3>1. Push(m)
      BY <1>3, <2>1 DEF SendRequest
    <3> QED
      BY <1>4, <1>5, <3>1, Pushes
  <2>2. CASE linkedto[c] \notin trlist
    <3>1. UNCHANGED <<thequeue, pipe, writeFailed>>
      BY <2>2 DEF SendRequest
    <3>2. \A i \in DOMAIN thequeue : \E x \in Message : x = thequeue[i] /\ Addressed(x)'
      BY <1>5 DEF DomainInv, CallbackTypeOK, Queue
    <3> QED
      BY <3>1, <3>2 DEF DomainInv, CallbackTypeOK, Queue
  <2> QED
    BY <2>1, <2>2
<1>7. CallbackTypeOK'
  BY <1>1, <1>6 DEF DomainInv, CallbackTypeOK, SendRequest
<1>8. Links'
  BY <1>1, <1>2 DEF DomainInv, Links, SendRequest, Opened
<1>9. StillHeld' /\ Read'
  BY <1>1 DEF DomainInv, StillHeld, Read, SendRequest
<1> QED
  BY <1>6, <1>7, <1>8, <1>9 DEF DomainInv

LEMMA SendReplyStep ==
    ASSUME DomainInv, NEW r \in held, SendReply(r) PROVE DomainInv'
<1> DEFINE m == [num |-> r.from, from |-> r.at, request |-> r.request]
<1>1. m \in Message
  BY DEF DomainInv, CallbackTypeOK, Message
<1>2. Addressed(m)'
  BY DEF DomainInv, StillHeld, Links, Addressed, SendReply, Opened
<1>3. \A x \in Message : Addressed(x) => Addressed(x)'
  BY DEF Addressed, SendReply, Opened
<1>4. /\ Queue'
      /\ thequeue' \in Seq(Message)
      /\ pipe' \in [Endpoint -> Nat]
      /\ writeFailed' \subseteq Endpoint
  <2>1. CASE r.from \in trlist
    BY <1>1, <1>2, <1>3, <2>1, Pushes DEF SendReply
  <2>2. CASE r.from \notin trlist
    <3>1. UNCHANGED <<thequeue, pipe, writeFailed>>
      BY <2>2 DEF SendReply
    <3>2. \A i \in DOMAIN thequeue : \E x \in Message : x = thequeue[i] /\ Addressed(x)'
      BY <1>3 DEF DomainInv, CallbackTypeOK, Queue
    <3> QED
      BY <3>1, <3>2 DEF DomainInv, CallbackTypeOK, Queue
  <2> QED
    BY <2>1, <2>2
<1>5. CallbackTypeOK'
  BY <1>4 DEF DomainInv, CallbackTypeOK, SendReply
<1> QED
  BY <1>4, <1>5 DEF DomainInv, Links, StillHeld, Read, SendReply, Opened

LEMMA ReadMessageStep ==
    ASSUME DomainInv, NEW n \in Endpoint, ReadMessage(n) PROVE DomainInv'
<1>1. pipe' \in [Endpoint -> Nat]
  BY DEF DomainInv, CallbackTypeOK, ReadMessage
<1>2. CASE UNCHANGED <<thequeue, held, delivered>>
  BY <1>1, <1>2 DEF DomainInv, CallbackTypeOK, Links, Queue, Addressed, StillHeld, Read, ReadMessage, Opened
<1>3. ASSUME NEW i \in Pop(n), thequeue' = RemoveAt(thequeue, i),
             IF linkedto[n] = 0
             THEN /\ held' = held \cup {[at |-> n, from |-> thequeue[i].from,
                                         request |-> thequeue[i].request]}
                  /\ UNCHANGED delivered
             ELSE /\ delivered' = delivered \cup {[at |-> n, request |-> thequeue[i].request]}
                  /\ UNCHANGED held
      PROVE  DomainInv'
  <2>1. /\ i \in 1 .. Len(thequeue) /\ thequeue \in Seq(Message)
        /\ thequeue[i].num = n /\ thequeue[i] \in Message
    BY DEF DomainInv, CallbackTypeOK, Pop, For
  <2>2. /\ thequeue' \in Seq(Message)
        /\ \A k \in DOMAIN thequeue' : \E j \in DOMAIN thequeue : thequeue'[k] = thequeue[j]
    BY <1>3, <2>1, RemoveAtKeeps
  <2>3. Queue'
    BY <2>2 DEF DomainInv, Queue, Addressed, ReadMessage, Opened
  <2>4. Addressed(thequeue[i])
    BY <2>1 DEF DomainInv, Queue
  <2>5. /\ held' \subseteq [at : Endpoint, from : Endpoint, request : Request]
        /\ delivered' \subseteq [at : Endpoint, request : Request]
        /\ StillHeld' /\ Read'
    <3>1. CASE linkedto[n] = 0
      BY <1>3, <2>1, <2>4, <3>1
      DEF DomainInv, CallbackTypeOK, StillHeld, Read, Addressed, ReadMessage, Message
    <3>2. CASE linkedto[n] # 0
      BY <1>3, <2>1, <2>4, <3>2
      DEF DomainInv, CallbackTypeOK, StillHeld, Read, Addressed, ReadMessage, Message
    <3> QED
      BY <3>1, <3>2
  <2> QED
    BY <1>1, <2>2, <2>3, <2>5 DEF DomainInv, CallbackTypeOK, Links, ReadMessage, Opened
<1> QED
  BY <1>2, <1>3 DEF ReadMessage

LEMMA CloseStep ==
    ASSUME DomainInv, ClearCallbackList \/ \E n \in Endpoint : CloseEndpoint(n) PROVE DomainInv'
<1>1. /\ trlist' \subseteq trlist /\ held' \subseteq held
      /\ pipe' \in [Endpoint -> Nat]
      /\ UNCHANGED <<callbackCount, linkedto, thequeue, requester, delivered, writeFailed>>
  BY DEF DomainInv, CallbackTypeOK, ClearCallbackList, CloseEndpoint
<1> QED
  BY <1>1 DEF DomainInv, CallbackTypeOK, Links, Queue, Addressed, StillHeld, Read, Opened

\* The invariant of the queue, the servers and the clients holds in every reachable state.
THEOREM DomainInvariance == CallbackSpec => []DomainInv
<1>1. ASSUME DomainInv, [CallbackNext]_callbackVars PROVE DomainInv'
  <2>1. CASE CallbackNext
    BY <1>1, <2>1, OpenEndpointStep, SendRequestStep, SendReplyStep, ReadMessageStep,
       CloseStep DEF CallbackNext
  <2>2. CASE UNCHANGED callbackVars
    BY <1>1, <2>2 DEF callbackVars, DomainInv, CallbackTypeOK, Links, Queue, Addressed, StillHeld, Read,
                      Opened
  <2> QED
    BY <1>1, <2>1, <2>2
<1> QED
  BY <1>1, DomainInitInv, PTL DEF CallbackSpec

-----------------------------------------------------------------------------
(* The results                                                             *)

\* A reply is read by the client whose request it answers: numbers of
\* endpoints are never used again, so what lies on the queue for a closed
\* endpoint, or is answered after it was closed, reaches nobody else.
THEOREM RepliesAlwaysToRequester == CallbackSpec => []RepliesToRequester
<1>1. ASSUME DomainInv PROVE RepliesToRequester
  BY <1>1 DEF DomainInv, Read, RepliesToRequester
<1> QED
  BY <1>1, DomainInvariance, PTL

-----------------------------------------------------------------------------
(* PersistentStore: a crash never costs what a complete store wrote        *)

\* A backup that the next start reads holds this value of t or a newer one.
InBackup(t) == \E f \in Readable \ {Main} : content[f][t] >= stored[t]

InMain(t) == Main \in exists /\ content[Main][t] >= stored[t]

\* What the last complete store has written is safe.  If only the main file has
\* it the values in memory are not older: the next line may overwrite it.
Safe(t) == \/ InBackup(t)
           \/ InMain(t) /\ (storing # "down" => values[t] >= stored[t])

Safety == \A t \in Token : stored[t] # 0 => Safe(t)

\* The lines written so far are in the main file.
Written == /\ storing = "saved" => written = {}
           /\ storing = "writing" =>
                \A t \in written : Main \in exists /\ content[Main][t] = values[t]

\* Backups are removed only while the main file has everything.
Complete == storing = "cleaning" =>
    \A t \in Token : stored[t] # 0 => InMain(t) /\ values[t] >= stored[t]

\* No value is ahead of the versions.
Dated == \A t \in Token : /\ values[t] <= version /\ stored[t] <= version
                           /\ \A f \in File : content[f][t] <= version

StoreInv == StoreTypeOK /\ Safety /\ Written /\ Complete /\ Dated

-----------------------------------------------------------------------------
(* The steps                                                               *)

\* Files that are added, or gain newer lines, take no safe value away.
LEMMA BackupsKept ==
    ASSUME NEW t \in Token, InBackup(t), stored'[t] = stored[t],
           \A f \in Backup : f \in exists => f \in exists' /\ content'[f][t] = content[f][t]
    PROVE  InBackup(t)'
<1>1. PICK f \in Readable \ {Main} : content[f][t] >= stored[t]
  BY DEF InBackup
<1>2. f \in Backup /\ \A k \in 0 .. f : k \in exists
  BY <1>1 DEF Readable
<1>3. \A k \in 0 .. f : k \in Backup
  BY <1>2, StoreAssumption DEF Backup
<1>4. f \in (Readable \ {Main})'
  BY <1>1, <1>2, <1>3 DEF Readable
<1>5. content'[f][t] >= stored'[t]
  <2>1. f \in 0 .. f
    BY <1>2, StoreAssumption DEF Backup
  <2> QED
    BY <1>1, <1>2, <2>1
<1> QED
  BY <1>4, <1>5 DEF InBackup

LEMMA StoreInitInv == StoreInit => StoreInv
<1> SUFFICES ASSUME StoreInit PROVE StoreInv
  OBVIOUS
<1>1. 0 \in 0 .. MaxVersion /\ 0 \in Backup
  BY StoreAssumption DEF Backup
<1>2. StoreTypeOK
  BY <1>1 DEF StoreInit, StoreTypeOK, NoLines
<1>3. Safety /\ Written /\ Complete /\ Dated
  BY DEF StoreInit, Safety, Written, Complete, Dated, NoLines
<1> QED
  BY <1>2, <1>3 DEF StoreInv

LEMMA MainNoBackup == Main \notin Backup /\ Backup \subseteq File /\ Main \in File
BY StoreAssumption DEF Main, Backup, File

\* What is safe stays safe if nothing on disk changes.
LEMMA SameDisk ==
    ASSUME StoreInv, UNCHANGED <<exists, content, stored>>,
           \A t \in Token : values'[t] >= values[t] \/ storing' = "down",
           storing = "down" => storing' = "down",
           \A t \in Token : values'[t] \in Int
    PROVE  Safety'
<1> SUFFICES ASSUME NEW t \in Token, stored[t] # 0 PROVE Safe(t)'
  BY DEF Safety
<1>1. Safe(t)
  BY DEF StoreInv, Safety
<1>2. CASE InBackup(t)
  BY <1>2, BackupsKept DEF Safe
<1>3. CASE InMain(t) /\ (storing # "down" => values[t] >= stored[t])
  <2>1. InMain(t)'
    BY <1>3 DEF InMain
  <2>2. stored[t] \in Int /\ values[t] \in Int
    BY StoreAssumption DEF StoreInv, StoreTypeOK
  <2> QED
    BY <1>3, <2>1, <2>2 DEF Safe
<1> QED
  BY <1>1, <1>2, <1>3 DEF Safe

LEMMA ChangeStep == ASSUME StoreInv, NEW t \in Token, Change(t) PROVE StoreInv'
<1>1. version' \in 0 .. MaxVersion /\ version' = version + 1 /\ version \in Int
  BY StoreAssumption DEF StoreInv, StoreTypeOK, Change
<1>2. StoreTypeOK'
  BY <1>1 DEF StoreInv, StoreTypeOK, Change, progress
<1>3. \A u \in Token : values'[u] = (IF u = t THEN version + 1 ELSE values[u])
  BY DEF StoreInv, StoreTypeOK, Change
<1>4. \A u \in Token : values[u] \in Int /\ stored[u] \in Int
                       /\ values[u] <= version /\ stored[u] <= version
  BY StoreAssumption DEF StoreInv, StoreTypeOK, Dated
<1>5. \A f \in File, u \in Token : content[f][u] \in Int /\ content[f][u] <= version
  BY StoreAssumption DEF StoreInv, StoreTypeOK, Dated
<1>6. Safety'
  <2>1. \A u \in Token : values'[u] >= values[u] /\ values'[u] \in Int
    BY <1>1, <1>3, <1>4
  <2> QED
    BY <2>1, SameDisk DEF Change, progress
<1>7. Dated'
  BY <1>1, <1>3, <1>4, <1>5 DEF Change, Dated
<1> QED
  BY <1>2, <1>6, <1>7 DEF StoreInv, Change, progress, Written, Complete

LEMMA SavePersistentStep == ASSUME StoreInv, SavePersistent PROVE StoreInv'
<1>1. CASE PutAside
  <2>1. PICK j \in FreeBackup :
           /\ exists' = (exists \ {Main}) \cup {j}
           /\ content' = [content EXCEPT ![j] = content[Main], ![Main] = NoLines]
           /\ UNCHANGED stored
    BY <1>1 DEF PutAside
  <2>2. /\ j \in Backup /\ j \notin exists
        /\ \A k \in 0 .. j - 1 : k \in exists /\ k \in Backup
    BY <2>1, StoreAssumption DEF FreeBackup, Backup
  <2>3. StoreTypeOK'
    BY <2>1, <2>2, MainNoBackup, StoreAssumption
    DEF StoreInv, StoreTypeOK, SavePersistent, NoLines
  <2>4. \A f \in Backup : f \in exists => f \in exists' /\ content'[f] = content[f]
    BY <2>1, <2>2, MainNoBackup DEF StoreInv, StoreTypeOK
  <2>5. content'[j] = content[Main]
    BY <2>1, <2>2, MainNoBackup DEF StoreInv, StoreTypeOK
  <2>6. j \in (Readable \ {Main})'
    <3>1. \A k \in 0 .. j : k \in exists'
      BY <2>1, <2>2, MainNoBackup, StoreAssumption DEF Backup
    <3> QED
      BY <2>2, <3>1, MainNoBackup DEF Readable
  <2>7. ASSUME NEW t \in Token, stored[t] # 0 PROVE InBackup(t)'
    <3>1. CASE InBackup(t)
      BY <2>1, <2>4, <3>1, BackupsKept
    <3>2. CASE InMain(t)
      BY <2>1, <2>5, <2>6, <3>2 DEF InMain, InBackup
    <3> QED
      BY <2>7, <3>1, <3>2 DEF StoreInv, Safety, Safe
  <2>8. Dated'
    <3>1. \A f \in File, t \in Token : content'[f][t] \in {0, content[f][t], content[Main][t]}
      BY <2>1, <2>2, MainNoBackup DEF StoreInv, StoreTypeOK, NoLines
    <3> QED
      BY <2>1, <3>1, MainNoBackup, StoreAssumption DEF StoreInv, StoreTypeOK, SavePersistent, Dated
  <2> QED
    BY <2>1, <2>3, <2>7, <2>8 DEF StoreInv, SavePersistent, Safety, Safe, Written, Complete
<1>2. CASE RemoveOld
  <2>1. StoreTypeOK'
    <3>1. 0 \in 0 .. MaxVersion
      BY StoreAssumption
    <3> QED
      BY <1>2, <3>1, MainNoBackup DEF StoreInv, StoreTypeOK, SavePersistent, RemoveOld, NoLines
  <2>2. \A t \in Token : stored'[t] = 0
    BY <1>2 DEF RemoveOld, NoLines
  <2>3. Dated'
    <3>1. \A f \in File, t \in Token : content'[f][t] \in {0, content[f][t]}
      BY <1>2, MainNoBackup DEF StoreInv, StoreTypeOK, RemoveOld, NoLines
    <3> QED
      BY <2>2, <3>1, StoreAssumption DEF StoreInv, StoreTypeOK, SavePersistent, Dated
  <2> QED
    BY <2>1, <2>2, <2>3 DEF StoreInv, SavePersistent, Safety, Written, Complete
<1>3. CASE LeaveOld
  <2>1. StoreTypeOK'
    BY <1>3 DEF StoreInv, StoreTypeOK, SavePersistent, LeaveOld
  <2>2. \A t \in Token : values'[t] >= values[t] /\ values'[t] \in Int
    BY StoreAssumption DEF StoreInv, StoreTypeOK, SavePersistent
  <2>3. Safety'
    BY <1>3, <2>2, SameDisk DEF SavePersistent, LeaveOld
  <2> QED
    BY <1>3, <2>1, <2>3 DEF StoreInv, SavePersistent, LeaveOld, Written, Complete, Dated
<1> QED
  BY <1>1, <1>2, <1>3 DEF SavePersistent

LEMMA StoreHeaderStep == ASSUME StoreInv, StoreHeader PROVE StoreInv'
<1>1. StoreTypeOK'
  BY MainNoBackup DEF StoreInv, StoreTypeOK, StoreHeader
<1>2. Safety'
  <2> SUFFICES ASSUME NEW t \in Token, stored[t] # 0 PROVE Safe(t)'
    BY DEF Safety, StoreHeader
  <2>1. CASE InBackup(t)
    BY <2>1, BackupsKept DEF StoreHeader, Safe
  <2>2. CASE InMain(t) /\ values[t] >= stored[t]
    BY <2>2 DEF StoreHeader, Safe, InMain
  <2> QED
    BY <2>1, <2>2 DEF StoreInv, Safety, Safe, StoreHeader
<1>3. Written'
  <2>1. storing = "saved" => written = {}
    BY DEF StoreInv, Written
  <2> QED
    BY <2>1 DEF Written, StoreHeader
<1> QED
  BY <1>1, <1>2, <1>3 DEF StoreInv, StoreHeader, Complete, Dated

LEMMA StoreLineStep == ASSUME StoreInv, NEW t \in Token, StoreLine(t) PROVE StoreInv'
<1>1. CASE UNCHANGED <<exists, content, written>>
  <2>1. StoreTypeOK' /\ Written' /\ Complete' /\ Dated'
    BY <1>1 DEF StoreInv, StoreTypeOK, StoreLine, Written, Complete, InMain, Dated
  <2>2. Safety'
    BY <1>1, SameDisk, StoreAssumption DEF StoreInv, StoreTypeOK, StoreLine
  <2> QED
    BY <2>1, <2>2 DEF StoreInv
<1>2. CASE /\ exists' = exists \cup {Main}
           /\ content' = [content EXCEPT ![Main][t] = values[t]]
           /\ written' = written \cup {t}
  <2>1. /\ \A f \in Backup : content'[f] = content[f]
        /\ \A u \in Token : content'[Main][u] = IF u = t THEN values[t] ELSE content[Main][u]
    BY <1>2, MainNoBackup DEF StoreInv, StoreTypeOK
  <2>2. StoreTypeOK'
    BY <1>2, MainNoBackup DEF StoreInv, StoreTypeOK, StoreLine
  <2>3. Safety'
    <3> SUFFICES ASSUME NEW u \in Token, stored[u] # 0 PROVE Safe(u)'
      BY DEF Safety, StoreLine
    <3>1. CASE InBackup(u)
      BY <1>2, <2>1, <3>1, BackupsKept DEF StoreLine, Safe
    <3>2. CASE InMain(u) /\ values[u] >= stored[u]
      BY <1>2, <2>1, <3>2 DEF StoreLine, Safe, InMain
    <3> QED
      BY <3>1, <3>2 DEF StoreInv, Safety, Safe, StoreLine
  <2>4. Written'
    BY <1>2, <2>1 DEF StoreInv, StoreTypeOK, StoreLine, Written
  <2>5. Dated'
    <3>1. \A f \in File, u \in Token : content'[f][u] \in {content[f][u], values[u]}
      BY <1>2, MainNoBackup DEF StoreInv, StoreTypeOK
    <3> QED
      BY <3>1 DEF StoreInv, StoreLine, Dated
  <2> QED
    BY <2>2, <2>3, <2>4, <2>5 DEF StoreInv, StoreLine, Complete
<1> QED
  BY <1>1, <1>2 DEF StoreLine

LEMMA AllWrittenStep == ASSUME StoreInv, AllWritten PROVE StoreInv'
<1>1. 0 \in Backup /\ 0 \in 0 .. MaxVersion
  BY StoreAssumption DEF Backup
<1>2. CASE Main \in exists
  <2>1. \A t \in Token : stored'[t] = IF t \in written THEN values[t] ELSE 0
    BY <1>2 DEF AllWritten
  <2>2. StoreTypeOK'
    BY <1>1, <1>2 DEF StoreInv, StoreTypeOK, AllWritten
  <2>3. \A t \in Token : values[t] \in Int /\ values[t] <= version /\ 0 <= version
    BY StoreAssumption DEF StoreInv, StoreTypeOK, Dated
  <2>4. \A t \in Token : stored'[t] # 0 =>
          Main \in exists /\ content[Main][t] = values[t] /\ values[t] = stored'[t]
    BY <2>1 DEF StoreInv, AllWritten, Written
  <2>5. Safety'
    BY <2>3, <2>4 DEF AllWritten, Safety, Safe, InMain
  <2>6. Complete'
    BY <2>3, <2>4 DEF AllWritten, Complete, InMain
  <2>7. Dated'
    BY <2>1, <2>3 DEF StoreInv, AllWritten, Dated
  <2>8. Written'
    BY <1>2 DEF AllWritten, Written
  <2> QED
    BY <2>2, <2>5, <2>6, <2>7, <2>8 DEF StoreInv
<1>3. CASE Main \notin exists
  <2>1. StoreTypeOK' /\ Written' /\ Complete' /\ Dated'
    BY <1>1, <1>3 DEF StoreInv, StoreTypeOK, AllWritten, Written, Complete, Dated
  <2>2. Safety'
    BY <1>3, SameDisk, StoreAssumption DEF StoreInv, StoreTypeOK, AllWritten
  <2> QED
    BY <2>1, <2>2 DEF StoreInv
<1> QED
  BY <1>2, <1>3

\* Only backups go, and the main file has it all.
LEMMA CleanOneStep == ASSUME StoreInv, CleanOne PROVE StoreInv'
<1>1. /\ Main \in exists => Main \in exists'
      /\ content'[Main] = content[Main]
  BY MainNoBackup DEF StoreInv, StoreTypeOK, CleanOne
<1>2. \A t \in Token : stored[t] # 0 => InMain(t)' /\ values[t] >= stored[t]
  BY <1>1 DEF StoreInv, Complete, CleanOne, InMain
<1>3. StoreTypeOK'
  <2>1. 0 \in Backup /\ 0 \in 0 .. MaxVersion /\ cleanNext \in Backup
    BY StoreAssumption DEF StoreInv, StoreTypeOK, Backup
  <2>2. cleanNext' \in Backup
    BY <2>1, StoreAssumption DEF CleanOne, Backup
  <2>3. /\ exists' \subseteq File
        /\ content' \in [File -> [Token -> 0 .. MaxVersion]]
        /\ \A f \in File \ exists' : content'[f] = NoLines
    BY <2>1, MainNoBackup DEF StoreInv, StoreTypeOK, CleanOne, NoLines
  <2>4. storing' \in {"no", "saved", "writing", "cleaning", "down"} /\ storing' # "saved"
    BY DEF StoreInv, StoreTypeOK, CleanOne
  <2> QED
    BY <2>2, <2>3, <2>4 DEF StoreInv, StoreTypeOK, CleanOne
<1>4. Safety' /\ Complete'
  BY <1>2 DEF CleanOne, Safety, Safe, Complete
<1>5. Dated'
  <2>1. \A f \in File, t \in Token : content'[f][t] \in {0, content[f][t]}
    BY DEF StoreInv, StoreTypeOK, CleanOne, NoLines
  <2> QED
    BY <2>1, StoreAssumption DEF StoreInv, StoreTypeOK, CleanOne, Dated
<1> QED
  BY <1>3, <1>4, <1>5 DEF StoreInv, CleanOne, Written

LEMMA CrashStep == ASSUME StoreInv, Crash PROVE StoreInv'
<1>1. StoreTypeOK'
  BY StoreAssumption DEF StoreInv, StoreTypeOK, Crash, Backup
<1>2. Safety'
  BY SameDisk, StoreAssumption DEF StoreInv, StoreTypeOK, Crash
<1> QED
  BY <1>1, <1>2 DEF StoreInv, Crash, Written, Complete, Dated

\* What only the main file holds is read back from it.
LEMMA RestartStep == ASSUME StoreInv, Restart PROVE StoreInv'
<1>1. ASSUME NEW t \in Token PROVE LastRead(t) \subseteq File
  BY MainNoBackup DEF LastRead, Readable
<1>2. ASSUME NEW t \in Token
      PROVE  /\ values'[t] \in 0 .. MaxVersion
             /\ LastRead(t) = {} => values'[t] = 0
             /\ LastRead(t) # {} => \E f \in LastRead(t) : values'[t] = content[f][t]
  BY <1>1, StoreAssumption DEF StoreInv, StoreTypeOK, Restart
<1>3. StoreTypeOK'
  BY <1>2 DEF StoreInv, StoreTypeOK, Restart
<1>4. ASSUME NEW t \in Token, stored[t] # 0, InMain(t) PROVE values'[t] >= stored[t]
  <2>1. content[Main][t] # 0 /\ Main \in Readable
    BY <1>4, StoreAssumption DEF StoreInv, StoreTypeOK, InMain, Readable
  <2>2. LastRead(t) = {Main}
    BY <2>1 DEF LastRead
  <2> QED
    BY <1>2, <1>4, <2>2 DEF InMain
<1>5. Safety'
  <2> SUFFICES ASSUME NEW t \in Token, stored[t] # 0 PROVE Safe(t)'
    BY DEF Safety, Restart
  <2>1. CASE InBackup(t)
    BY <2>1, BackupsKept DEF Restart, Safe
  <2>2. CASE InMain(t)
    BY <1>4, <2>2 DEF Restart, Safe, InMain
  <2> QED
    BY <2>1, <2>2 DEF StoreInv, Safety, Safe
<1>6. Dated'
  <2>1. \A t \in Token : values'[t] <= version
    BY <1>1, <1>2, StoreAssumption DEF StoreInv, StoreTypeOK, Dated
  <2> QED
    BY <2>1 DEF StoreInv, Restart, Dated
<1> QED
  BY <1>3, <1>5, <1>6 DEF StoreInv, Restart, Written, Complete

\* The invariant of the files holds in every reachable state, crashes included.
THEOREM StoreInvariance == StoreSpec => []StoreInv
<1>1. ASSUME StoreInv, [StoreNext]_storeVars PROVE StoreInv'
  <2>1. CASE StoreNext
    BY <1>1, <2>1, ChangeStep, StoreLineStep, SavePersistentStep, StoreHeaderStep,
       AllWrittenStep, CleanOneStep, CrashStep, RestartStep DEF StoreNext
  <2>2. CASE UNCHANGED storeVars
    BY <1>1, <2>2 DEF storeVars, progress, StoreInv, StoreTypeOK, Safety, Safe, InBackup, InMain,
                      Readable, Written, Complete, Dated
  <2> QED
    BY <1>1, <2>1, <2>2
<1> QED
  BY <1>1, StoreInitInv, PTL DEF StoreSpec

-----------------------------------------------------------------------------
(* The results                                                             *)

\* Whenever the process crashes, what the last complete store has written is
\* in a file that the next start reads: snmp_clean_persistent removes the old
\* files only when the new one has it all, and snmp_save_persistent puts a file
\* where reading will come by it, whatever earlier crashes have left.
THEOREM CrashLosesNothing == StoreSpec => []NothingLost
<1>1. ASSUME StoreInv PROVE NothingLost
  <2> SUFFICES ASSUME NEW t \in Token, stored[t] # 0
               PROVE  \E f \in Readable : content[f][t] >= stored[t]
    BY DEF NothingLost
  <2>1. CASE InBackup(t)
    BY <2>1 DEF InBackup
  <2>2. CASE InMain(t)
    BY <2>2 DEF InMain, Readable
  <2> QED
    BY <1>1, <2>1, <2>2 DEF StoreInv, Safety, Safe
<1> QED
  BY <1>1, StoreInvariance, PTL

-----------------------------------------------------------------------------
(* FdEvents: a round calls exactly what was reported                       *)

FdEntry == [fd : Fd \cup {0}, reg : Nat]

FdTyped ==
    /\ fdTable \in [Kind -> [Slot -> FdEntry]]
    /\ fdLen \in [Kind -> 0 .. NumExternalFds]
    /\ registrations \in Nat
    /\ unregistered \in BOOLEAN
    /\ fdPhase \in {"idle", "selected", "scan", "callback"}
    /\ fdKind \in Kind /\ fdSlot \in Nat /\ fdCount \in Int
    /\ watched \subseteq Kind \X FdEntry
    /\ fdBits \subseteq reported
    /\ called \in Seq(Kind \X FdEntry)

\* What the bit of a call is.
Bit(c) == <<c[1], c[2].fd>>

\* Only registrations that select knew are called, for what it reported, and
\* for no bit twice.
CallsSound == /\ \A n \in DOMAIN called : called[n] \in watched /\ Bit(called[n]) \in reported
              /\ \A m, n \in DOMAIN called : Bit(called[m]) = Bit(called[n]) => m = n

\* What is reported belongs to something that was watched, which is older than
\* all later registrations.
ReportedKnown == /\ \A r \in reported : \E w \in watched : Bit(w) = r
                 /\ \A w \in watched : w[2].reg <= registrations
                 /\ \A k \in Kind : \A n \in 0 .. fdLen[k] - 1 : fdTable[k][n].reg <= registrations

\* As long as nothing is unregistered, what was watched stays in front of
\* what has been registered since.
InFront == (fdPhase # "idle" /\ ~unregistered) =>
    /\ \A w \in watched : \E n \in 0 .. fdLen[w[1]] - 1 : fdTable[w[1]][n] = w[2]
    /\ \A k \in Kind : \A n \in 0 .. fdLen[k] - 1 : \A m \in 0 .. n :
          <<k, fdTable[k][n]>> \in watched => <<k, fdTable[k][m]>> \in watched

\* The calls whose bit has been cleared: all but the one under way.
Finished == IF fdPhase = "callback" THEN 1 .. Len(called) - 1 ELSE 1 .. Len(called)

\* The bits that are left are those not called for, and are counted.
BitsLeft == ~unregistered =>
    /\ fdPhase # "idle" => fdBits = reported \ {Bit(called[n]) : n \in Finished}
    /\ fdPhase = "idle" => reported = {Bit(called[n]) : n \in Finished}
    /\ IsFiniteSet(fdBits) /\ Cardinality(fdBits) <= fdCount
    /\ fdPhase = "callback" => /\ called # <<>>
                               /\ fdSlot < fdLen[fdKind]
                               /\ called[Len(called)] = <<fdKind, fdTable[fdKind][fdSlot]>>

\* The loops have cleared the bits of what they have passed.
PassedCleared == (fdPhase \in {"scan", "callback"} /\ ~unregistered) =>
    /\ fdSlot <= fdLen[fdKind]
    /\ \A n \in 0 .. fdSlot - 1 : <<fdKind, fdTable[fdKind][n].fd>> \notin fdBits
    /\ \A b \in fdBits : b[1] >= fdKind

FdInv == FdTyped /\ CallsSound /\ ReportedKnown /\ InFront /\ BitsLeft /\ PassedCleared

LEMMA FdInitInv == FdInit => FdInv
<1> SUFFICES ASSUME FdInit PROVE FdInv
  OBVIOUS
<1>1. Unused \in FdEntry
  BY DEF Unused, FdEntry
<1>2. 1 \in Kind
  BY FdAssumption DEF Kind
<1>3. FdTyped
  <2>1. fdTable \in [Kind -> [Slot -> FdEntry]]
    BY <1>1 DEF FdInit
  <2>2. fdLen \in [Kind -> 0 .. NumExternalFds]
    BY FdAssumption DEF FdInit
  <2>3. called \in Seq(Kind \X FdEntry)
    BY DEF FdInit
  <2>4. NumExternalFds \in Nat /\ fdBits \subseteq reported /\ watched \subseteq Kind \X FdEntry
    BY FdAssumption DEF FdInit
  <2>5. fdSlot \in Nat /\ fdCount \in Int /\ registrations \in Nat /\ fdKind \in Kind
    BY <1>2 DEF FdInit
  <2>6. unregistered \in BOOLEAN /\ fdPhase \in {"idle", "selected", "scan", "callback"}
    BY DEF FdInit
  <2> QED
    BY <2>1, <2>2, <2>3, <2>4, <2>5, <2>6 DEF FdTyped
<1>4. DOMAIN called = {} /\ Finished = {} /\ watched = {} /\ reported = {}
  BY DEF FdInit, Finished
<1>5. BitsLeft
  BY <1>4, FS_EmptySet DEF FdInit, BitsLeft
<1>6. ReportedKnown
  BY <1>4 DEF FdInit, ReportedKnown
<1> QED
  BY <1>3, <1>4, <1>5, <1>6 DEF FdInit, FdInv, CallsSound, InFront, PassedCleared


\* The slots in use are slots, and hold entries.
LEMMA FdSlots ==
    ASSUME FdTyped, NEW k \in Kind
    PROVE  /\ fdLen[k] \in 0 .. NumExternalFds
           /\ \A n \in 0 .. fdLen[k] - 1 : n \in Slot /\ fdTable[k][n] \in FdEntry
<1>1. fdLen[k] \in 0 .. NumExternalFds /\ fdTable[k] \in [Slot -> FdEntry]
  BY DEF FdTyped
<1>2. \A n \in 0 .. fdLen[k] - 1 : n \in Slot
  BY <1>1, FdAssumption DEF Slot
<1> QED
  BY <1>1, <1>2

LEMMA RegisterFdStep ==
    ASSUME FdInv, NEW k \in Kind, NEW fd \in Fd, RegisterFd(k, fd)
    PROVE  FdInv'
<1> DEFINE e == [fd |-> fd, reg |-> registrations + 1]
<1> USE DEF FdInv
<1>1. e \in FdEntry /\ registrations \in Nat
  BY DEF FdEntry, FdTyped
<1>2. /\ fdLen[k] \in Slot /\ fdLen[k] + 1 \in 0 .. NumExternalFds /\ fdLen[k] \in Nat
      /\ fdTable' = [fdTable EXCEPT ![k][fdLen[k]] = e]
      /\ fdLen' = [fdLen EXCEPT ![k] = fdLen[k] + 1]
      /\ registrations' = registrations + 1
      /\ UNCHANGED <<unregistered, fdLoops, watched, reported, called>>
      /\ fdPhase # "scan"
  BY FdSlots, FdAssumption DEF RegisterFd, Slot, AppRuns
<1> HIDE DEF e
<1>3. \A j \in Kind : /\ fdLen[j] \in Nat /\ fdLen[j] <= fdLen'[j]
                      /\ \A n \in 0 .. fdLen[j] - 1 : fdTable'[j][n] = fdTable[j][n]
  <2> SUFFICES ASSUME NEW j \in Kind
               PROVE  /\ fdLen[j] \in Nat /\ fdLen[j] <= fdLen'[j]
                      /\ \A n \in 0 .. fdLen[j] - 1 : fdTable'[j][n] = fdTable[j][n]
    OBVIOUS
  <2>1. fdLen[j] \in Nat /\ \A n \in 0 .. fdLen[j] - 1 : n \in Slot
    BY FdSlots
  <2>2. fdLen[j] <= fdLen'[j]
    BY <1>2, <2>1 DEF FdTyped
  <2>3. CASE j = k
    BY <1>2, <2>1, <2>2, <2>3 DEF FdTyped
  <2>4. CASE j # k
    BY <1>2, <2>1, <2>2, <2>4 DEF FdTyped
  <2> QED
    BY <2>3, <2>4
<1>4. FdTyped'
  <2>1. fdTable' \in [Kind -> [Slot -> FdEntry]]
    BY <1>1, <1>2 DEF FdTyped
  <2>2. fdLen' \in [Kind -> 0 .. NumExternalFds]
    BY <1>2 DEF FdTyped
  <2> QED
    BY <1>1, <1>2, <2>1, <2>2 DEF FdTyped, fdLoops
<1>5. CallsSound'
  BY <1>2 DEF CallsSound
<1>6. ReportedKnown'
  <2>1. \A w \in watched : w[2].reg \in Nat /\ w[2].reg <= registrations
    BY DEF FdTyped, FdEntry, ReportedKnown
  <2>2. \A w \in watched : w[2].reg <= registrations'
    BY <1>1, <1>2, <2>1
  <2>3. ASSUME NEW j \in Kind, NEW n \in 0 .. fdLen'[j] - 1
        PROVE  fdTable'[j][n].reg <= registrations'
    <3>1. CASE n \in 0 .. fdLen[j] - 1
      <4>1. fdTable[j][n].reg \in Nat /\ fdTable[j][n].reg <= registrations
        BY <3>1, FdSlots DEF ReportedKnown, FdEntry
      <4> QED
        BY <1>1, <1>2, <1>3, <3>1, <4>1
    <3>2. CASE n \notin 0 .. fdLen[j] - 1
      <4>1. j = k /\ n = fdLen[k]
        BY <1>2, <1>3, <3>2 DEF FdTyped
      <4>2. fdTable'[j][n] = e
        BY <1>2, <4>1 DEF FdTyped
      <4> QED
        BY <1>1, <1>2, <4>2 DEF e
    <3> QED
      BY <3>1, <3>2
  <2> QED
    BY <1>2, <2>2, <2>3 DEF ReportedKnown
<1>7. InFront'
  <2> SUFFICES ASSUME fdPhase # "idle", ~unregistered
               PROVE  InFront'
    BY <1>2 DEF InFront, fdLoops
  <2>1. ASSUME NEW w \in watched
        PROVE  \E n \in 0 .. fdLen'[w[1]] - 1 : fdTable'[w[1]][n] = w[2]
    <3>1. w[1] \in Kind /\ fdLen'[w[1]] \in Nat
      BY <1>4, SMTT(30) DEF FdTyped
    <3>2. PICK n \in 0 .. fdLen[w[1]] - 1 : fdTable[w[1]][n] = w[2]
      BY DEF InFront
    <3> QED
      BY <1>3, <3>1, <3>2
  <2>2. ASSUME NEW j \in Kind, NEW n \in 0 .. fdLen'[j] - 1, NEW m \in 0 .. n,
               <<j, fdTable'[j][n]>> \in watched
        PROVE  <<j, fdTable'[j][m]>> \in watched
    <3>1. n \in 0 .. fdLen[j] - 1
      <4> SUFFICES ASSUME n \notin 0 .. fdLen[j] - 1 PROVE FALSE
        OBVIOUS
      <4>1. j = k /\ n = fdLen[k]
        BY <1>2, <1>3 DEF FdTyped
      <4>2. fdTable'[j][n] = e
        BY <1>2, <4>1 DEF FdTyped
      <4>3. e.reg <= registrations
        BY <2>2, <4>2 DEF ReportedKnown
      <4> QED
        BY <1>1, <4>3 DEF e
    <3>2. m \in 0 .. fdLen[j] - 1
      BY <1>3, <3>1
    <3> QED
      BY <1>3, <2>2, <3>1, <3>2 DEF InFront
  <2> QED
    BY <1>2, <2>1, <2>2 DEF InFront
<1>8. BitsLeft'
  <2> SUFFICES ASSUME ~unregistered PROVE BitsLeft'
    BY <1>2 DEF BitsLeft
  <2>1. fdPhase = "callback" => fdSlot < fdLen'[fdKind] /\ fdTable'[fdKind][fdSlot] = fdTable[fdKind][fdSlot]
    <3>1. fdKind \in Kind /\ fdSlot \in Nat /\ fdLen'[fdKind] \in Nat
      BY <1>4, <1>2 DEF FdTyped, fdLoops
    <3> QED
      BY <1>3, <3>1 DEF BitsLeft
  <2> QED
    BY <1>2, <2>1 DEF BitsLeft, Finished, fdLoops
<1>9. PassedCleared'
  <2> SUFFICES ASSUME fdPhase = "callback", ~unregistered PROVE PassedCleared'
    BY <1>2 DEF PassedCleared, fdLoops, FdTyped
  <2>1. fdKind \in Kind /\ fdSlot \in Nat /\ fdLen'[fdKind] \in Nat
    BY <1>2, <1>4 DEF FdTyped, fdLoops
  <2>2. fdSlot <= fdLen[fdKind]
    BY DEF PassedCleared
  <2>3. fdSlot <= fdLen'[fdKind] /\ \A n \in 0 .. fdSlot - 1 : n \in 0 .. fdLen[fdKind] - 1
    BY <1>3, <2>1, <2>2
  <2> QED
    BY <1>2, <1>3, <2>1, <2>3 DEF PassedCleared, fdLoops
<1> QED
  BY <1>4, <1>5, <1>6, <1>7, <1>8, <1>9

LEMMA UnregisterFdStep ==
    ASSUME FdInv, NEW k \in Kind, NEW fd \in Fd, UnregisterFd(k, fd)
    PROVE  FdInv'
<1> USE DEF FdInv
<1>1. PICK n \in FirstEntry(k, fd) : fdTable' = [fdTable EXCEPT ![k] = Shifted(fdTable[k], n, fdLen[k])]
  BY DEF UnregisterFd
<1>2. /\ fdLen' = [fdLen EXCEPT ![k] = fdLen[k] - 1]
      /\ unregistered' = TRUE
      /\ UNCHANGED <<registrations, fdLoops, watched, reported, called>>
      /\ fdPhase # "scan"
  BY DEF UnregisterFd, AppRuns
<1>3. /\ fdLen[k] \in 0 .. NumExternalFds /\ n \in 0 .. fdLen[k] - 1
      /\ fdTable[k] \in [Slot -> FdEntry]
  BY FdSlots DEF FirstEntry, FdTyped
<1>4. \A m \in n .. fdLen[k] - 2 : m + 1 \in Slot
  BY <1>3, FdAssumption DEF Slot
<1>5. Shifted(fdTable[k], n, fdLen[k]) \in [Slot -> FdEntry]
  BY <1>3, <1>4 DEF Shifted
<1>6. FdTyped'
  <2>1. fdTable' \in [Kind -> [Slot -> FdEntry]]
    BY <1>1, <1>5 DEF FdTyped
  <2>2. fdLen[k] - 1 \in 0 .. NumExternalFds
    BY <1>3, FdAssumption
  <2>3. fdLen' \in [Kind -> 0 .. NumExternalFds]
    BY <1>2, <2>2 DEF FdTyped
  <2> QED
    BY <1>2, <2>1, <2>3 DEF FdTyped, fdLoops
<1>7. ReportedKnown'
  <2>1. ASSUME NEW j \in Kind, NEW m \in 0 .. fdLen'[j] - 1
        PROVE  \E i \in 0 .. fdLen[j] - 1 : fdTable'[j][m] = fdTable[j][i]
    <3>1. CASE j = k
      <4>1. fdLen'[k] = fdLen[k] - 1 /\ fdTable'[k] = Shifted(fdTable[k], n, fdLen[k])
        BY <1>1, <1>2 DEF FdTyped
      <4>2. m \in Slot /\ m \in 0 .. fdLen[k] - 1 /\ m + 1 \in 0 .. fdLen[k] - 1
        BY <1>3, <3>1, <4>1, FdAssumption DEF Slot
      <4> QED
        BY <3>1, <4>1, <4>2 DEF Shifted
    <3>2. CASE j # k
      BY <1>1, <1>2, <3>2 DEF FdTyped
    <3> QED
      BY <3>1, <3>2
  <2> QED
    BY <1>2, <2>1 DEF ReportedKnown
<1> QED
  BY <1>2, <1>6, <1>7 DEF CallsSound, InFront, BitsLeft, PassedCleared

\* What select may report is finite.
LEMMA WatchedFinite ==
    ASSUME FdTyped
    PROVE  IsFiniteSet(UNION {{k} \X Registered(k) : k \in Kind})
<1>1. ASSUME NEW k \in Kind PROVE IsFiniteSet({k} \X Registered(k))
  <2>1. fdLen[k] - 1 \in Int /\ 0 \in Int
    BY FdSlots
  <2>2. IsFiniteSet(0 .. fdLen[k] - 1)
    BY <2>1, FS_Interval
  <2>3. IsFiniteSet(Registered(k))
    <3> DEFINE f == [n \in 0 .. fdLen[k] - 1 |-> fdTable[k][n]]
    <3>1. IsFiniteSet({f[n] : n \in DOMAIN f})
      BY <2>2, ImageFinite
    <3> QED
      BY <3>1 DEF Registered
  <2> QED
    BY <2>3, FS_Singleton, FS_Product
<1>2. IsFiniteSet(Kind)
  BY FdAssumption, FS_Interval DEF Kind
<1>3. IsFiniteSet({{k} \X Registered(k) : k \in Kind})
  <2> DEFINE f == [k \in Kind |-> {k} \X Registered(k)]
  <2>1. IsFiniteSet({f[k] : k \in DOMAIN f})
    BY <1>2, ImageFinite
  <2> QED
    BY <2>1
<1> QED
  BY <1>1, <1>3, FS_UNION

LEMMA EventInfoStep == ASSUME FdInv, EventInfo PROVE FdInv'
<1> USE DEF FdInv
<1>1. /\ fdPhase' = "selected" /\ unregistered' = FALSE /\ called' = <<>>
      /\ UNCHANGED <<fdTable, fdLen, registrations, fdKind, fdSlot>>
      /\ watched' = UNION {{k} \X Registered(k) : k \in Kind}
  BY DEF EventInfo
<1>2. PICK ready \in SUBSET {<<w[1], w[2].fd>> : w \in watched'}, sessions \in {0, 1} :
          fdBits' = ready /\ reported' = ready /\ fdCount' = Cardinality(ready) + sessions
  BY DEF EventInfo
<1>3. ASSUME NEW w \in watched'
      PROVE  /\ w[1] \in Kind /\ w[2] \in FdEntry /\ w = <<w[1], w[2]>>
             /\ \E n \in 0 .. fdLen[w[1]] - 1 : fdTable[w[1]][n] = w[2]
  <2>1. PICK k \in Kind : w \in {k} \X Registered(k)
    BY <1>1
  <2> QED
    BY <2>1, FdSlots DEF Registered
<1>4. ASSUME NEW k \in Kind, NEW n \in 0 .. fdLen[k] - 1
      PROVE  <<k, fdTable[k][n]>> \in watched'
  BY <1>1 DEF Registered
<1>5. IsFiniteSet(ready) /\ Cardinality(ready) \in Nat
  <2> DEFINE f == [w \in watched' |-> <<w[1], w[2].fd>>]
  <2>1. IsFiniteSet(watched')
    BY <1>1, WatchedFinite
  <2>2. IsFiniteSet({f[w] : w \in DOMAIN f})
    BY <2>1, ImageFinite
  <2> QED
    BY <2>2, FS_Subset, FS_CardinalityType
<1>6. FdTyped'
  <2>1. watched' \subseteq Kind \X FdEntry
    BY <1>3
  <2>2. called' \in Seq(Kind \X FdEntry)
    BY <1>1
  <2>3. fdCount' \in Int
    BY <1>2, <1>5
  <2> QED
    BY <1>1, <1>2, <2>1, <2>2, <2>3 DEF FdTyped
<1>7. CallsSound' /\ PassedCleared'
  BY <1>1 DEF CallsSound, PassedCleared
<1>8. ReportedKnown'
  <2>1. \A w \in watched' : w[2].reg <= registrations
    BY <1>3 DEF ReportedKnown
  <2> QED
    BY <1>1, <1>2, <2>1 DEF ReportedKnown, Bit
<1>9. InFront'
  <2>1. \A k \in Kind : \A n \in 0 .. fdLen[k] - 1 : \A m \in 0 .. n : m \in 0 .. fdLen[k] - 1
    BY FdSlots
  <2> QED
    BY <1>1, <1>3, <1>4, <2>1 DEF InFront
<1>10. BitsLeft'
  <2>1. Finished' = {}
    BY <1>1 DEF Finished
  <2> QED
    BY <1>1, <1>2, <1>5, <2>1 DEF BitsLeft
<1> QED
  BY <1>6, <1>7, <1>8, <1>9, <1>10

LEMMA DispatchStep == ASSUME FdInv, Dispatch PROVE FdInv'
<1> USE DEF FdInv
<1>1. /\ fdPhase = "selected" /\ fdPhase' = "scan" /\ fdKind' = 1 /\ fdSlot' = 0
      /\ UNCHANGED <<fdTables, fdBits, fdCount, watched, reported, called>>
  BY DEF Dispatch
<1>2. 1 \in Kind
  BY FdAssumption DEF Kind
<1>3. FdTyped' /\ CallsSound' /\ ReportedKnown' /\ InFront'
  BY <1>1, <1>2 DEF FdTyped, CallsSound, ReportedKnown, InFront, fdTables
<1>4. BitsLeft'
  BY <1>1 DEF BitsLeft, Finished, fdTables
<1>5. PassedCleared'
  <2>1. \A b \in fdBits : b[1] >= 1
    BY DEF ReportedKnown, FdTyped, Bit, Kind
  <2>2. fdLen[1] >= 0
    BY <1>2, FdSlots
  <2> QED
    BY <1>1, <2>1, <2>2 DEF PassedCleared, fdTables
<1> QED
  BY <1>3, <1>4, <1>5

\* While the loops go on, the slot they look at is in use.
LEMMA LooksAtSlot ==
    ASSUME FdInv, fdPhase = "scan", GoesOn
    PROVE  /\ ~unregistered /\ fdKind \in Kind
           /\ fdSlot \in 0 .. fdLen[fdKind] - 1
           /\ fdTable[fdKind][fdSlot] \in FdEntry
  BY FdSlots DEF FdInv, FdTyped, GoesOn

LEMMA CallFdStep == ASSUME FdInv, CallFd PROVE FdInv'
<1> USE DEF FdInv
<1> DEFINE e == fdTable[fdKind][fdSlot]
           c == <<fdKind, e>>
<1>1. /\ fdPhase = "scan" /\ fdPhase' = "callback" /\ Bit(c) \in fdBits
      /\ called' = Append(called, c)
      /\ UNCHANGED <<fdTables, fdKind, fdSlot, fdBits, fdCount, watched, reported>>
  BY DEF CallFd, Bit
<1>2. ~unregistered /\ fdKind \in Kind /\ fdSlot \in 0 .. fdLen[fdKind] - 1 /\ e \in FdEntry
  BY LooksAtSlot DEF CallFd
<1>3. c \in watched
  <2>1. PICK w \in watched : Bit(w) = Bit(c)
    BY <1>1 DEF ReportedKnown, FdTyped
  <2>2. w[1] = fdKind /\ w[2].fd = e.fd /\ w = <<w[1], w[2]>>
    BY <2>1 DEF Bit, FdTyped
  <2>3. PICK n \in 0 .. fdLen[fdKind] - 1 : fdTable[fdKind][n] = w[2]
    BY <1>1, <1>2, <2>2 DEF InFront
  <2>4. n \notin 0 .. fdSlot - 1
    BY <1>1, <1>2, <2>2, <2>3 DEF PassedCleared, Bit
  <2>5. fdSlot \in 0 .. n
    BY <1>2, <2>3, <2>4
  <2> QED
    BY <1>1, <1>2, <2>2, <2>3, <2>5 DEF InFront
<1>4. called \in Seq(Kind \X FdEntry) /\ c \in Kind \X FdEntry
  BY <1>2 DEF FdTyped
<1>5. /\ Len(called) \in Nat /\ DOMAIN called = 1 .. Len(called)
      /\ Len(called') = Len(called) + 1 /\ DOMAIN called' = 1 .. Len(called) + 1
      /\ \A n \in 1 .. Len(called) : called'[n] = called[n]
      /\ called'[Len(called) + 1] = c
      /\ called' \in Seq(Kind \X FdEntry)
  BY <1>1, <1>4, LenProperties, AppendProperties
<1> HIDE DEF e, c
<1>6. fdBits = reported \ {Bit(called[n]) : n \in 1 .. Len(called)}
  BY <1>1, <1>2 DEF BitsLeft, Finished
<1>7. FdTyped'
  BY <1>1, <1>5 DEF FdTyped, fdTables
<1>8. CallsSound'
  <2>1. \A n \in 1 .. Len(called) + 1 : n \in 1 .. Len(called) \/ n = Len(called) + 1
    BY <1>5
  <2>2. \A n \in 1 .. Len(called) : Bit(called[n]) # Bit(c)
    BY <1>1, <1>6
  <2>3. Bit(c) \in reported
    BY <1>1 DEF FdTyped
  <2>4. \A n \in DOMAIN called' : called'[n] \in watched /\ Bit(called'[n]) \in reported
    BY <1>3, <1>5, <2>1, <2>3 DEF CallsSound
  <2>5. \A m, n \in DOMAIN called' : Bit(called'[m]) = Bit(called'[n]) => m = n
    BY <1>5, <2>1, <2>2 DEF CallsSound
  <2> QED
    BY <1>1, <2>4, <2>5 DEF CallsSound
<1>9. ReportedKnown' /\ InFront' /\ PassedCleared'
  BY <1>1 DEF ReportedKnown, InFront, PassedCleared, fdTables
<1>10. BitsLeft'
  <2>1. Finished' = 1 .. Len(called)
    BY <1>1, <1>5 DEF Finished
  <2>2. {Bit(called'[n]) : n \in Finished'} = {Bit(called[n]) : n \in 1 .. Len(called)}
    BY <1>5, <2>1
  <2>3. called' # <<>> /\ called'[Len(called')] = <<fdKind, fdTable[fdKind][fdSlot]>>
    BY <1>5 DEF c, e
  <2>4. IsFiniteSet(fdBits) /\ Cardinality(fdBits) <= fdCount
    BY <1>2 DEF BitsLeft
  <2>5. fdSlot < fdLen[fdKind]
    BY <1>2, FdSlots
  <2> QED
    BY <1>1, <1>6, <2>2, <2>3, <2>4, <2>5 DEF BitsLeft, fdTables
<1> QED
  BY <1>7, <1>8, <1>9, <1>10

LEMMA SkipFdStep == ASSUME FdInv, SkipFd PROVE FdInv'
<1> USE DEF FdInv
<1>1. /\ fdPhase = "scan" /\ fdSlot' = fdSlot + 1
      /\ <<fdKind, fdTable[fdKind][fdSlot].fd>> \notin fdBits
      /\ UNCHANGED <<fdTables, fdPhase, fdKind, fdBits, fdCount, watched, reported, called>>
  BY DEF SkipFd
<1>2. ~unregistered /\ fdKind \in Kind /\ fdSlot \in 0 .. fdLen[fdKind] - 1
  BY LooksAtSlot DEF SkipFd
<1>3. fdLen[fdKind] \in Nat
  BY <1>2, FdSlots
<1>4. FdTyped' /\ CallsSound' /\ ReportedKnown' /\ InFront'
  BY <1>1 DEF FdTyped, CallsSound, ReportedKnown, InFront, fdTables
<1>5. BitsLeft'
  BY <1>1 DEF BitsLeft, Finished, fdTables
<1>6. PassedCleared'
  <2>1. \A n \in 0 .. (fdSlot + 1) - 1 : n \in 0 .. fdSlot - 1 \/ n = fdSlot
    BY <1>2, <1>3
  <2> QED
    BY <1>1, <1>2, <1>3, <2>1 DEF PassedCleared, fdTables
<1> QED
  BY <1>4, <1>5, <1>6

LEMMA FdReturnsStep == ASSUME FdInv, FdReturns PROVE FdInv'
<1> USE DEF FdInv
<1> DEFINE b == <<fdKind, fdTable[fdKind][fdSlot].fd>>
<1>1. /\ fdPhase = "callback" /\ fdPhase' = "scan"
      /\ fdBits' = fdBits \ {b} /\ fdCount' = fdCount - 1 /\ fdSlot' = fdSlot + 1
      /\ UNCHANGED <<fdTables, fdKind, watched, reported, called>>
  BY DEF FdReturns
<1> HIDE DEF b
<1>2. FdTyped' /\ CallsSound' /\ ReportedKnown' /\ InFront'
  <2>1. FdTyped'
    BY <1>1 DEF FdTyped, fdTables
  <2>2. CallsSound'
    BY <1>1 DEF CallsSound, fdTables
  <2>3. ReportedKnown'
    BY <1>1 DEF ReportedKnown, fdTables
  <2>4. InFront'
    BY <1>1 DEF InFront, fdTables
  <2> QED
    BY <2>1, <2>2, <2>3, <2>4
<1>3. ASSUME ~unregistered PROVE BitsLeft' /\ PassedCleared'
  <2>1. /\ called \in Seq(Kind \X FdEntry) /\ called # <<>> /\ fdSlot < fdLen[fdKind]
        /\ called[Len(called)] = <<fdKind, fdTable[fdKind][fdSlot]>>
        /\ fdBits = reported \ {Bit(called[n]) : n \in 1 .. Len(called) - 1}
        /\ IsFiniteSet(fdBits) /\ Cardinality(fdBits) <= fdCount
    BY <1>1, <1>3, SMTT(30) DEF BitsLeft, Finished, FdTyped
  <2>2. /\ Len(called) \in Nat \ {0} /\ DOMAIN called = 1 .. Len(called)
        /\ \A n \in 1 .. Len(called) : n \in 1 .. Len(called) - 1 \/ n = Len(called)
        /\ 1 .. Len(called) - 1 \subseteq 1 .. Len(called)
        /\ Len(called) \in 1 .. Len(called) /\ Len(called) \notin 1 .. Len(called) - 1
    <3>1. Len(called) \in Nat /\ DOMAIN called = 1 .. Len(called) /\ Len(called) # 0
      BY <2>1, LenProperties, EmptySeq
    <3>2. ASSUME NEW l \in Nat, l # 0
          PROVE  /\ \A n \in 1 .. l : n \in 1 .. l - 1 \/ n = l
                 /\ 1 .. l - 1 \subseteq 1 .. l /\ l \in 1 .. l /\ l \notin 1 .. l - 1
      BY <3>2
    <3> HIDE DEF b
    <3> QED
      BY <3>1, <3>2
  <2>3. b = Bit(called[Len(called)])
    BY <2>1, SMTT(30) DEF b, Bit
  <2>4. b \in reported /\ \A n \in 1 .. Len(called) - 1 : Bit(called[n]) # b
    BY <2>2, <2>3 DEF CallsSound
  <2>5. b \in fdBits
    BY <2>1, <2>4
  <2>6. fdBits' = reported \ {Bit(called[n]) : n \in 1 .. Len(called)}
    BY <1>1, <2>1, <2>2, <2>3
  <2>7. IsFiniteSet(fdBits') /\ Cardinality(fdBits') <= fdCount'
    <3>1. Cardinality(fdBits) \in Nat /\ fdCount \in Int
      BY <2>1, FS_CardinalityType DEF FdTyped
    <3>2. IsFiniteSet(fdBits') /\ Cardinality(fdBits') = Cardinality(fdBits) - 1
      BY <1>1, <2>1, <2>5, FS_RemoveElement
    <3> QED
      BY <1>1, <2>1, <3>1, <3>2
  <2>8. BitsLeft'
    BY <1>1, <1>3, <2>6, <2>7 DEF BitsLeft, Finished, fdTables
  <2>9. PassedCleared'
    <3>1. fdLen[fdKind] \in Nat /\ fdSlot \in Nat
      BY FdSlots DEF FdTyped
    <3>2. \A n \in 0 .. (fdSlot + 1) - 1 : n \in 0 .. fdSlot - 1 \/ n = fdSlot
      BY <3>1
    <3>3. \A n \in 0 .. (fdSlot + 1) - 1 : <<fdKind, fdTable[fdKind][n].fd>> \notin fdBits'
      BY <1>1, <1>3, <3>2 DEF PassedCleared, b
    <3>4. \A r \in fdBits' : r[1] >= fdKind
      BY <1>1, <1>3 DEF PassedCleared
    <3>5. fdSlot + 1 <= fdLen[fdKind]
      BY <2>1, <3>1
    <3> QED
      BY <1>1, <3>3, <3>4, <3>5 DEF PassedCleared, fdTables
  <2> QED
    BY <2>8, <2>9
<1> QED
  BY <1>1, <1>2, <1>3 DEF BitsLeft, PassedCleared, fdTables

LEMMA NextLoopStep == ASSUME FdInv, NextLoop PROVE FdInv'
<1> USE DEF FdInv
<1>1. /\ fdPhase = "scan" /\ ~GoesOn /\ fdSlot' = 0
      /\ UNCHANGED <<fdTables, watched, reported, called>>
  BY DEF NextLoop
<1>2. \/ fdKind = Kinds /\ fdPhase' = "idle" /\ fdKind' = 1 /\ fdBits' = {} /\ fdCount' = 0
      \/ fdKind # Kinds /\ fdKind' = fdKind + 1 /\ UNCHANGED <<fdPhase, fdBits, fdCount>>
  BY DEF NextLoop
<1>3. Kinds \in Nat \ {0} /\ fdKind \in 1 .. Kinds /\ Kind = 1 .. Kinds
  BY FdAssumption DEF FdTyped, Kind
<1>4. fdKind' \in Kind
  BY <1>2, <1>3
<1>5. FdTyped' /\ CallsSound' /\ ReportedKnown' /\ InFront'
  BY <1>1, <1>2, <1>4 DEF FdTyped, CallsSound, ReportedKnown, InFront, fdTables
\* What is behind has no bit: all of its slots have been passed, or no bit is left.
<1>6. ASSUME ~unregistered, NEW b \in fdBits PROVE b[1] > fdKind
  <2>1. /\ IsFiniteSet(fdBits) /\ Cardinality(fdBits) <= fdCount
        /\ Cardinality(fdBits) # 0 /\ Cardinality(fdBits) \in Nat /\ fdCount \in Int
    BY <1>6, FS_EmptySet, FS_CardinalityType DEF BitsLeft, FdTyped
  <2>2. fdSlot = fdLen[fdKind]
    <3>1. fdLen[fdKind] \in Nat /\ fdSlot \in Nat
      BY FdSlots DEF FdTyped
    <3> QED
      BY <1>1, <1>6, <2>1, <3>1 DEF GoesOn, PassedCleared
  <2>3. PICK w \in watched : Bit(w) = b
    BY DEF ReportedKnown, FdTyped
  <2>4. b[1] = w[1] /\ b[2] = w[2].fd /\ b = <<b[1], b[2]>> /\ w[1] \in Kind
    BY <2>3 DEF Bit, FdTyped
  <2>5. w[1] # fdKind
    <3> SUFFICES ASSUME w[1] = fdKind PROVE FALSE
      OBVIOUS
    <3>1. PICK n \in 0 .. fdLen[fdKind] - 1 : fdTable[fdKind][n] = w[2]
      BY <1>1, <1>6 DEF InFront
    <3> QED
      BY <1>1, <1>6, <2>2, <2>3, <3>1 DEF PassedCleared, Bit
  <2>6. b[1] >= fdKind /\ b[1] \in Int
    BY <1>1, <1>3, <1>6, <2>4 DEF PassedCleared
  <2> QED
    BY <1>3, <2>4, <2>5, <2>6
<1>7. CASE fdKind = Kinds
  <2>1. ~unregistered => fdBits = {}
    <3> SUFFICES ASSUME ~unregistered, NEW b \in fdBits PROVE FALSE
      OBVIOUS
    <3>1. PICK w \in watched : Bit(w) = b
      BY DEF ReportedKnown, FdTyped
    <3>2. b[1] \in 1 .. Kinds
      BY <1>3, <3>1 DEF Bit, FdTyped
    <3> QED
      BY <1>3, <1>6, <1>7, <3>2
  <2>2. ~unregistered => reported = {Bit(called[n]) : n \in 1 .. Len(called)}
    <3>1. called \in Seq(Kind \X FdEntry) /\ DOMAIN called = 1 .. Len(called)
      BY LenProperties DEF FdTyped
    <3> QED
      BY <1>1, <2>1, <3>1 DEF BitsLeft, Finished, CallsSound
  <2>3. IsFiniteSet({}) /\ Cardinality({}) = 0
    BY FS_EmptySet
  <2>4. /\ fdPhase' = "idle" /\ fdBits' = {} /\ fdCount' = 0
        /\ UNCHANGED <<unregistered, reported, called>>
    BY <1>1, <1>2, <1>7 DEF fdTables
  <2>5. BitsLeft'
    BY <2>2, <2>3, <2>4 DEF BitsLeft, Finished
  <2> QED
    BY <1>5, <2>4, <2>5 DEF PassedCleared
<1>8. CASE fdKind # Kinds
  <2>1. BitsLeft'
    BY <1>1, <1>2, <1>8 DEF BitsLeft, Finished, fdTables
  <2>2. PassedCleared'
    <3>1. fdLen[fdKind'] \in Nat
      BY <1>4, FdSlots
    <3>2. ~unregistered => \A b \in fdBits : b[1] >= fdKind + 1
      <4>1. \A b \in fdBits : b[1] \in Int
        BY <1>3 DEF ReportedKnown, FdTyped, Bit
      <4> QED
        BY <1>3, <1>6, <4>1
    <3> QED
      BY <1>1, <1>2, <1>8, <3>1, <3>2 DEF PassedCleared, fdTables
  <2> QED
    BY <1>5, <2>1, <2>2
<1> QED
  BY <1>7, <1>8

\* The invariant of the dispatch loops.
THEOREM FdInvariance == FdSpec => []FdInv
<1>1. FdInv /\ [FdNext]_fdVars => FdInv'
  <2> SUFFICES ASSUME FdInv, [FdNext]_fdVars PROVE FdInv'
    OBVIOUS
  <2>1. CASE \E k \in Kind, fd \in Fd : RegisterFd(k, fd) \/ UnregisterFd(k, fd)
    BY <2>1, RegisterFdStep, UnregisterFdStep
  <2>2. CASE EventInfo
    BY <2>2, EventInfoStep
  <2>3. CASE Dispatch
    BY <2>3, DispatchStep
  <2>4. CASE CallFd
    BY <2>4, CallFdStep
  <2>5. CASE SkipFd
    BY <2>5, SkipFdStep
  <2>6. CASE FdReturns
    BY <2>6, FdReturnsStep
  <2>7. CASE NextLoop
    BY <2>7, NextLoopStep
  <2>8. CASE UNCHANGED fdVars
    <3>1. FdTyped' /\ CallsSound' /\ ReportedKnown' /\ InFront'
      BY <2>8 DEF fdVars, fdTables, fdLoops, FdInv, FdTyped, CallsSound, ReportedKnown, InFront
    <3>2. BitsLeft'
      BY <2>8 DEF fdVars, fdTables, fdLoops, FdInv, BitsLeft, Finished
    <3>3. PassedCleared'
      BY <2>8 DEF fdVars, fdTables, fdLoops, FdInv, PassedCleared
    <3> QED
      BY <3>1, <3>2, <3>3 DEF FdInv
  <2> QED
    BY <2>1, <2>2, <2>3, <2>4, <2>5, <2>6, <2>7, <2>8 DEF FdNext
<1> QED
  BY FdInitInv, <1>1, PTL DEF FdSpec

\* However descriptors are registered, unregistered and used again from inside callbacks, a
\* round of the event loop calls exactly what was reported.
THEOREM RoundsAlwaysExact == FdSpec => []RoundExact
<1>1. FdInv => RoundExact
  <2> SUFFICES ASSUME FdInv PROVE RoundExact
    OBVIOUS
  <2> USE DEF FdInv
  <2>1. called \in Seq(Kind \X FdEntry) /\ DOMAIN called = 1 .. Len(called)
    BY LenProperties DEF FdTyped
  <2>2. IsInjective(called) /\ CalledSet = Range(called)
    BY DEF CallsSound, IsInjective, CalledSet, Range
  <2>3. Cardinality(CalledSet) = Len(called)
    BY <2>1, <2>2, InjectiveCount
  <2>4. \A c \in CalledSet : c \in watched /\ <<c[1], c[2].fd>> \in reported
    BY DEF CallsSound, CalledSet, Bit
  <2>5. (fdPhase = "idle" /\ ~unregistered) => reported = {<<c[1], c[2].fd>> : c \in CalledSet}
    BY <2>1 DEF BitsLeft, Finished, CalledSet, Bit
  <2> QED
    BY <2>3, <2>4, <2>5 DEF RoundExact
<1> QED
  BY FdInvariance, <1>1, PTL

-----------------------------------------------------------------------------
(* CallbackRegistry: a client argument is freed once                       *)

RegistryTyped ==
    /\ thecallbacks \in [Events -> Seq(Entries)]
    /\ clientArg \in [Entries -> Args \cup {NoArg}]
    /\ cleared \subseteq Events
    /\ argsFreed \in [Args -> Nat]
    /\ calls \in Seq([event : Events, entry : Entries])
    /\ locks \in [Events -> Int]
    /\ marked \subseteq Entries

\* No list has an entry twice.
ListsUnique == \A e \in Events : IsInjective(thecallbacks[e])

\* Until clearing has begun the arguments are the application's.
FreedByClear == cleared = {} => \A a \in Args : argsFreed[a] = 0

RegistryInv == RegistryTyped /\ ListsUnique /\ FreedByClear /\ ArgsFreedOnce

LEMMA ListedInAllocated ==
    ASSUME NEW e \in Events
    PROVE  Range(thecallbacks[e]) = ToSet(thecallbacks[e]) /\ ToSet(thecallbacks[e]) \subseteq Allocated
  BY DEF Range, ToSet, Allocated

LEMMA RegistryInitInv == RegistryInit => RegistryInv
<1> SUFFICES ASSUME RegistryInit PROVE RegistryInv
  OBVIOUS
<1>1. RegistryTyped
  <2>1. thecallbacks \in [Events -> Seq(Entries)]
    BY DEF RegistryInit
  <2>2. calls \in Seq([event : Events, entry : Entries])
    BY DEF RegistryInit
  <2> QED
    BY <2>1, <2>2 DEF RegistryInit, RegistryTyped
<1>2. ListsUnique
  BY DEF RegistryInit, ListsUnique, IsInjective
<1>3. FreedByClear /\ ArgsFreedOnce
  BY DEF RegistryInit, FreedByClear, ArgsFreedOnce
<1> QED
  BY <1>1, <1>2, <1>3 DEF RegistryInv

LEMMA LockedOnlyTyped ==
    ASSUME RegistryTyped, NEW e \in Events, LockedOnly(e)
    PROVE  locks' \in [Events -> Int]
  BY DEF RegistryTyped, LockedOnly, Locked

\* A new entry has a place in its list.
LEMMA PlaceInList ==
    ASSUME RegistryInv, NEW e \in Events, NEW c \in Entries
    PROVE  Place(e, c) \in 1 .. Len(thecallbacks[e]) + 1
<1> DEFINE s == thecallbacks[e]
           D == {d \in ToSet(s) : Priority(d) <= Priority(c)}
<1>1. s \in Seq(Entries) /\ IsInjective(s) /\ Range(s) = ToSet(s)
  BY ListedInAllocated DEF RegistryInv, RegistryTyped, ListsUnique
<1>2. IsFiniteSet(ToSet(s)) /\ Cardinality(ToSet(s)) = Len(s) /\ Len(s) \in Nat
  BY <1>1, InjectiveCount, LenProperties
<1>3. D \subseteq ToSet(s)
  OBVIOUS
<1>4. Cardinality(D) <= Len(s) /\ Cardinality(D) \in Nat
  BY <1>2, <1>3, FS_Subset, FS_CardinalityType
<1>5. Place(e, c) = Cardinality(D) + 1
  BY DEF Place
<1> QED
  BY <1>2, <1>4, <1>5

LEMMA RegisterCallbackStep ==
    ASSUME RegistryInv, NEW e \in Events, NEW c \in Entries, RegisterCallback(e, c)
    PROVE  RegistryInv'
<1> DEFINE s == thecallbacks[e]
           t == InsertAt(s, Place(e, c), c)
<1> USE DEF RegistryInv
<1>1. /\ cleared = {} /\ c \notin Allocated
      /\ thecallbacks' = [thecallbacks EXCEPT ![e] = t]
      /\ clientArg' = [clientArg EXCEPT ![c] = Argument(c)]
      /\ locks' \in [Events -> Int]
      /\ UNCHANGED <<marked, calls, cleared, argsFreed>>
  BY LockedOnlyTyped DEF RegisterCallback, Usable
<1>2. s \in Seq(Entries) /\ IsInjective(s) /\ c \notin Range(s)
  BY <1>1, ListedInAllocated DEF RegistryTyped, ListsUnique
<1>3. t \in Seq(Entries) /\ IsInjective(t)
  BY <1>2, PlaceInList, InsertAtElements, InsertAtRange
<1> HIDE DEF t
<1>4. thecallbacks' \in [Events -> Seq(Entries)] /\ ListsUnique'
  BY <1>1, <1>3 DEF RegistryTyped, ListsUnique
<1>5. clientArg' \in [Entries -> Args \cup {NoArg}]
  BY <1>1 DEF RegistryTyped, Args
<1>6. RegistryTyped'
  BY <1>1, <1>4, <1>5 DEF RegistryTyped
<1>7. FreedByClear' /\ ArgsFreedOnce'
  BY <1>1 DEF FreedByClear, ArgsFreedOnce
<1> QED
  BY <1>4, <1>6, <1>7

LEMMA UnregisterCallbackStep ==
    ASSUME RegistryInv, NEW e \in Events, NEW f, NEW a, NEW matchargs \in BOOLEAN,
           UnregisterCallback(e, f, a, matchargs)
    PROVE  RegistryInv'
<1> DEFINE S == Targets(e, f, a, matchargs)
           s == thecallbacks[e]
           t == Kept(s, Entries \ S)
<1> USE DEF RegistryInv
<1>1. /\ cleared = {} /\ locks' \in [Events -> Int]
      /\ UNCHANGED <<calls, cleared, argsFreed>>
      /\ \/ /\ thecallbacks' = [thecallbacks EXCEPT ![e] = t]
            /\ clientArg' = [c \in Entries |-> IF c \in S THEN NoArg ELSE clientArg[c]]
            /\ UNCHANGED marked
         \/ marked' = marked \cup S /\ UNCHANGED <<thecallbacks, clientArg>>
  BY LockedOnlyTyped DEF UnregisterCallback, Usable
<1>2. s \in Seq(Entries) /\ IsInjective(s)
  BY DEF RegistryTyped, ListsUnique
<1>3. t \in Seq(Entries) /\ IsInjective(t)
  BY <1>2, KeptRange
<1>4. S \subseteq Entries
  BY ListedInAllocated, <1>2, LenProperties DEF Targets, ToSet
<1> HIDE DEF t, S
<1>5. RegistryTyped' /\ ListsUnique'
  <2>1. thecallbacks' \in [Events -> Seq(Entries)] /\ ListsUnique'
    BY <1>1, <1>3 DEF RegistryTyped, ListsUnique
  <2>2. clientArg' \in [Entries -> Args \cup {NoArg}] /\ marked' \subseteq Entries
    BY <1>1, <1>4 DEF RegistryTyped
  <2> QED
    BY <1>1, <2>1, <2>2 DEF RegistryTyped
<1>6. FreedByClear' /\ ArgsFreedOnce'
  BY <1>1 DEF FreedByClear, ArgsFreedOnce
<1> QED
  BY <1>5, <1>6

LEMMA ClearEventStep ==
    ASSUME RegistryInv, NEW e \in Events, ClearEvent(e)
    PROVE  RegistryInv'
<1> DEFINE list == thecallbacks[e]
           owns == {n \in DOMAIN list : list[n] \notin marked /\ clientArg[list[n]] # NoArg}
           frees == {n \in owns : \A m \in owns : m < n => ~Shares(list[m], list[n])}
           gets(a) == {n \in frees : clientArg[list[n]] = a}
<1> USE DEF RegistryInv
<1>1. /\ argsFreed' = [a \in Args |-> argsFreed[a] + Cardinality(gets(a))]
      /\ clientArg' = [c \in Entries |->
             IF c \in ToSet(list) \/ (c \notin marked /\ \E n \in frees : Shares(list[n], c))
             THEN NoArg ELSE clientArg[c]]
      /\ marked' = marked \ ToSet(list)
      /\ thecallbacks' = [thecallbacks EXCEPT ![e] = <<>>]
      /\ cleared' = cleared \cup {e}
      /\ UNCHANGED calls
      /\ locks' \in [Events -> Int]
  BY LockedOnlyTyped DEF ClearEvent
<1>2. list \in Seq(Entries) /\ DOMAIN list = 1 .. Len(list) /\ Len(list) \in Nat
      /\ \A n \in DOMAIN list : list[n] \in Entries /\ list[n] \in ToSet(list)
      /\ ToSet(list) \subseteq Allocated
  BY ListedInAllocated, LenProperties DEF RegistryTyped, ToSet
\* An argument is freed for one of the entries that have it, and only if none has freed it before.
<1>3. ASSUME NEW a \in Args
      PROVE  \/ gets(a) = {}
             \/ \E n \in frees : gets(a) = {n}
  <2> SUFFICES ASSUME NEW m \in gets(a), NEW n \in gets(a) PROVE m = n
    BY Zenon
  <2>1. m \in Int /\ n \in Int /\ m \in owns /\ n \in owns /\ Shares(list[m], list[n]) /\ Shares(list[n], list[m])
    BY <1>2 DEF Shares
  <2>2. ~(m < n) /\ ~(n < m)
    BY <2>1
  <2> QED
    BY <2>1, <2>2
<1>4. ASSUME NEW a \in Args
      PROVE  /\ Cardinality(gets(a)) \in {0, 1}
             /\ Cardinality(gets(a)) = 1 => \E n \in frees : clientArg[list[n]] = a
  <2>1. CASE gets(a) = {}
    BY <2>1, FS_EmptySet
  <2>2. CASE \E n \in frees : gets(a) = {n}
    <3>1. PICK n \in frees : gets(a) = {n}
      BY <2>2
    <3>2. clientArg[list[n]] = a
      BY <3>1
    <3>3. Cardinality(gets(a)) = 1
      BY <3>1, FS_Singleton, Zenon
    <3> QED
      BY <3>2, <3>3
  <2> QED
    BY <1>3, <2>1, <2>2
<1>5. \A n \in frees : list[n] \in Allocated \ marked
  BY <1>2
<1>6. NoArg \notin Args
  BY DEF Args
<1>7. \A c \in Entries : clientArg'[c] \in {clientArg[c], NoArg}
  BY <1>1
<1>8. \A n \in frees, c \in Entries \ marked : clientArg[list[n]] = clientArg[c] => clientArg'[c] = NoArg
  BY <1>1 DEF Shares
<1>9. \A c \in Allocated' \ marked' : c \in Entries /\ (clientArg'[c] = NoArg \/ c \in Allocated \ marked)
  <2> SUFFICES ASSUME NEW c \in Allocated', c \notin marked'
               PROVE  c \in Entries /\ (clientArg'[c] = NoArg \/ c \in Allocated \ marked)
    OBVIOUS
  <2>1. PICK g \in Events : c \in ToSet(thecallbacks'[g])
    BY DEF Allocated
  <2>2. g # e /\ c \in ToSet(thecallbacks[g])
    BY <1>1, <2>1 DEF RegistryTyped, ToSet
  <2>3. c \in Entries /\ c \in Allocated
    BY <2>2, LenProperties DEF RegistryTyped, ToSet, Allocated
  <2> QED
    BY <1>1, <2>3
<1> HIDE DEF gets, frees, owns
<1>10. /\ argsFreed' \in [Args -> Nat]
       /\ \A a \in Args : argsFreed'[a] = argsFreed[a] + Cardinality(gets(a))
  <2>1. \A a \in Args : Cardinality(gets(a)) \in Nat
    <3>1. 0 \in Nat /\ 1 \in Nat
      OBVIOUS
    <3> QED
      BY <1>4, <3>1, Zenon
  <2>2. \A a \in Args : argsFreed[a] \in Nat
    BY DEF RegistryTyped
  <2> QED
    BY <1>1, <2>1, <2>2
<1>11. ArgsFreedOnce'
  <2> SUFFICES ASSUME NEW a \in Args
               PROVE  /\ argsFreed'[a] <= 1
                      /\ argsFreed'[a] = 1 => \A c \in Allocated' \ marked' : clientArg'[c] # a
    BY DEF ArgsFreedOnce
  <2>1. argsFreed[a] \in {0, 1}
    BY DEF RegistryTyped, ArgsFreedOnce
  <2>2. argsFreed[a] = 1 => \A c \in Allocated \ marked : clientArg[c] # a
    BY DEF ArgsFreedOnce
  <2>3. argsFreed[a] = 1 => Cardinality(gets(a)) = 0
    BY <1>4, <1>5, <2>2
  <2>4. argsFreed'[a] <= 1
    BY <1>4, <1>10, <2>1, <2>3
  <2>5. ASSUME argsFreed'[a] = 1, NEW c \in Allocated' \ marked', clientArg'[c] = a PROVE FALSE
    <3>1. clientArg'[c] # NoArg /\ c \in Entries /\ c \in Allocated \ marked /\ clientArg[c] = a
      BY <1>6, <1>7, <1>9, <2>5
    <3>2. Cardinality(gets(a)) = 1
      BY <1>4, <1>10, <2>1, <2>2, <2>5, <3>1
    <3> QED
      BY <1>4, <1>8, <3>1, <3>2
  <2> QED
    BY <2>4, <2>5
<1>12. RegistryTyped' /\ ListsUnique' /\ FreedByClear'
  <2>1. thecallbacks' \in [Events -> Seq(Entries)]
    BY <1>1 DEF RegistryTyped
  <2>2. ListsUnique'
    BY <1>1 DEF RegistryTyped, ListsUnique, IsInjective
  <2>3. clientArg' \in [Entries -> Args \cup {NoArg}]
    BY <1>1 DEF RegistryTyped
  <2>4. RegistryTyped'
    BY <1>1, <1>10, <2>1, <2>3 DEF RegistryTyped
  <2>5. FreedByClear'
    BY <1>1 DEF FreedByClear
  <2> QED
    BY <2>2, <2>4, <2>5
<1> QED
  BY <1>11, <1>12

\* First is the least of a set of places.
LEMMA FirstIs ==
    ASSUME NEW S, S \subseteq Nat, S # {}
    PROVE  First(S) \in S /\ \A n \in S : First(S) <= n
<1>1. IsWellFoundedOn(OpToRel(<, Nat), Nat)
  BY NatLessThanWellFounded
<1>2. PICK x \in S : \A y \in S : <<y, x>> \notin OpToRel(<, Nat)
  BY <1>1, WFMin
<1>3. \A y \in S : ~(y < x)
  BY <1>2 DEF OpToRel
<1>4. x \in S /\ \A y \in S : x <= y
  BY <1>3
<1> QED
  BY <1>4 DEF First

\* What is called is in a list.
LEMMA CallableIs ==
    ASSUME RegistryTyped, NEW e \in Events, NEW n, Callable(e, n) # {}
    PROVE  thecallbacks[e][First(Callable(e, n))] \in Entries
<1>1. Callable(e, n) \subseteq DOMAIN thecallbacks[e] /\ DOMAIN thecallbacks[e] = 1 .. Len(thecallbacks[e])
      /\ Len(thecallbacks[e]) \in Nat
  BY LenProperties DEF Callable, RegistryTyped
<1>2. First(Callable(e, n)) \in Callable(e, n)
  BY <1>1, FirstIs
<1> QED
  BY <1>1, <1>2, LenProperties DEF RegistryTyped

LEMMA CallStep ==
    ASSUME RegistryInv, NEW e \in Events, Call(e)
    PROVE  RegistryInv'
<1> USE DEF RegistryInv
<1>1. UNCHANGED <<thecallbacks, marked, clientArg, cleared, argsFreed>>
  BY DEF Call
<1>2. locks' \in [Events -> Int]
  BY LockedOnlyTyped DEF Call, RegistryTyped, Locked
<1>3. calls' \in Seq([event : Events, entry : Entries])
  <2> DEFINE c == [event |-> e, entry |-> thecallbacks[e][First(Callable(e, 1))]]
  <2>1. UNCHANGED calls \/ (Callable(e, 1) # {} /\ calls' = Append(calls, c))
    BY DEF Call
  <2>2. CASE UNCHANGED calls
    BY <2>2 DEF RegistryTyped
  <2>3. CASE Callable(e, 1) # {} /\ calls' = Append(calls, c)
    <3>1. c \in [event : Events, entry : Entries]
      BY <2>3, CallableIs
    <3>2. calls \in Seq([event : Events, entry : Entries])
      BY DEF RegistryTyped
    <3> HIDE DEF c
    <3> QED
      BY <2>3, <3>1, <3>2, AppendProperties
  <2> QED
    BY <2>1, <2>2, <2>3
<1> QED
  BY <1>1, <1>2, <1>3 DEF RegistryTyped, ListsUnique, FreedByClear, ArgsFreedOnce, Allocated

LEMMA ReturnsStep == ASSUME RegistryInv, Returns PROVE RegistryInv'
<1> DEFINE n    == Len(calls)
           e    == calls[n].event
           here == {m \in DOMAIN thecallbacks[e] : thecallbacks[e][m] = calls[n].entry}
           rest == Callable(e, First(here) + 1)
<1> USE DEF RegistryInv
<1>1. UNCHANGED <<thecallbacks, marked, clientArg, cleared, argsFreed>>
  BY DEF Returns
<1>2. /\ calls \in Seq([event : Events, entry : Entries])
      /\ n \in Nat \ {0} /\ DOMAIN calls = 1 .. n /\ e \in Events
      /\ \A i \in 1 .. n : calls[i] \in [event : Events, entry : Entries]
  <2>1. calls \in Seq([event : Events, entry : Entries]) /\ calls # <<>>
    BY DEF Returns, RegistryTyped
  <2>2. n \in Nat /\ n # 0 /\ DOMAIN calls = 1 .. n
    BY <2>1, LenProperties, EmptySeq
  <2>3. n \in DOMAIN calls
    BY <2>2
  <2>4. \A i \in 1 .. n : calls[i] \in [event : Events, entry : Entries]
    BY <2>1, ElementOfSeq
  <2> QED
    BY <2>1, <2>2, <2>3, <2>4
<1>3. \/ calls' = SubSeq(calls, 1, n - 1) /\ locks' = [locks EXCEPT ![e] = locks[e] - 1]
      \/ /\ rest # {}
         /\ calls' = [calls EXCEPT ![n].entry = thecallbacks[e][First(rest)]]
         /\ UNCHANGED locks
  BY DEF Returns
<1>4. locks' \in [Events -> Int]
  BY <1>2, <1>3, SMTT(30) DEF RegistryTyped
<1>5. calls' \in Seq([event : Events, entry : Entries])
  <2>1. CASE calls' = SubSeq(calls, 1, n - 1)
    <3>1. \A i \in 1 .. n - 1 : calls[i] \in [event : Events, entry : Entries]
      <4>1. \A i \in 1 .. n - 1 : i \in 1 .. n
        BY <1>2
      <4> QED
        BY <1>2, <4>1
    <3>2. n - 1 \in Int
      BY <1>2
    <3> QED
      BY <2>1, <3>1, <3>2, SubSeqProperties
  <2>2. CASE rest # {} /\ calls' = [calls EXCEPT ![n].entry = thecallbacks[e][First(rest)]]
    <3>1. thecallbacks[e][First(rest)] \in Entries
      BY <1>2, <2>2, CallableIs
    <3> DEFINE c == [calls[n] EXCEPT !.entry = thecallbacks[e][First(rest)]]
    <3>2. calls[n] \in [event : Events, entry : Entries]
      <4>1. n \in 1 .. n
        BY <1>2
      <4> QED
        BY <1>2, <4>1
    <3>3. c \in [event : Events, entry : Entries]
      BY <3>1, <3>2
    <3>4. calls' = [calls EXCEPT ![n] = c]
      BY <2>2
    <3> HIDE DEF c
    <3> QED
      BY <1>2, <3>3, <3>4, ExceptSeq
  <2> QED
    BY <1>3, <2>1, <2>2
<1> QED
  BY <1>1, <1>4, <1>5 DEF RegistryTyped, ListsUnique, FreedByClear, ArgsFreedOnce, Allocated

\* The invariant of the callback lists.
THEOREM RegistryInvariance == RegistrySpec => []RegistryInv
<1>1. RegistryInv /\ [RegistryNext]_registryVars => RegistryInv'
  <2> SUFFICES ASSUME RegistryInv, [RegistryNext]_registryVars PROVE RegistryInv'
    OBVIOUS
  <2>1. ASSUME NEW e \in Events, NEW c \in Entries, RegisterCallback(e, c) PROVE RegistryInv'
    BY <2>1, RegisterCallbackStep
  <2>2. ASSUME NEW e \in Events, NEW c \in Entries, NEW matchargs \in BOOLEAN,
               UnregisterCallback(e, Function(c), Argument(c), matchargs)
        PROVE  RegistryInv'
    BY <2>2, UnregisterCallbackStep
  <2>3. ASSUME NEW e \in Events, ClearEvent(e) PROVE RegistryInv'
    BY <2>3, ClearEventStep
  <2>4. ASSUME NEW e \in Events, Call(e) PROVE RegistryInv'
    BY <2>4, CallStep
  <2>5. CASE Returns
    BY <2>5, ReturnsStep
  <2>6. CASE UNCHANGED registryVars
    BY <2>6 DEF registryVars, RegistryInv, RegistryTyped, ListsUnique, FreedByClear, ArgsFreedOnce, Allocated
  <2> QED
    BY <2>1, <2>2, <2>3, <2>4, <2>5, <2>6 DEF RegistryNext
<1> QED
  BY RegistryInitInv, <1>1, PTL DEF RegistrySpec

\* However many callbacks share a client argument, and whatever was registered, unregistered
\* and marked before, shutting down frees the argument once and leaves nobody with it.
THEOREM ArgsAlwaysFreedOnce == RegistrySpec => []ArgsFreedOnce
  BY RegistryInvariance, PTL DEF RegistryInv

-----------------------------------------------------------------------------
(* StreamReader: packets are cut out of the stream whole and in order      *)

Byte == Nat \X Nat

StreamTyped ==
    /\ stream \in Seq(Packets)
    /\ wire \in Seq(Byte) /\ packet \in Seq(Byte)
    /\ packetLen \in Nat /\ packetSize \in Nat /\ pptr \in Nat
    /\ looping \in BOOLEAN /\ sock \in {"open", "closed", "gone"}
    /\ processed \in Seq(Seq(Byte))

\* What the loop looks at lies in what was received, and that in the buffer.
InBuffer == pptr + packetLen <= Len(packet) /\ pptr + packetLen <= packetSize

\* The loop runs over an open socket only and starts at the front of the buffer.
LoopsOpen == /\ looping => sock = "open"
             /\ sock = "open" /\ ~looping => pptr = 0

\* The bytes that were sent and not yet processed, those in the buffer first.
PendingLen == packetLen + Len(wire)
Pending == [q \in 1 .. PendingLen |-> IF q <= packetLen THEN packet[pptr + q] ELSE wire[q - packetLen]]

\* They are bytes of packets of the stream, from the first packet that was not
\* processed to the last one sent, with nothing missing.  A run of bytes of one
\* packet is said at once, not from each byte to the next, so that cutting a whole
\* packet needs no induction.
Contiguous(s, done, b, len) ==
    /\ \A q \in 1 .. len : /\ b[q] = <<b[q][1], b[q][2]>>
                           /\ b[q][1] \in 1 .. Len(s) /\ b[q][2] \in 1 .. s[b[q][1]].size
    /\ \A q, r \in 1 .. len : q <= r /\ b[q][2] + (r - q) <= s[b[q][1]].size
                                 => b[r] = <<b[q][1], b[q][2] + (r - q)>>
    /\ \A q \in 1 .. len - 1 : b[q][2] = s[b[q][1]].size => b[q + 1] = <<b[q][1] + 1, 1>>
    /\ len = 0 => done = Len(s)
    /\ len # 0 => b[1] = <<done + 1, 1>> /\ b[len] = <<Len(s), s[Len(s)].size>>

NothingMissing == sock = "open" => Contiguous(stream, Len(processed), Pending, PendingLen)

StreamInv == StreamTyped /\ InBuffer /\ LoopsOpen /\ NothingMissing /\ PacketsInOrder

LEMMA StreamInitInv == StreamInit => StreamInv
<1> SUFFICES ASSUME StreamInit PROVE StreamInv
  OBVIOUS
<1>1. StreamTyped
  <2>1. /\ <<>> \in Seq(Packets) /\ <<>> \in Seq(Byte) /\ <<>> \in Seq(Seq(Byte))
    OBVIOUS
  <2> QED
    BY <2>1 DEF StreamInit, StreamTyped
<1>2. Len(stream) = 0 /\ Len(wire) = 0 /\ Len(processed) = 0 /\ Len(packet) = 0 /\ DOMAIN processed = {}
  BY DEF StreamInit
<1>3. InBuffer /\ LoopsOpen /\ PacketsInOrder /\ PendingLen = 0
  BY <1>2 DEF StreamInit, InBuffer, LoopsOpen, PacketsInOrder, PendingLen
<1>4. NothingMissing
  BY <1>2, <1>3 DEF NothingMissing, Contiguous
<1> QED
  BY <1>1, <1>3, <1>4 DEF StreamInv

LEMMA StreamFacts ==
    ASSUME StreamTyped
    PROVE  /\ Len(stream) \in Nat /\ Len(wire) \in Nat /\ Len(packet) \in Nat /\ Len(processed) \in Nat
           /\ \A n \in 1 .. Len(stream) : stream[n].size \in Nat /\ stream[n].head \in Nat
                                          /\ 2 <= stream[n].head /\ stream[n].head <= stream[n].size
           /\ PendingLen \in Nat /\ RcvLen \in Nat
<1>1. /\ stream \in Seq(Packets) /\ wire \in Seq(Byte) /\ packet \in Seq(Byte)
      /\ processed \in Seq(Seq(Byte)) /\ packetLen \in Nat
  BY DEF StreamTyped
<1>2. \A n \in 1 .. Len(stream) : stream[n] \in Packets
  BY <1>1, ElementOfSeq
<1> QED
  BY <1>1, <1>2, LenProperties, StreamAssumption DEF PendingLen

\* What happens to the stream but leaves what is pending as it is.
LEMMA SamePending ==
    ASSUME StreamInv, StreamTyped', InBuffer', LoopsOpen', UNCHANGED <<stream, processed>>,
           sock' = "open" => sock = "open" /\ PendingLen' = PendingLen /\ Pending' = Pending
    PROVE  StreamInv'
  BY DEF StreamInv, NothingMissing, PacketsInOrder

LEMMA PeerSendsStep == ASSUME StreamInv, NEW p \in Packets, PeerSends(p) PROVE StreamInv'
<1> USE DEF StreamInv
<1> DEFINE m == Len(stream) + 1
           B == Bytes(m, p)
<1>1. /\ stream' = Append(stream, p) /\ wire' = wire \o B
      /\ UNCHANGED <<packet, packetLen, packetSize, pptr, looping, sock, processed>>
  BY DEF PeerSends, buffer
<1>2. p.size \in Nat /\ 2 <= p.size
  BY StreamAssumption
<1>3. m \in Nat /\ stream \in Seq(Packets) /\ wire \in Seq(Byte)
  BY StreamFacts DEF StreamTyped
<1>4. B \in Seq(Byte) /\ Len(B) = p.size /\ \A i \in 1 .. p.size : B[i] = <<m, i>>
  <2>1. B \in [1 .. p.size -> Byte]
    BY <1>2, <1>3 DEF Bytes, Byte
  <2>2. B \in Seq(Byte)
    BY <1>2, <2>1
  <2>3. \A i \in 1 .. p.size : B[i] = <<m, i>>
    BY DEF Bytes
  <2>4. Len(B) = p.size
    BY <1>2, <2>1, <2>2, LenProperties
  <2> QED
    BY <2>2, <2>3, <2>4
<1> HIDE DEF B
<1>5. /\ wire' \in Seq(Byte) /\ Len(wire') = Len(wire) + p.size
      /\ \A j \in 1 .. Len(wire) + p.size : wire'[j] = IF j <= Len(wire) THEN wire[j] ELSE B[j - Len(wire)]
  <2>1. /\ wire \o B \in Seq(Byte) /\ Len(wire \o B) = Len(wire) + Len(B)
        /\ \A j \in 1 .. Len(wire) + Len(B) :
              (wire \o B)[j] = IF j <= Len(wire) THEN wire[j] ELSE B[j - Len(wire)]
    BY <1>3, <1>4, ConcatProperties
  <2> QED
    BY <1>1, <1>4, <2>1
<1>6. /\ stream' \in Seq(Packets) /\ Len(stream') = m
      /\ \A n \in 1 .. Len(stream) : stream'[n] = stream[n]
      /\ stream'[m] = p
  BY <1>1, <1>3, AppendProperties
<1>7. StreamTyped' /\ InBuffer' /\ LoopsOpen'
  BY <1>1, <1>5, <1>6 DEF StreamTyped, buffer, InBuffer, LoopsOpen
<1>8. PacketsInOrder'
  <2>1. DOMAIN processed = 1 .. Len(processed) /\ Len(processed) \in Nat /\ Len(stream) \in Nat
    BY StreamFacts, LenProperties DEF StreamTyped
  <2> QED
    BY <1>1, <1>6, <2>1 DEF PacketsInOrder
<1>9. ASSUME sock = "open" PROVE Contiguous(stream', Len(processed), Pending', PendingLen')
  <2> DEFINE len == PendingLen
             b == Pending
             c == Pending'
             Size(n) == stream[n].size
  <2>1. /\ len \in Nat /\ Len(wire) \in Nat /\ packetLen \in Nat /\ Len(stream) \in Nat
        /\ len = packetLen + Len(wire)
        /\ PendingLen' = len + p.size
    <3>1. Len(wire) \in Nat /\ packetLen \in Nat /\ Len(stream) \in Nat /\ packetLen' = packetLen
      BY <1>1, StreamFacts DEF StreamTyped
    <3>2. PendingLen' = packetLen + (Len(wire) + p.size)
      BY <1>5, <3>1 DEF PendingLen
    <3> QED
      BY <1>2, <3>1, <3>2 DEF PendingLen
  <2>2. /\ \A q \in 1 .. len : c[q] = b[q]
        /\ \A i \in 1 .. p.size : c[len + i] = <<m, i>>
    <3>1. ASSUME NEW q \in 1 .. len PROVE c[q] = b[q]
      <4>1. q \in 1 .. PendingLen /\ q \in 1 .. PendingLen'
        BY <1>2, <2>1
      <4>2. CASE q <= packetLen
        BY <1>1, <4>1, <4>2 DEF Pending
      <4>3. CASE ~(q <= packetLen)
        <5>1. /\ q - packetLen \in 1 .. Len(wire) + p.size /\ q - packetLen <= Len(wire)
          BY <1>2, <2>1, <4>3, SMTT(30)
        <5>2. wire'[q - packetLen] = wire[q - packetLen]
          BY <1>5, <5>1
        <5> QED
          BY <1>1, <4>1, <4>3, <5>2 DEF Pending
      <4> QED
        BY <4>2, <4>3
    <3>2. ASSUME NEW i \in 1 .. p.size PROVE c[len + i] = <<m, i>>
      <4>1. len + i \in 1 .. PendingLen' /\ ~(len + i <= packetLen)
            /\ len + i - packetLen = Len(wire) + i /\ ~(Len(wire) + i <= Len(wire))
            /\ Len(wire) + i \in 1 .. Len(wire) + p.size /\ Len(wire) + i - Len(wire) = i
        BY <1>2, <2>1, SMTT(30)
      <4>2. c[len + i] = wire'[Len(wire) + i]
        <5> DEFINE q == len + i
        <5>1. q \in 1 .. PendingLen' /\ ~(q <= packetLen') /\ q - packetLen' = Len(wire) + i
          <6>1. packetLen' = packetLen
            BY <1>1
          <6> QED
            BY <2>1, <4>1, <6>1
        <5> HIDE DEF q
        <5>2. c[q] = wire'[q - packetLen']
          BY <5>1 DEF Pending
        <5> QED
          BY <5>1, <5>2 DEF q
      <4>3. wire'[Len(wire) + i] = B[i]
        BY <1>5, <4>1
      <4> QED
        BY <1>4, <4>2, <4>3
    <3> QED
      BY <3>1, <3>2
  <2>3. Contiguous(stream, Len(processed), b, len)
    BY <1>9 DEF NothingMissing
  <2>4. \A q \in 1 .. len + p.size : q \in 1 .. len \/ (q - len \in 1 .. p.size /\ q = len + (q - len))
    BY <1>2, <2>1
  <2>5. \A q \in 1 .. len : /\ b[q] = <<b[q][1], b[q][2]>> /\ b[q][1] \in 1 .. Len(stream)
                            /\ b[q][2] \in 1 .. Size(b[q][1])
                            /\ stream'[b[q][1]] = stream[b[q][1]] /\ Size(b[q][1]) \in Nat
    BY <1>6, <2>3, StreamFacts DEF Contiguous
  <2>6. \A q \in 1 .. p.size : c[len + q] = <<m, q>> /\ c[len + q][1] = m /\ c[len + q][2] = q
    BY <2>2
  <2> HIDE DEF c, b, len, m
  <2>7. \A q \in 1 .. len + p.size : /\ c[q] = <<c[q][1], c[q][2]>>
                                     /\ c[q][1] \in 1 .. m /\ c[q][2] \in 1 .. stream'[c[q][1]].size
    <3> SUFFICES ASSUME NEW q \in 1 .. len + p.size
                 PROVE  /\ c[q] = <<c[q][1], c[q][2]>>
                        /\ c[q][1] \in 1 .. m /\ c[q][2] \in 1 .. stream'[c[q][1]].size
      OBVIOUS
    <3>1. CASE q \in 1 .. len
      <4>1. 1 .. Len(stream) \subseteq 1 .. m
        BY <2>1 DEF m
      <4> QED
        BY <2>2, <2>5, <3>1, <4>1
    <3>2. CASE q \notin 1 .. len
      <4>1. m \in 1 .. m
        BY <1>3, <2>1 DEF m
      <4> QED
        BY <1>6, <2>4, <2>6, <3>2, <4>1
    <3> QED
      BY <3>1, <3>2
  <2>8. ASSUME NEW q \in 1 .. len + p.size, NEW r \in 1 .. len + p.size,
               q <= r, c[q][2] + (r - q) <= stream'[c[q][1]].size
        PROVE  c[r] = <<c[q][1], c[q][2] + (r - q)>>
    <3>1. CASE r \in 1 .. len
      <4>1. q \in 1 .. len
        BY <2>1, <2>8, <3>1
      <4>2. b[q][2] + (r - q) <= stream[b[q][1]].size
        BY <2>2, <2>5, <2>8, <4>1
      <4> QED
        BY <2>2, <2>3, <2>8, <3>1, <4>1, <4>2 DEF Contiguous
    <3>2. CASE r \notin 1 .. len /\ q \notin 1 .. len
      <4>1. PICK i \in 1 .. p.size : q = len + i
        BY <2>4, <3>2
      <4>2. PICK j \in 1 .. p.size : r = len + j
        BY <2>4, <3>2
      <4>3. c[q] = <<m, i>> /\ c[r] = <<m, j>> /\ j = i + (r - q)
        BY <2>1, <2>6, <4>1, <4>2
      <4> QED
        BY <4>3
    <3>3. CASE r \notin 1 .. len /\ q \in 1 .. len
      <4>1. b[q][2] + (r - q) <= stream[b[q][1]].size /\ len \in 1 .. len /\ q <= len /\ len < r
        <5>1. c[q] = b[q] /\ stream'[b[q][1]] = stream[b[q][1]]
          BY <2>2, <2>5, <3>3
        <5>2. len \in 1 .. len /\ q <= len /\ len < r
          BY <2>1, <2>8, <3>3
        <5> QED
          BY <2>8, <5>1, <5>2
      <4>2. b[q][2] + (len - q) < b[q][2] + (r - q) /\ b[q][2] + (len - q) \in Nat
        <5> DEFINE from == b[q][2]
        <5>1. from \in Nat
          BY <2>5, <3>3
        <5>2. len - q \in Nat /\ r - q \in Int /\ len - q < r - q
          BY <2>1, <2>8, <3>3, <4>1
        <5> HIDE DEF from
        <5>3. from + (len - q) < from + (r - q) /\ from + (len - q) \in Nat
          BY <5>1, <5>2
        <5> QED
          BY <5>3 DEF from
      <4>3. b[len] = <<b[q][1], b[q][2] + (len - q)>>
        <5>1. b[q][2] + (len - q) <= stream[b[q][1]].size
          BY <2>5, <3>3, <4>1, <4>2, SMTT(30)
        <5> QED
          BY <2>3, <3>3, <4>1, <5>1 DEF Contiguous
      <4>4. b[len] = <<Len(stream), stream[Len(stream)].size>>
        BY <2>1, <2>3, <4>1, SMTT(30) DEF Contiguous
      <4>5. b[q][1] = Len(stream) /\ b[q][2] + (len - q) = stream[b[q][1]].size
        BY <4>3, <4>4
      <4> QED
        BY <2>5, <3>3, <4>1, <4>2, <4>5
    <3> QED
      BY <3>1, <3>2, <3>3
  <2>9. ASSUME NEW q \in 1 .. (len + p.size) - 1, c[q][2] = stream'[c[q][1]].size
        PROVE  c[q + 1] = <<c[q][1] + 1, 1>>
    <3>1. CASE q \in 1 .. len - 1
      <4>1. q \in 1 .. len /\ q + 1 \in 1 .. len
        BY <2>1, <3>1
      <4> QED
        BY <2>2, <2>3, <2>5, <2>9, <3>1, <4>1 DEF Contiguous
    <3>2. CASE q = len
      <4>1. len \in 1 .. len /\ c[len] = b[len] /\ b[len][1] = Len(stream)
        BY <2>1, <2>2, <2>3, <3>2 DEF Contiguous
      <4>2. 1 \in 1 .. p.size
        BY <1>2
      <4>3. c[len + 1] = <<m, 1>>
        BY <2>2, <4>2
      <4> QED
        BY <3>2, <4>1, <4>3 DEF m
    <3>3. CASE q \notin 1 .. len
      <4>1. PICK i \in 1 .. p.size : q = len + i /\ i # p.size
        <5>1. q - len \in 1 .. p.size /\ q = len + (q - len) /\ q - len # p.size
          BY <1>2, <2>1, <3>3
        <5> QED
          BY <5>1
      <4> QED
        BY <1>6, <2>6, <2>9, <4>1
    <3> QED
      BY <2>1, <3>1, <3>2, <3>3
  <2>10. /\ len + p.size # 0
         /\ c[1] = <<Len(processed) + 1, 1>>
         /\ c[len + p.size] = <<m, stream'[m].size>>
    <3>1. len + p.size # 0 /\ 1 \in 1 .. p.size /\ p.size \in 1 .. p.size
      BY <1>2, <2>1
    <3>2. c[1] = <<Len(processed) + 1, 1>>
      <4>1. CASE len = 0
        <5>1. Len(processed) = Len(stream) /\ len + 1 = 1
          BY <2>3, <4>1 DEF Contiguous
        <5> QED
          BY <2>2, <3>1, <5>1 DEF m
      <4>2. CASE len # 0
        BY <2>1, <2>2, <2>3, <4>2 DEF Contiguous
      <4> QED
        BY <4>1, <4>2
    <3> QED
      BY <1>6, <2>2, <3>1, <3>2
  <2>11. Contiguous(stream', Len(processed), c, len + p.size)
    BY <1>6, <2>7, <2>8, <2>9, <2>10 DEF Contiguous
  <2>12. PendingLen' = len + p.size
    BY <2>1
  <2> QED
    BY <2>11, <2>12 DEF c
<1> QED
  BY <1>1, <1>7, <1>8, <1>9 DEF NothingMissing

LEMMA ReceiveStep == ASSUME StreamInv, Receive PROVE StreamInv'
<1> USE DEF StreamInv
<1>1. /\ sock = "open" /\ sock' = "open" /\ ~looping /\ looping' = TRUE
      /\ packetSize' = NewSize /\ pptr' = 0
      /\ UNCHANGED <<stream, processed>>
  BY DEF Receive
<1>2. PICK k \in 1 .. NewSize - packetLen :
          /\ k <= Len(wire)
          /\ packet' = SubSeq(packet, 1, packetLen) \o SubSeq(wire, 1, k)
          /\ packetLen' = packetLen + k
          /\ wire' = SubSeq(wire, k + 1, Len(wire))
  BY DEF Receive
<1>3. /\ pptr = 0 /\ packetLen <= Len(packet) /\ packetLen \in Nat /\ packetSize \in Nat
      /\ packet \in Seq(Byte) /\ wire \in Seq(Byte) /\ Len(packet) \in Nat /\ Len(wire) \in Nat
      /\ RcvLen \in Nat
  BY <1>1, StreamFacts DEF LoopsOpen, InBuffer, StreamTyped
<1>4. NewSize \in Nat /\ packetLen <= NewSize /\ k \in 1 .. Len(wire) /\ k \in Nat /\ packetLen + k <= NewSize
  BY <1>2, <1>3 DEF NewSize
<1> DEFINE x == SubSeq(packet, 1, packetLen)
           y == SubSeq(wire, 1, k)
<1>5. x \in Seq(Byte) /\ Len(x) = packetLen /\ \A q \in 1 .. packetLen : x[q] = packet[q]
  <2>1. \A q \in 1 .. packetLen : packet[q] \in Byte
    BY <1>3, ElementOfSeq
  <2>2. /\ x \in Seq(Byte) /\ Len(x) = IF 1 <= packetLen THEN packetLen - 1 + 1 ELSE 0
        /\ \A q \in 1 .. packetLen - 1 + 1 : x[q] = packet[1 + q - 1]
    BY <1>3, <2>1, SubSeqProperties
  <2> QED
    BY <1>3, <2>2
<1>6. y \in Seq(Byte) /\ Len(y) = k /\ \A q \in 1 .. k : y[q] = wire[q]
  <2>1. \A q \in 1 .. k : wire[q] \in Byte
    BY <1>3, <1>4, ElementOfSeq
  <2>2. /\ y \in Seq(Byte) /\ Len(y) = IF 1 <= k THEN k - 1 + 1 ELSE 0
        /\ \A q \in 1 .. k - 1 + 1 : y[q] = wire[1 + q - 1]
    BY <1>4, <2>1, SubSeqProperties
  <2> QED
    BY <1>4, <2>2
<1>7. /\ wire' \in Seq(Byte) /\ Len(wire') = Len(wire) - k
      /\ \A q \in 1 .. Len(wire) - k : wire'[q] = wire[k + q]
  <2>1. \A q \in k + 1 .. Len(wire) : wire[q] \in Byte
    BY <1>3, <1>4, ElementOfSeq
  <2>2. /\ wire' \in Seq(Byte) /\ Len(wire') = IF k + 1 <= Len(wire) THEN Len(wire) - (k + 1) + 1 ELSE 0
        /\ \A q \in 1 .. Len(wire) - (k + 1) + 1 : wire'[q] = wire[(k + 1) + q - 1]
    BY <1>2, <1>3, <1>4, <2>1, SubSeqProperties
  <2> QED
    BY <1>3, <1>4, <2>2
<1> HIDE DEF x, y
<1>8. /\ packet' \in Seq(Byte) /\ Len(packet') = packetLen + k
      /\ \A q \in 1 .. packetLen + k : packet'[q] = IF q <= packetLen THEN packet[q] ELSE wire[q - packetLen]
  <2>1. packet' = x \o y
    BY <1>2 DEF x, y
  <2>2. /\ packet' \in Seq(Byte) /\ Len(packet') = Len(x) + Len(y)
        /\ \A q \in 1 .. Len(x) + Len(y) : packet'[q] = IF q <= Len(x) THEN x[q] ELSE y[q - Len(x)]
    BY <1>5, <1>6, <2>1, ConcatProperties
  <2>3. \A q \in 1 .. packetLen + k : q <= packetLen => q \in 1 .. packetLen
    OBVIOUS
  <2>4. \A q \in 1 .. packetLen + k : ~(q <= packetLen) => q - packetLen \in 1 .. k
    BY <1>3, <1>4
  <2> QED
    BY <1>5, <1>6, <2>2, <2>3, <2>4
<1>9. StreamTyped'
  BY <1>1, <1>2, <1>3, <1>4, <1>7, <1>8, SMTT(30) DEF StreamTyped
<1>10. InBuffer' /\ LoopsOpen'
  BY <1>1, <1>2, <1>3, <1>4, <1>8, SMTT(30) DEF InBuffer, LoopsOpen
<1>11. PendingLen' = PendingLen
  <2>1. PendingLen' = (packetLen + k) + (Len(wire) - k)
    BY <1>2, <1>7 DEF PendingLen
  <2> QED
    BY <1>3, <1>4, <2>1 DEF PendingLen
<1>12. Pending' = Pending
  <2>1. ASSUME NEW q \in 1 .. PendingLen PROVE Pending'[q] = Pending[q]
    <3>1. CASE q <= packetLen + k
      <4>1. q \in 1 .. packetLen + k /\ pptr + q = q /\ pptr' + q = q
        BY <1>1, <1>3, <1>4, <3>1
      <4>2. Pending'[q] = packet'[q]
        BY <1>2, <1>11, <3>1, <4>1 DEF Pending
      <4>3. Pending[q] = IF q <= packetLen THEN packet[q] ELSE wire[q - packetLen]
        BY <4>1 DEF Pending
      <4> QED
        BY <1>8, <4>1, <4>2, <4>3
    <3>2. CASE ~(q <= packetLen + k)
      <4>1. /\ q - (packetLen + k) \in 1 .. Len(wire) - k /\ k + (q - (packetLen + k)) = q - packetLen
            /\ ~(q <= packetLen)
        BY <1>3, <1>4, <3>2 DEF PendingLen
      <4>2. Pending'[q] = wire'[q - (packetLen + k)]
        BY <1>2, <1>11, <3>2 DEF Pending
      <4>3. Pending[q] = wire[q - packetLen]
        BY <4>1 DEF Pending
      <4> QED
        BY <1>7, <4>1, <4>2, <4>3
    <3> QED
      BY <3>1, <3>2
  <2> QED
    BY <1>11, <2>1 DEF Pending
<1> QED
  BY <1>1, <1>9, <1>10, <1>11, <1>12, SamePending

\* The part of the buffer that the loop looks at.
LEMMA RestIs ==
    ASSUME StreamInv
    PROVE  /\ Rest \in Seq(Byte) /\ Len(Rest) = packetLen
           /\ \A q \in 1 .. packetLen : Rest[q] = packet[pptr + q] /\ Rest[q] = Pending[q]
<1>1. /\ packet \in Seq(Byte) /\ packetLen \in Nat /\ pptr \in Nat /\ Len(packet) \in Nat
      /\ pptr + packetLen <= Len(packet) /\ Len(wire) \in Nat
  BY StreamFacts DEF StreamInv, StreamTyped, InBuffer
<1>2. \A q \in pptr + 1 .. pptr + packetLen : packet[q] \in Byte
  BY <1>1, ElementOfSeq
<1>3. /\ Rest \in Seq(Byte)
      /\ Len(Rest) = IF pptr + 1 <= pptr + packetLen THEN (pptr + packetLen) - (pptr + 1) + 1 ELSE 0
      /\ \A q \in 1 .. (pptr + packetLen) - (pptr + 1) + 1 : Rest[q] = packet[(pptr + 1) + q - 1]
  BY <1>1, <1>2, SubSeqProperties DEF Rest
<1>4. \A q \in 1 .. packetLen : q \in 1 .. PendingLen /\ q <= packetLen
  BY <1>1 DEF PendingLen
<1>5. \A q \in 1 .. packetLen : Pending[q] = packet[pptr + q]
  BY <1>4 DEF Pending
<1>6. Len(Rest) = packetLen /\ \A q \in 1 .. packetLen : Rest[q] = packet[pptr + q]
  BY <1>1, <1>3
<1> QED
  BY <1>3, <1>5, <1>6

LEMMA ProcessOneStep == ASSUME StreamInv, ProcessOne PROVE StreamInv'
<1> USE DEF StreamInv
<1> DEFINE k == PduLen(Rest)
           n == Len(processed) + 1
           len == PendingLen
           b == Pending
           d == SubSeq(Rest, 1, k)
<1>1. /\ looping /\ k \in 1 .. packetLen
      /\ processed' = Append(processed, d)
      /\ pptr' = pptr + k /\ packetLen' = packetLen - k
      /\ UNCHANGED <<stream, wire, packet, packetSize, looping, sock>>
  BY DEF ProcessOne
<1>2. /\ packetLen \in Nat /\ pptr \in Nat /\ Len(wire) \in Nat /\ Len(stream) \in Nat /\ Len(processed) \in Nat
      /\ len = packetLen + Len(wire) /\ len # 0 /\ k \in Nat /\ sock = "open"
  BY <1>1, StreamFacts, SMTT(30) DEF StreamTyped, PendingLen, LoopsOpen
<1>3. Contiguous(stream, Len(processed), b, len)
  BY <1>2 DEF NothingMissing
<1>4. Rest[1] = b[1] /\ b[1] = <<n, 1>> /\ n \in 1 .. Len(stream) /\ Len(Rest) = packetLen
  <2>1. 1 \in 1 .. packetLen /\ 1 \in 1 .. len
    BY <1>1, <1>2, SMTT(30)
  <2> QED
    BY <1>2, <1>3, <2>1, RestIs DEF Contiguous
<1>5. k = stream[n].size /\ stream[n].broken = FALSE
  <2>1. stream[n] \in Packets
    BY <1>4, ElementOfSeq DEF StreamTyped
  <2>2. stream[n].broken \in BOOLEAN
    BY <2>1, StreamAssumption
  <2>3. Rest[1][1] = n
    BY <1>4
  <2> QED
    BY <1>1, <2>2, <2>3 DEF PduLen
<1> HIDE DEF k, b, len, n, d
\* The bytes up to the end of the packet are its bytes.
<1>6. \A q \in 1 .. k : q \in 1 .. len /\ b[q] = <<n, q>>
  <2> SUFFICES ASSUME NEW q \in 1 .. k PROVE q \in 1 .. len /\ b[q] = <<n, q>>
    OBVIOUS
  <2>1. q \in 1 .. len /\ 1 \in 1 .. len /\ 1 <= q /\ 1 + (q - 1) = q
    BY <1>1, <1>2
  <2>2. b[1][1] = n /\ b[1][2] = 1
    BY <1>4
  <2>3. b[1][2] + (q - 1) <= stream[b[1][1]].size
    BY <1>2, <1>5, <2>1, <2>2
  <2>4. b[q] = <<b[1][1], b[1][2] + (q - 1)>>
    BY <1>3, <2>1, <2>3 DEF Contiguous
  <2> QED
    BY <2>1, <2>2, <2>4
<1>7. d \in Seq(Byte) /\ d = Bytes(n, stream[n])
  <2>1. \A q \in 1 .. k : q \in 1 .. packetLen /\ q \in 1 .. Len(Rest) /\ Rest[q] = b[q]
    BY <1>1, <1>2, RestIs DEF b
  <2>2. \A q \in 1 .. k : Rest[q] \in Byte
    BY <2>1, RestIs, ElementOfSeq
  <2>3. /\ d \in Seq(Byte) /\ Len(d) = IF 1 <= k THEN k - 1 + 1 ELSE 0
        /\ \A q \in 1 .. k - 1 + 1 : d[q] = Rest[1 + q - 1]
    BY <1>2, <2>2, SubSeqProperties DEF d
  <2>4. Len(d) = k /\ \A q \in 1 .. k : d[q] = <<n, q>>
    BY <1>2, <1>6, <2>1, <2>3
  <2>5. d = [q \in 1 .. k |-> <<n, q>>]
    <3>1. d = [q \in 1 .. Len(d) |-> d[q]]
      BY <2>3
    <3> QED
      BY <2>4, <3>1
  <2> QED
    BY <1>5, <2>3, <2>5 DEF Bytes
<1>8. /\ processed \in Seq(Seq(Byte)) /\ processed' \in Seq(Seq(Byte)) /\ Len(processed') = n
      /\ \A j \in 1 .. Len(processed) : processed'[j] = processed[j]
      /\ processed'[n] = d
      /\ DOMAIN processed = 1 .. Len(processed) /\ DOMAIN processed' = 1 .. n
  BY <1>1, <1>7, AppendProperties, LenProperties DEF StreamTyped, n
<1>9. StreamTyped' /\ InBuffer' /\ LoopsOpen'
  <2>1. packetLen' \in Nat /\ pptr' \in Nat /\ pptr' + packetLen' = pptr + packetLen
    BY <1>1, <1>2
  <2> QED
    BY <1>1, <1>2, <1>8, <2>1 DEF StreamTyped, InBuffer, LoopsOpen
<1>10. PacketsInOrder'
  <2>1. \A j \in 1 .. n : j \in 1 .. Len(processed) \/ j = n
    BY <1>2 DEF n
  <2>2. n <= Len(stream)
    BY <1>2, <1>4
  <2> QED
    BY <1>1, <1>5, <1>7, <1>8, <2>1, <2>2 DEF PacketsInOrder
<1> DEFINE c == Pending'
           l == PendingLen'
<1>11. /\ l = len - k /\ l \in Nat /\ len \in Nat /\ k \in 1 .. len
       /\ \A q \in 1 .. l : q + k \in 1 .. len /\ c[q] = b[q + k]
  <2>1. l = len - k /\ l \in Nat /\ len \in Nat /\ k \in 1 .. len
    BY <1>1, <1>2 DEF PendingLen
  <2>2. ASSUME NEW q \in 1 .. l PROVE q + k \in 1 .. len /\ c[q] = b[q + k]
    <3>1. q + k \in 1 .. len
      BY <1>1, <1>2, <2>1, <2>2
    <3>2. CASE q + k <= packetLen
      <4>1. q <= packetLen' /\ pptr' + q = pptr + (q + k)
        BY <1>1, <1>2, <3>2
      <4> QED
        BY <1>1, <3>1, <3>2, <4>1 DEF Pending, b, len
    <3>3. CASE ~(q + k <= packetLen)
      <4>1. ~(q <= packetLen') /\ q - packetLen' = (q + k) - packetLen
        BY <1>1, <1>2, <3>3
      <4> QED
        BY <1>1, <3>1, <3>3, <4>1 DEF Pending, b, len
    <3> QED
      BY <3>1, <3>2, <3>3
  <2> QED
    BY <2>1, <2>2
<1> HIDE DEF c, l
<1>12. b[k] = <<n, k>> /\ b[k][1] = n /\ b[k][2] = k
  BY <1>1, <1>6
<1>13. Contiguous(stream, n, c, l)
  <2>1. \A q \in 1 .. l : /\ c[q] = <<c[q][1], c[q][2]>>
                          /\ c[q][1] \in 1 .. Len(stream) /\ c[q][2] \in 1 .. stream[c[q][1]].size
    BY <1>3, <1>11 DEF Contiguous
  <2>2. ASSUME NEW q \in 1 .. l, NEW r \in 1 .. l, q <= r, c[q][2] + (r - q) <= stream[c[q][1]].size
        PROVE  c[r] = <<c[q][1], c[q][2] + (r - q)>>
    <3>1. q + k \in 1 .. len /\ r + k \in 1 .. len /\ q + k <= r + k /\ (r + k) - (q + k) = r - q
      BY <1>11, <2>2
    <3> QED
      BY <1>3, <1>11, <2>2, <3>1 DEF Contiguous
  <2>3. ASSUME NEW q \in 1 .. l - 1, c[q][2] = stream[c[q][1]].size
        PROVE  c[q + 1] = <<c[q][1] + 1, 1>>
    <3>1. /\ q \in 1 .. l /\ q + 1 \in 1 .. l /\ q + k \in 1 .. len - 1 /\ (q + k) + 1 = (q + 1) + k
      BY <1>11, <2>3
    <3> QED
      BY <1>3, <1>11, <2>3, <3>1, ZenonT(40) DEF Contiguous
  <2>4. l = 0 => n = Len(stream)
    <3> SUFFICES ASSUME l = 0 PROVE n = Len(stream)
      OBVIOUS
    <3>1. len = k
      BY <1>11
    <3>2. b[len][1] = Len(stream)
      BY <1>2, <1>3 DEF Contiguous
    <3> QED
      BY <1>12, <3>1, <3>2
  <2>5. l # 0 => c[1] = <<n + 1, 1>> /\ c[l] = <<Len(stream), stream[Len(stream)].size>>
    <3> SUFFICES ASSUME l # 0
                 PROVE  c[1] = <<n + 1, 1>> /\ c[l] = <<Len(stream), stream[Len(stream)].size>>
      OBVIOUS
    <3>1. 1 \in 1 .. l /\ l \in 1 .. l /\ k \in 1 .. len - 1 /\ l + k = len /\ 1 + k = k + 1
      BY <1>11
    <3>2. b[k + 1] = <<n + 1, 1>>
      BY <1>3, <1>5, <1>12, <3>1 DEF Contiguous
    <3>3. b[len] = <<Len(stream), stream[Len(stream)].size>>
      BY <1>2, <1>3 DEF Contiguous
    <3> QED
      BY <1>11, <3>1, <3>2, <3>3
  <2> QED
    BY <2>1, <2>2, <2>3, <2>4, <2>5 DEF Contiguous
<1> QED
  BY <1>1, <1>8, <1>9, <1>10, <1>13 DEF NothingMissing, c, l

LEMMA ShiftStep == ASSUME StreamInv, Shift PROVE StreamInv'
<1> USE DEF StreamInv
<1>1. /\ looping /\ packet' = Rest /\ packetSize' \in {packetLen, packetSize}
      /\ pptr' = 0 /\ looping' = FALSE
      /\ UNCHANGED <<stream, wire, packetLen, sock, processed>>
  BY DEF Shift
<1>2. packetLen \in Nat /\ pptr \in Nat /\ packetSize \in Nat /\ pptr + packetLen <= packetSize
  BY DEF StreamTyped, InBuffer
<1>3. /\ packet' \in Seq(Byte) /\ Len(packet') = packetLen
      /\ \A q \in 1 .. packetLen : packet'[q] = packet[pptr + q]
  BY <1>1, RestIs
<1>4. StreamTyped' /\ InBuffer' /\ LoopsOpen'
  <2>1. packetSize' \in Nat /\ packetLen <= packetSize' /\ pptr' + packetLen = packetLen
    BY <1>1, <1>2
  <2>2. StreamTyped'
    BY <1>1, <1>3, <2>1 DEF StreamTyped
  <2> QED
    BY <1>1, <1>2, <1>3, <2>1, <2>2 DEF InBuffer, LoopsOpen
<1>5. PendingLen' = PendingLen
  BY <1>1 DEF PendingLen
<1>6. Pending' = Pending
  <2>1. \A q \in 1 .. PendingLen : q <= packetLen => q \in 1 .. packetLen /\ pptr' + q = q
    BY <1>1, <1>2
  <2> QED
    BY <1>1, <1>3, <1>5, <2>1 DEF Pending
<1> QED
  BY <1>1, <1>4, <1>5, <1>6, SamePending

LEMMA AllDoneStep == ASSUME StreamInv, AllDone PROVE StreamInv'
<1> USE DEF StreamInv
<1>1. /\ packetLen = 0 /\ packet' = <<>> /\ packetLen' = 0 /\ packetSize' = 0 /\ pptr' = 0
      /\ looping' = FALSE /\ UNCHANGED <<stream, wire, sock, processed>>
  BY DEF AllDone, NoBuffer
<1>2. StreamTyped' /\ InBuffer' /\ LoopsOpen'
  <2>1. packet' \in Seq(Byte) /\ Len(packet') = 0
    BY <1>1
  <2>2. StreamTyped'
    BY <1>1, <2>1 DEF StreamTyped
  <2> QED
    BY <1>1, <2>1, <2>2 DEF InBuffer, LoopsOpen
<1>3. PendingLen' = PendingLen /\ Pending' = Pending
  BY <1>1 DEF PendingLen, Pending
<1> QED
  BY <1>1, <1>2, <1>3, SamePending

\* What ends the connection, or leaves the buffer as it is.
LEMMA OtherStreamSteps ==
    ASSUME StreamInv, KeepAll \/ Drop \/ Disconnect \/ Reap
    PROVE  StreamInv'
<1> USE DEF StreamInv
<1>1. CASE KeepAll
  <2>1. /\ looping' = FALSE /\ pptr = 0
        /\ UNCHANGED <<stream, wire, packet, packetLen, packetSize, pptr, sock, processed>>
    BY <1>1 DEF KeepAll, buffer
  <2>2. StreamTyped' /\ InBuffer' /\ LoopsOpen'
    BY <2>1 DEF StreamTyped, InBuffer, LoopsOpen
  <2>3. PendingLen' = PendingLen /\ Pending' = Pending
    BY <2>1 DEF PendingLen, Pending
  <2> QED
    BY <2>1, <2>2, <2>3, SamePending
<1>2. CASE Drop
  <2>1. /\ looping' = FALSE /\ sock' = "closed"
        /\ UNCHANGED <<stream, wire, packet, packetLen, packetSize, pptr, processed>>
    BY <1>2 DEF Drop, buffer
  <2>2. StreamTyped' /\ InBuffer' /\ LoopsOpen'
    BY <2>1 DEF StreamTyped, InBuffer, LoopsOpen
  <2> QED
    BY <2>1, <2>2, SamePending
<1>3. CASE Disconnect \/ Reap
  <2>1. /\ sock' \in {"closed", "gone"} /\ packet' = <<>> /\ packetLen' = 0 /\ packetSize' = 0
        /\ pptr' = 0 /\ ~looping /\ UNCHANGED <<stream, wire, looping, processed>>
    BY <1>3 DEF Disconnect, Reap, NoBuffer
  <2>2. StreamTyped' /\ InBuffer' /\ LoopsOpen'
    BY <2>1 DEF StreamTyped, InBuffer, LoopsOpen
  <2> QED
    BY <2>1, <2>2, SamePending
<1> QED
  BY <1>1, <1>2, <1>3

\* The invariant of the stream reader.
THEOREM StreamInvariance == StreamSpec => []StreamInv
<1>1. StreamInv /\ [StreamNext]_streamVars => StreamInv'
  <2> SUFFICES ASSUME StreamInv, [StreamNext]_streamVars PROVE StreamInv'
    OBVIOUS
  <2>1. CASE \E p \in Packets : PeerSends(p)
    BY <2>1, PeerSendsStep
  <2>2. CASE SessRead
    BY <2>2, ReceiveStep, ProcessOneStep, ShiftStep, AllDoneStep, OtherStreamSteps DEF SessRead
  <2>3. CASE Disconnect \/ Reap
    BY <2>3, OtherStreamSteps
  <2>4. CASE UNCHANGED streamVars
    <3>1. UNCHANGED <<stream, wire, packet, packetLen, packetSize, pptr, looping, sock, processed>>
      BY <2>4 DEF streamVars, buffer
    <3>2. StreamTyped' /\ InBuffer' /\ LoopsOpen'
      BY <3>1 DEF StreamInv, StreamTyped, InBuffer, LoopsOpen
    <3>3. PendingLen' = PendingLen /\ Pending' = Pending
      BY <3>1 DEF PendingLen, Pending
    <3> QED
      BY <3>1, <3>2, <3>3, SamePending
  <2> QED
    BY <2>1, <2>2, <2>3, <2>4 DEF StreamNext
<1> QED
  BY StreamInitInv, <1>1, PTL DEF StreamSpec

\* However the stream is cut into pieces, and whatever sizes packets and buffer have, only
\* whole packets are processed, in the order they were sent in, and none behind a broken one.
THEOREM PacketsAlwaysInOrder == StreamSpec => []PacketsInOrder
  BY StreamInvariance, PTL DEF StreamInv

\* The loop never looks beyond what was received, nor recv writes beyond the buffer.
THEOREM BufferNeverOverrun == StreamSpec => []InBuffer
  BY StreamInvariance, PTL DEF StreamInv
=============================================================================
