-------------------------- MODULE PersistentStore --------------------------
(***************************************************************************)
(* The persistent data of an application: snmp_store of snmp/snmp_api.c    *)
(* and the files of snmp/read_config.c.  The file of the last store is put *)
(* aside, a new one is written line by line, and then what was put aside   *)
(* is removed; the process may crash between any two of these steps, and   *)
(* reads what it finds when it starts again.                               *)
(***************************************************************************)
EXTENDS Integers, FiniteSets

CONSTANTS Token,        \* configuration tokens that are stored
          MaxBackups,   \* NETSNMP_MAX_PERSISTENT_BACKUPS
          MaxVersion    \* bound: changes of values

ASSUME StoreAssumption == MaxBackups \in Nat /\ MaxVersion \in Nat

Backup == 0 .. MaxBackups
Main   == -1
File   == Backup \cup {Main}

VARIABLES
    exists,       \* the files in the persistent directory
    content,      \* what reading a file makes of each token; 0 if it has no line
    values,       \* the values in memory, as versions
    version,      \* auxiliary: versions so far
    storing,      \* "no", "saved", "writing", "cleaning" or "down"
    pending,      \* the tokens whose callbacks this store has yet to call
    written,      \* the tokens it has written
    cleanNext,    \* j in snmp_clean_persistent
    stored        \* auxiliary: the values that the last complete store has written

progress  == <<storing, pending, written, cleanNext>>
storeVars == <<exists, content, values, version, progress, stored>>

NoLines == [t \in Token |-> 0]

StoreInit == /\ exists = {}
             /\ content = [f \in File |-> NoLines]
             /\ values = NoLines
             /\ version = 0
             /\ storing = "no"
             /\ pending = {} /\ written = {}
             /\ cleanNext = 0
             /\ stored = NoLines

\* The application changes a value.
Change(t) == /\ storing = "no"
             /\ version < MaxVersion
             /\ version' = version + 1
             /\ values' = [values EXCEPT ![t] = version + 1]
             /\ UNCHANGED <<exists, content, progress, stored>>

\* Mutant: the file is put aside in the last place.
FreeBackup_last == IF MaxBackups \in exists THEN {} ELSE {MaxBackups}

\* Where the file of the last store goes: the first number that is free.
FreeBackup == {j \in Backup : j \notin exists /\ \A k \in 0 .. j - 1 : k \in exists}

\* The old file is renamed.
PutAside == \E j \in FreeBackup :
    /\ exists' = (exists \ {Main}) \cup {j}
    /\ content' = [content EXCEPT ![j] = content[Main], ![Main] = NoLines]
    /\ UNCHANGED stored

\* rename has failed: the old file is removed, and what it held is lost.
RemoveOld == /\ FreeBackup # {}
             /\ exists' = exists \ {Main}
             /\ content' = [content EXCEPT ![Main] = NoLines]
             /\ stored' = NoLines

\* There is no old file, no free number for it, or it can be neither renamed
\* nor removed: the new lines go behind whatever is there.
LeaveOld == UNCHANGED <<exists, content, stored>>

\* snmp_save_persistent.
SavePersistent ==
    /\ storing = "no"
    /\ (Main \in exists /\ (PutAside \/ RemoveOld)) \/ LeaveOld
    /\ storing' = "saved"
    /\ pending' = Token /\ written' = {}
    /\ UNCHANGED <<values, version, cleanNext>>

\* Its last step: the header of the new file, if that can be opened.
StoreHeader == /\ storing = "saved"
               /\ exists' \in {exists, exists \cup {Main}}
               /\ storing' = "writing"
               /\ UNCHANGED <<content, values, version, pending, written, cleanNext, stored>>

\* read_config_store, from a callback of SNMP_CALLBACK_STORE_DATA; nobody is
\* told if the file cannot be opened.
StoreLine(t) ==
    /\ storing = "writing"
    /\ t \in pending
    /\ pending' = pending \ {t}
    /\ \/ /\ exists' = exists \cup {Main}
          /\ content' = [content EXCEPT ![Main][t] = values[t]]
          /\ written' = written \cup {t}
       \/ UNCHANGED <<exists, content, written>>
    /\ UNCHANGED <<values, version, storing, cleanNext, stored>>

\* Every callback has been called.  Without a new file nothing is cleaned.
AllWritten == /\ storing = "writing"
              /\ pending = {}
              /\ IF Main \in exists
                 THEN /\ stored' = [t \in Token |-> IF t \in written THEN values[t] ELSE 0]
                      /\ storing' = "cleaning"
                 ELSE storing' = "no" /\ UNCHANGED stored
              /\ cleanNext' = 0
              /\ UNCHANGED <<exists, content, values, version, pending, written>>

\* snmp_clean_persistent, one number; a file that cannot be removed stays.
CleanOne == /\ storing = "cleaning"
            /\ \/ /\ exists' = exists \ {cleanNext}
                  /\ content' = [content EXCEPT ![cleanNext] = NoLines]
               \/ UNCHANGED <<exists, content>>
            /\ IF cleanNext = MaxBackups THEN storing' = "no" /\ cleanNext' = 0
               ELSE cleanNext' = cleanNext + 1 /\ UNCHANGED storing
            /\ UNCHANGED <<values, version, pending, written, stored>>

Crash == /\ storing # "down"
         /\ storing' = "down"
         /\ pending' = {} /\ written' = {}
         /\ cleanNext' = 0
         /\ UNCHANGED <<exists, content, values, version, stored>>

\* The files read_config_files_in_path reads: the backups up to the first
\* number that is missing, and then the file itself.
Readable == {j \in Backup : \A k \in 0 .. j : k \in exists} \cup (exists \cap {Main})

\* The file whose line for t is read last.
LastRead(t) == LET with == {f \in Readable : content[f][t] # 0}
               IN  {f \in with : f = Main \/ (Main \notin with /\ \A g \in with : g <= f)}

Restart == /\ storing = "down"
           /\ storing' = "no"
           /\ values' = [t \in Token |-> IF LastRead(t) = {} THEN 0
                                         ELSE content[CHOOSE f \in LastRead(t) : TRUE][t]]
           /\ UNCHANGED <<exists, content, version, pending, written, cleanNext, stored>>

StoreNext == \/ \E t \in Token : Change(t) \/ StoreLine(t)
             \/ SavePersistent \/ StoreHeader
             \/ AllWritten
             \/ CleanOne
             \/ Crash
             \/ Restart

StoreSpec == StoreInit /\ [][StoreNext]_storeVars

-----------------------------------------------------------------------------
(* Properties.                                                              *)

StoreTypeOK == /\ exists \subseteq File
               /\ content \in [File -> [Token -> 0 .. MaxVersion]]
               /\ \A f \in File \ exists : content[f] = NoLines
               /\ values \in [Token -> 0 .. MaxVersion]
               /\ version \in 0 .. MaxVersion
               /\ storing \in {"no", "saved", "writing", "cleaning", "down"}
               /\ pending \subseteq Token /\ written \subseteq Token
               /\ cleanNext \in Backup
               /\ stored \in [Token -> 0 .. MaxVersion]

\* Whenever the process crashes, in the middle of a store or of cleaning up
\* after one, what the last complete store has written is in a file that the
\* next start reads.
NothingLost == \A t \in Token : stored[t] # 0 =>
    \E f \in Readable : content[f][t] >= stored[t]

\* read_config_files_in_path: the configuration files are read "starting with
\* the oldest first", so that a process that has crashed comes back with
\* values no older than those of its last complete store.
OldestFirst == storing = "no" => \A t \in Token : values[t] >= stored[t]
=============================================================================
