------------------------------ MODULE Library ------------------------------
(***************************************************************************)
(* The services of the library side by side: alarms, callbacks, the        *)
(* callback transport, external file descriptors, stream reading,          *)
(* persistent data, the encoding of values and messages.  They share no    *)
(* state in the code, so one of them is chosen and takes all the steps.    *)
(***************************************************************************)
EXTENDS SnmpAlarm, CallbackRegistry, CallbackDomain, FdEvents, StreamReader,
        PersistentStore, SnmpMessage

VARIABLE service    \* the service that is used

\* The variables of each service.
AllVars == <<alarmVars, registryVars, callbackVars, fdVars, streamVars, storeVars, berVars, messageVars>>

libraryVars == <<service, AllVars>>

NoItem == [kind |-> "int", value |-> 0]

ServiceName == {"alarm", "registry", "transport", "fd", "stream", "store", "ber", "message"}

LibraryInit == /\ service \in ServiceName
               /\ AlarmInit
               /\ RegistryInit
               /\ CallbackInit
               /\ FdInit
               /\ StreamInit
               /\ StoreInit
               /\ IF service = "ber" THEN BerInit
                  ELSE item = NoItem /\ octets = <<>> /\ parsed = NotParsed
               /\ IF service = "message" THEN MessageInit
                  ELSE message = NoItem /\ sentPacket = <<>> /\ understood = Nothing

LibraryNext ==
    /\ \/ /\ service = "alarm" /\ AlarmNext
          /\ UNCHANGED <<registryVars, callbackVars, fdVars, streamVars, storeVars, berVars, messageVars>>
       \/ /\ service = "registry" /\ RegistryNext
          /\ UNCHANGED <<alarmVars, callbackVars, fdVars, streamVars, storeVars, berVars, messageVars>>
       \/ /\ service = "transport" /\ CallbackNext
          /\ UNCHANGED <<alarmVars, registryVars, fdVars, streamVars, storeVars, berVars, messageVars>>
       \/ /\ service = "fd" /\ FdNext
          /\ UNCHANGED <<alarmVars, registryVars, callbackVars, streamVars, storeVars, berVars, messageVars>>
       \/ /\ service = "stream" /\ StreamNext
          /\ UNCHANGED <<alarmVars, registryVars, callbackVars, fdVars, storeVars, berVars, messageVars>>
       \/ /\ service = "store" /\ StoreNext
          /\ UNCHANGED <<alarmVars, registryVars, callbackVars, fdVars, streamVars, berVars, messageVars>>
       \/ /\ service = "ber" /\ BerNext
          /\ UNCHANGED <<alarmVars, registryVars, callbackVars, fdVars, streamVars, storeVars, messageVars>>
       \/ /\ service = "message" /\ MessageNext
          /\ UNCHANGED <<alarmVars, registryVars, callbackVars, fdVars, streamVars, storeVars, berVars>>
    /\ UNCHANGED service

LibrarySpec == /\ LibraryInit /\ [][LibraryNext]_libraryVars
               /\ AlarmFairness /\ CallbackFairness /\ StreamFairness
=============================================================================
