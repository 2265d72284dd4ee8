---------------------------- MODULE ArpResolver ----------------------------
(***************************************************************************)
(* afdx/afdx_GetDMac.c: tttDMac finds the MAC address of one host.  A      *)
(* sender thread asks every address of the subnet, a receiver thread waits *)
(* for the reply of the host the user names, and the caller polls the      *)
(* counter myThreadCount, which the threads share with it, to learn that   *)
(* both are done.  Every read and write of the counter outside the         *)
(* critical section is a step of its own; inside it, the load and the      *)
(* store of ++ and -- are two steps.                                       *)
(***************************************************************************)
EXTENDS Integers, FiniteSets

CONSTANTS Addresses,   \* HostNum: the host addresses of the subnet mask
          WordSize     \* HostNum is unsigned and wraps around at this number

ASSUME ArpAssumption == /\ WordSize \in Nat \ {0}
                        /\ Addresses \subseteq 0 .. WordSize - 1

VARIABLES
    main,            \* where tttDMac is
    sender,          \* where threadofsnt is
    receiver,        \* where threadofrcv is
    cs,              \* the thread inside the critical section, or "free"
    loaded,          \* the counter as read by the thread inside
    myThreadCount,
    HostNum,         \* addresses still to be asked
    ddmac,           \* "old", "torn" while it is being written, "new"
    result,          \* what the caller was given
    waited           \* the caller has found a thread running

arpVars == <<main, sender, receiver, cs, loaded, myThreadCount, HostNum, ddmac,
             result, waited>>

Address == {"old", "torn", "new"}

ArpTypeOK == /\ main \in {"open", "sleep", "wait", "done"}
             /\ sender \in {"none", "enter", "inc", "sync", "send", "pause", "dec", "done"}
             /\ receiver \in {"none", "input", "enter", "inc", "loop", "write", "found",
                              "leave", "dec", "done"}
             /\ cs \in {"free", "sender", "receiver"}
             /\ {loaded, myThreadCount} \subseteq -3 .. 2
             /\ HostNum \in 0 .. WordSize - 1
             /\ ddmac \in Address
             /\ result \in Address \cup {"none"}
             /\ waited \in BOOLEAN

ArpInit == /\ main = "open"
           /\ sender = "none"
           /\ receiver = "none"
           /\ cs = "free"
           /\ loaded = 0
           /\ myThreadCount = 0
           /\ HostNum \in Addresses
           /\ ddmac = "old"
           /\ result = "none"
           /\ waited = FALSE

-----------------------------------------------------------------------------
(* The caller                                                              *)

\* pcap_open may fail; otherwise both threads are created.
Open == /\ main = "open"
        /\ \/ /\ main' = "done"
              /\ UNCHANGED <<sender, receiver>>
           \/ /\ main' = "sleep"
              /\ sender' = "enter"
              /\ receiver' = "input"
        /\ UNCHANGED <<cs, loaded, myThreadCount, HostNum, ddmac, result, waited>>

\* Sleep(1000) promises nothing about how far the threads have got.
Sleep == /\ main = "sleep"
         /\ main' = "wait"
         /\ UNCHANGED <<sender, receiver, cs, loaded, myThreadCount, HostNum, ddmac,
                        result, waited>>

\* Mutant: the loop waits for exactly 0.
Poll_nonzero == /\ main = "wait"
                /\ IF myThreadCount # 0
                   THEN /\ waited' = TRUE
                        /\ UNCHANGED <<main, result>>
                   ELSE /\ main' = "done"
                        /\ result' = ddmac
                        /\ UNCHANGED waited
                /\ UNCHANGED <<sender, receiver, cs, loaded, myThreadCount, HostNum,
                               ddmac>>

\* while (myThreadCount > 0), then the address is formatted.
Poll == /\ main = "wait"
        /\ IF myThreadCount > 0
           THEN /\ waited' = TRUE
                /\ UNCHANGED <<main, result>>
           ELSE /\ main' = "done"
                /\ result' = ddmac
                /\ UNCHANGED waited
        /\ UNCHANGED <<sender, receiver, cs, loaded, myThreadCount, HostNum, ddmac>>

-----------------------------------------------------------------------------
(* The critical section                                                    *)

Enter(thread) == /\ cs = "free"
                 /\ cs' = thread
                 /\ loaded' = myThreadCount
                 /\ UNCHANGED myThreadCount

Leave(thread, delta) == /\ cs = thread
                        /\ cs' = "free"
                        /\ myThreadCount' = loaded + delta
                        /\ UNCHANGED loaded

-----------------------------------------------------------------------------
(* The sender                                                              *)

SenderCounts == /\ \/ /\ sender = "enter" /\ sender' = "inc"
                      /\ Enter("sender")
                   \/ /\ sender = "inc" /\ sender' = "sync"
                      /\ Leave("sender", 1)
                   \/ /\ sender = "pause" /\ sender' = "dec"
                      /\ Enter("sender")
                   \/ /\ sender = "dec" /\ sender' = "done"
                      /\ Leave("sender", -1)
                /\ UNCHANGED <<main, receiver, HostNum, ddmac, result, waited>>

\* while (myThreadCount < 2) Sleep(50).
SenderSynchronised == /\ sender = "sync"
                      /\ myThreadCount >= 2
                      /\ sender' = "send"
                      /\ UNCHANGED <<main, receiver, cs, loaded, myThreadCount,
                                     HostNum, ddmac, result, waited>>

SendRequest == /\ sender = "send"
               /\ HostNum' = (HostNum - 1) % WordSize
               /\ sender' = IF HostNum' = 0 THEN "pause" ELSE "send"
               /\ UNCHANGED <<main, receiver, cs, loaded, myThreadCount, ddmac,
                              result, waited>>

-----------------------------------------------------------------------------
(* The receiver                                                            *)

UserNamesHost == /\ receiver = "input"
                 /\ receiver' = "enter"
                 /\ UNCHANGED <<main, sender, cs, loaded, myThreadCount, HostNum,
                                ddmac, result, waited>>

\* Mutant: the receiver counts itself without entering the critical section.
ReceiverCounts_unguarded ==
    /\ \/ /\ receiver = "enter" /\ receiver' = "loop"
          /\ myThreadCount' = myThreadCount + 1
       \/ /\ receiver = "leave" /\ receiver' = "done"
          /\ myThreadCount' = myThreadCount - 1
    /\ UNCHANGED <<main, sender, cs, loaded, HostNum, ddmac, result, waited>>

ReceiverCounts == /\ \/ /\ receiver = "enter" /\ receiver' = "inc"
                        /\ Enter("receiver")
                     \/ /\ receiver = "inc" /\ receiver' = "loop"
                        /\ Leave("receiver", 1)
                     \/ /\ receiver = "leave" /\ receiver' = "dec"
                        /\ Enter("receiver")
                     \/ /\ receiver = "dec" /\ receiver' = "done"
                        /\ Leave("receiver", -1)
                  /\ UNCHANGED <<main, sender, HostNum, ddmac, result, waited>>

\* Mutant: the counter is set before the address is copied.
TakeReply_early == /\ \/ /\ receiver = "loop" /\ receiver' = "write"
                         /\ myThreadCount' = -1
                         /\ ddmac' = "torn"
                      \/ /\ receiver = "write" /\ receiver' = "leave"
                         /\ ddmac' = "new"
                         /\ UNCHANGED myThreadCount
                   /\ UNCHANGED <<main, sender, cs, loaded, HostNum, result, waited>>

\* The reply of the named host: its address is copied byte by byte, and the
\* counter set without entering the critical section.
TakeReply == /\ \/ /\ receiver = "loop" /\ receiver' = "write"
                   /\ ddmac' = "torn"
                   /\ UNCHANGED myThreadCount
                \/ /\ receiver = "write" /\ receiver' = "found"
                   /\ ddmac' = "new"
                   /\ UNCHANGED myThreadCount
                \/ /\ receiver = "found" /\ receiver' = "leave"
                   /\ myThreadCount' = -1
                   /\ UNCHANGED ddmac
             /\ UNCHANGED <<main, sender, cs, loaded, HostNum, result, waited>>

\* Another packet, or none within 10 ms: the loop goes on while the counter
\* says that the sender runs.
OtherPacket == /\ receiver = "loop"
               /\ receiver' = IF myThreadCount < 2 THEN "leave" ELSE "loop"
               /\ UNCHANGED <<main, sender, cs, loaded, myThreadCount, HostNum,
                              ddmac, result, waited>>

-----------------------------------------------------------------------------

ArpNext == \/ Open \/ Sleep \/ Poll
           \/ SenderCounts \/ SenderSynchronised \/ SendRequest
           \/ UserNamesHost \/ ReceiverCounts \/ TakeReply \/ OtherPacket

\* The system schedules every thread, and pcap_next_ex returns within 10 ms.
\* A reply need not come, but once one has come the receiver goes on with it.
ArpFairness == /\ WF_arpVars(Sleep) /\ WF_arpVars(Poll)
               /\ SF_arpVars(SenderCounts) /\ WF_arpVars(SenderSynchronised)
               /\ WF_arpVars(SendRequest)
               /\ SF_arpVars(ReceiverCounts) /\ WF_arpVars(OtherPacket)
               /\ WF_arpVars(receiver # "loop" /\ TakeReply)

ArpSpec == ArpInit /\ [][ArpNext]_arpVars /\ ArpFairness

-----------------------------------------------------------------------------
(* Properties                                                              *)

\* Until a reply is found, the counter is exactly the number of threads that
\* have entered and not left, so its two tests (both threads there, a thread
\* still there) mean what they are meant to.
Inside == (IF sender \in {"sync", "send", "pause", "dec"} THEN {"sender"} ELSE {})
          \cup (IF receiver \in {"loop", "write", "found", "leave", "dec"}
                THEN {"receiver"} ELSE {})

CountExact == ddmac # "new" => myThreadCount = Cardinality(Inside)

\* A caller that has seen a thread running is never given an address that the
\* receiver is writing, nor the old one when the reply has come: the counter
\* is touched after the address is complete.
ResultComplete == main = "done" /\ waited => result = ddmac /\ ddmac # "torn"

\* Once the sender has met the receiver, the caller returns: whatever becomes
\* of the counter (the unguarded -1 may overwrite a decrement or be
\* overwritten by one) it ends at 0 or below, and stays there.
ReturnsOnceSynchronised == sender = "send" ~> main = "done"
=============================================================================
