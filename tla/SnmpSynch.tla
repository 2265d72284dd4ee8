----------------------------- MODULE SnmpSynch -----------------------------
(***************************************************************************)
(* snmp_synch_response_cb and its callback snmp_synch_input                *)
(* (snmp/snmp_client.c) on top of a session: the blocking call that sends  *)
(* one request and returns when that request has an outcome.  During a     *)
(* call the session's callback is snmp_synch_input; only a call reads      *)
(* packets and runs timeouts, so between calls the session just ages.      *)
(*                                                                         *)
(* A call may end while its request still waits (select fails, or a PDU    *)
(* that is no answer carries its request id).  Such a request stays on the *)
(* list and is met again by later calls.                                   *)
(***************************************************************************)
EXTENDS SnmpSession

VARIABLES
    current,     \* state->reqid: the request of the running, or last, call
    inCall,      \* a call of snmp_synch_response_cb is running
    waiting,     \* state->waiting
    status,      \* state->status
    clone,       \* state->pdu: the request whose answer was cloned, or NoReq
    discarded,   \* the requests snmp_synch_response_cb freed itself
    readable     \* the socket holds a packet that is no news, or a signal is pending

callVars == <<current, inCall, waiting, status, clone, discarded, readable>>

synchVars == <<vars, callVars>>

\* "none" is the 0 of the memset, which STAT_SUCCESS is as well: it is never
\* returned, because whatever ends the wait sets a status.
Status == {"none", "success", "timeout", "error"}

SynchTypeOK == /\ TypeOK
               /\ current \in Req \cup {NoReq}
               /\ inCall \in BOOLEAN
               /\ waiting \in BOOLEAN
               /\ status \in Status
               /\ clone \in Req \cup {NoReq}
               /\ discarded \subseteq Req
               /\ readable \in BOOLEAN

SynchInit == /\ Init
             /\ current = NoReq
             /\ inCall = FALSE
             /\ waiting = FALSE
             /\ status = "none"
             /\ clone = NoReq
             /\ discarded = {}
             /\ readable = FALSE

-----------------------------------------------------------------------------

\* Mutant: state->pdu is not reset.
ResetState_not == UNCHANGED clone

ResetState == clone' = NoReq

\* snmp_free_pdu.
Discard(r) == discarded' = discarded \cup {r}

\* The call takes effect up to its loop.  A request the session refuses is
\* freed on the spot.
Begin(r) ==
    /\ ~inCall
    /\ current' = r
    /\ inCall' = TRUE
    /\ UNCHANGED readable
    /\ ResetState
    /\ \/ /\ Send(r, FALSE)
          /\ waiting' = TRUE
          /\ status' = "none"
          /\ UNCHANGED discarded
       \/ /\ Refuse(r)
          /\ waiting' = FALSE
          /\ status' = "error"
          /\ Discard(r)

\* Mutant: the loop is not told that its wait is over.
Wake_silent(s, c) == /\ status' = s
                     /\ clone' = c
                     /\ UNCHANGED <<current, inCall, waiting, discarded, readable>>

\* snmp_synch_input tells the loop how its wait ends.
Wake(s, c) == /\ waiting' = FALSE
              /\ status' = s
              /\ clone' = c
              /\ UNCHANGED <<current, inCall, discarded, readable>>

\* Mutant: the answer to any request ends the wait.
ReadAnswer_any(m, r) == /\ waiting
                        /\ Answer(m, r)
                        /\ Wake("success", r)

\* The loop waits for input or for the first timer: it reads a packet when
\* there is one.  An answer to an older request makes the callback return 0,
\* which changes nothing.  Without memory snmp_clone_pdu returns NULL, and the
\* call succeeds all the same.
ReadAnswer(m, r) == /\ waiting
                    /\ r = current
                    /\ Answer(m, r)
                    /\ \E c \in {r, NoReq} : Wake("success", c)

\* A report is let through whatever request it is for.
ReadReport(m, r) == /\ waiting
                    /\ \/ /\ FinalReport(m, r)
                          /\ Wake("error", NoReq)
                       \/ /\ TimeWindowReport(m, r)
                          /\ status' = "error"
                          /\ clone' = NoReq
                          /\ UNCHANGED <<current, inCall, waiting, discarded, readable>>

\* A PDU that is neither response nor report and carries the request id of
\* the running call: the call fails, its request stays on the list.
ReadStray == /\ waiting
             /\ due = {}
             /\ Wake("error", clone)
             /\ UNCHANGED vars

SelectFails == /\ waiting
               /\ due = {}
               /\ Wake("error", clone)
               /\ UNCHANGED vars

\* While the loop waits, something comes that is no news to it: a packet that
\* matches no request, or a signal.
Arrive == /\ waiting
          /\ ~readable
          /\ readable' = TRUE
          /\ UNCHANGED <<vars, current, inCall, waiting, status, clone, discarded>>

\* The packet is read and changes nothing, or select fails with EINTR.  Either
\* way the loop goes round without calling snmp_timeout.
ReadNothing == /\ waiting
               /\ due = {}
               /\ readable
               /\ readable' = FALSE
               /\ UNCHANGED <<vars, current, inCall, waiting, status, clone, discarded>>

\* select returns 0 once the earliest timer has come to 0, if there is nothing to
\* read; snmp_timeout then finds something to do only if it is past 0.
TimersDue == \E r \in Queued : left[r] <= 0

RunTimeout == /\ waiting
              /\ ~readable
              /\ TimersDue
              /\ StartTimeout
              /\ UNCHANGED callVars

\* Mutant: the callback never recognises its own request.
LoopTimeout_deaf == /\ \E r \in Req : Retry(r) \/ GiveUp(r)
                    /\ UNCHANGED callVars

\* Mutant: the callback does not look whose request was given up.
LoopTimeout_any == \E r \in Req : \/ /\ GiveUp(r)
                                    /\ Wake("timeout", NoReq)
                                 \/ /\ Retry(r)
                                    /\ UNCHANGED callVars

\* The callback of a request given up ends the wait only if it is the
\* request of this call.
LoopTimeout == \/ /\ inCall
                  /\ current \in due
                  /\ GiveUp(current)
                  /\ Wake("timeout", NoReq)
               \/ /\ \E r \in Req : Retry(r) \/ (r # current /\ GiveUp(r))
                  /\ UNCHANGED callVars

TimePasses == /\ Tick
              /\ UNCHANGED callVars

\* The loop is left and the session's own callback put back.
Return == /\ inCall
          /\ ~waiting
          /\ due = {}
          /\ inCall' = FALSE
          /\ UNCHANGED <<vars, current, waiting, status, clone, discarded, readable>>

CloseSession == /\ ~inCall
                /\ Close
                /\ UNCHANGED callVars

InCallStep == \/ \E m \in sent, r \in Req : ReadAnswer(m, r) \/ ReadReport(m, r)
              \/ ReadStray
              \/ ReadNothing
              \/ SelectFails
              \/ RunTimeout
              \/ LoopTimeout
              \/ Return

SynchNext == \/ \E r \in Req : Begin(r)
             \/ InCallStep
             \/ Arrive
             \/ TimePasses
             \/ CloseSession

SynchSpec == SynchInit /\ [][SynchNext]_synchVars

\* The loop of the call never pauses, and time passes.  What comes to the
\* socket, and whether there is memory, is not for the program to say.
SynchFairness == /\ WF_synchVars(TimePasses)
                 /\ WF_synchVars(ReadNothing)
                 /\ WF_synchVars(RunTimeout)
                 /\ WF_synchVars(LoopTimeout)
                 /\ WF_synchVars(Return)

SynchFairSpec == SynchSpec /\ SynchFairness

-----------------------------------------------------------------------------
(* Properties                                                              *)

\* While the loop waits, its request is on the list with a timer running.
\* Otherwise select could be told to block without a timeout, for good.
WaitHasTimer == waiting => /\ inCall
                           /\ current \in Queued

\* The call's result is the fate of its own request, even when answers,
\* duplicates and timeouts of older requests arrive while it waits.
ResultIsOwn == /\ status = "success" => /\ clone \in {current, NoReq}
                                        /\ outcome[current] = "answered"
               /\ status = "timeout" => outcome[current] = "timedout"
               /\ clone # NoReq => status = "success"

\* Every request has one owner that frees it: the session, or the call that
\* could not hand it over.
OneOwner == \A r \in Req : r \in discarded <=> outcome[r] = "refused"

\* Whatever becomes of an older request while a call runs (its late answer,
\* its repetitions, its timeout) leaves the call's own wait and result alone.
\* Only a version-3 report is let through to a call it does not belong to.
OlderRequestsSilent ==
    [][\A r \in Req \ {current} :
          version = 1 /\ inCall /\ r \in Queued /\ <<outcome[r], retries[r]>>' # <<outcome[r], retries[r]>>
             => UNCHANGED <<waiting, status, clone>>]_synchVars

\* The call does to the session only what an application may do to it.
UsesSession == Spec

\* Every call returns, unless there is always something to read when its timer
\* has expired, for snmp_timeout is only called when there is nothing, or memory
\* for a repetition is refused again and again.
CallReturns == \/ inCall ~> ~inCall
               \/ []<><<ReadNothing>>_synchVars
               \/ []<><<OutOfMemory>>_synchVars
=============================================================================
