---------------------------- MODULE SnmpSession ----------------------------
(***************************************************************************)
(* One SNMP session of snmp/snmp_api.c: the list of requests that wait for *)
(* an answer, and everything that can happen to a request on it: it is     *)
(* sent, answered, reported on, repeated, given up, or dropped when the    *)
(* session closes.                                                         *)
(*                                                                         *)
(* A request is identified by its request id; snmp_get_next_msgid gives    *)
(* every transmission a message id of its own, and rp->retries grows with  *)
(* each one, so the pair <<request, retries>> stands for the message id.   *)
(* The network may lose, delay, duplicate and reorder: an answer to any    *)
(* message ever transmitted may arrive at any time, any number of times.   *)
(***************************************************************************)
EXTENDS Integers, SequencesExt

CONSTANTS Req,        \* the request PDUs an application may send
          NoReq,      \* the NULL of isp->requestsEnd
          Retries,    \* sp->retries
          Timeout     \* sp->timeout, in clock ticks

ASSUME SessionAssumption == /\ NoReq \notin Req
                            /\ Retries \in Nat
                            /\ Timeout \in Nat \ {0}

VARIABLES
    version,       \* 1 or 3: the protocol version of the session
    open,          \* FALSE once snmp_sess_close has run
    requests,      \* isp->requests: the list, first to last
    requestsEnd,   \* isp->requestsEnd
    callback,      \* rp->callback is set (else the session's callback is used)
    retries,       \* rp->retries
    left,          \* rp->expireM minus the clock; -1 stands for every negative value
    due,           \* the expired requests the running snmp_sess_timeout has not reached
    sent,          \* every message put on the wire so far
    outcome,       \* what became of each request
    freed          \* how often each request's PDU was freed by the session

vars == <<version, open, requests, requestsEnd, callback, retries, left, due,
          sent, outcome, freed>>

Version == {1, 3}

Message == [req : Req, try : 0 .. Retries + 1]

Outcome == {"unsent", "waiting", "refused", "notified",
            "answered", "reported", "timedout", "dropped"}

Queued == Range(requests)

TypeOK == /\ version \in Version
          /\ open \in BOOLEAN
          /\ requests \in Seq(Req)
          /\ requestsEnd \in Req \cup {NoReq}
          /\ callback \in [Req -> BOOLEAN]
          /\ retries \in [Req -> 0 .. Retries + 1]
          /\ left \in [Req -> -1 .. Timeout]
          /\ due \subseteq Queued
          /\ sent \subseteq Message
          /\ outcome \in [Req -> Outcome]
          /\ freed \in [Req -> Nat]

Init == /\ version \in Version
        /\ open = TRUE
        /\ requests = <<>>
        /\ requestsEnd = NoReq
        /\ callback = [r \in Req |-> FALSE]
        /\ retries = [r \in Req |-> 0]
        /\ left = [r \in Req |-> 0]
        /\ due = {}
        /\ sent = {}
        /\ outcome = [r \in Req |-> "unsent"]
        /\ freed = [r \in Req |-> 0]

-----------------------------------------------------------------------------
(* The list.  requestsEnd is a pointer of its own, kept by hand.            *)

Position(r) == IF r \in Queued THEN CHOOSE i \in DOMAIN requests : requests[i] = r
                               ELSE 0

\* A new request goes behind requestsEnd, or to the head when that is NULL.
Append_rp(r) == /\ requests' = InsertAt(requests, Position(requestsEnd) + 1, r)
                /\ requestsEnd' = r

\* Mutant: requestsEnd is not corrected.
Unlink_rp_only(r) == /\ requests' = RemoveAt(requests, Position(r))
                     /\ UNCHANGED requestsEnd

\* orp, the request before rp, takes over rp's successor and, if rp was the
\* last one, the role of requestsEnd.
Unlink_rp(r) ==
    LET i   == Position(r)
        orp == IF i = 1 THEN NoReq ELSE requests[i - 1]
    IN  /\ requests' = RemoveAt(requests, i)
        /\ requestsEnd' = IF requestsEnd = r THEN orp ELSE requestsEnd

\* Mutant: snmp_free_pdu is left out.
Finish_keeps(r, how) == /\ Unlink_rp(r)
                        /\ outcome' = [outcome EXCEPT ![r] = how]
                        /\ UNCHANGED freed
                        /\ left' = [left EXCEPT ![r] = 0]

\* The request leaves the list with an outcome, and its PDU is freed.
Finish(r, how) == /\ Unlink_rp(r)
                  /\ outcome' = [outcome EXCEPT ![r] = how]
                  /\ freed' = [freed EXCEPT ![r] = @ + 1]
                  /\ left' = [left EXCEPT ![r] = 0]

Transmit(r, try) == sent' = sent \cup {[req |-> r, try |-> try]}

-----------------------------------------------------------------------------
(* snmp_async_send.  An application may call it from a callback too, so it  *)
(* is possible while snmp_sess_timeout runs.                                *)

Send(r, cb) == /\ open
               /\ outcome[r] = "unsent"
               /\ Transmit(r, 0)
               /\ Append_rp(r)
               /\ callback' = [callback EXCEPT ![r] = cb]
               /\ left' = [left EXCEPT ![r] = Timeout]
               /\ outcome' = [outcome EXCEPT ![r] = "waiting"]
               /\ UNCHANGED <<version, open, retries, due, freed>>

\* The PDU stays with the caller: it could not be built or is too long, the
\* transport failed, or (the message is out by then) there was no memory for
\* the list entry.
Refuse(r) == /\ open
             /\ outcome[r] = "unsent"
             /\ Transmit(r, 0) \/ UNCHANGED sent
             /\ outcome' = [outcome EXCEPT ![r] = "refused"]
             /\ UNCHANGED <<version, open, requests, requestsEnd, callback,
                            retries, left, due, freed>>

\* A trap or response expects no answer: it is transmitted and freed.
Notify(r) == /\ open
             /\ outcome[r] = "unsent"
             /\ Transmit(r, 0)
             /\ outcome' = [outcome EXCEPT ![r] = "notified"]
             /\ freed' = [freed EXCEPT ![r] = @ + 1]
             /\ UNCHANGED <<version, open, requests, requestsEnd, callback,
                            retries, left, due>>

-----------------------------------------------------------------------------
(* snmp_resend_request, always called with incr_retries = TRUE.  The retry  *)
(* is counted, and the message id replaced, before the transport can fail;  *)
(* only a transmission that succeeds restarts the timer.  Without memory    *)
(* for the packet it returns before all that, and says 0, as for success.   *)

Result == {"sent", "failed", "nomemory"}

\* Mutant: a repetition counts only if it could be transmitted.
Resend_uncounted(r, result) ==
    /\ IF result = "sent" THEN /\ Transmit(r, retries[r] + 1)
                               /\ retries' = [retries EXCEPT ![r] = @ + 1]
                               /\ left' = [left EXCEPT ![r] = Timeout]
                          ELSE UNCHANGED <<sent, retries, left>>
    /\ UNCHANGED <<version, open, requests, requestsEnd, callback, outcome, freed>>

Resend(r, result) ==
    /\ retries' = IF result = "nomemory" THEN retries ELSE [retries EXCEPT ![r] = @ + 1]
    /\ IF result = "sent" THEN /\ Transmit(r, retries[r] + 1)
                               /\ left' = [left EXCEPT ![r] = Timeout]
                          ELSE UNCHANGED <<sent, left>>
    /\ UNCHANGED <<version, open, requests, requestsEnd, callback, outcome, freed>>

-----------------------------------------------------------------------------
(* _sess_process_packet for an answer to message m.  Protocol version 3     *)
(* looks the request up by message id, version 1 by request id.  A message  *)
(* that matches nothing, or a callback that does not return 1, changes      *)
(* nothing.                                                                 *)

\* Mutant: requests that have left the list are matched too.
Matches_any(m, r) == /\ m.req = r
                     /\ version = 3 => m.try = retries[r]

Matches(m, r) == /\ r \in Queued
                 /\ m.req = r
                 /\ version = 3 => m.try = retries[r]

Reading(m, r) == /\ open
                 /\ due = {}
                 /\ Matches(m, r)

Answer(m, r) == /\ Reading(m, r)
                /\ Finish(r, "answered")
                /\ UNCHANGED <<version, open, callback, retries, due, sent>>

\* A version-3 report that says notInTimeWindow repeats the request at once,
\* as long as rp->retries <= sp->retries.
TimeWindowReport(m, r) ==
    /\ Reading(m, r)
    /\ version = 3
    /\ retries[r] <= Retries
    /\ \E result \in Result : Resend(r, result)
    /\ UNCHANGED due

\* Any other report, and a notInTimeWindow that comes when the retries are
\* used up, ends the request.
FinalReport(m, r) == /\ Reading(m, r)
                     /\ version = 3
                     /\ Finish(r, "reported")
                     /\ UNCHANGED <<version, open, callback, retries, due, sent>>

ProcessPacket == \E m \in sent, r \in Req : \/ Answer(m, r)
                                            \/ TimeWindowReport(m, r)
                                            \/ FinalReport(m, r)

-----------------------------------------------------------------------------
(* snmp_sess_timeout.  The clock is read once, at the start; the loop then  *)
(* takes the expired requests in list order, and stops at the first one     *)
(* that cannot be repeated.                                                 *)

Tick == /\ open
        /\ left' = [r \in Req |-> IF r \in Queued /\ left[r] > -1
                                  THEN left[r] - 1 ELSE left[r]]
        /\ UNCHANGED <<version, open, requests, requestsEnd, callback, retries,
                       due, sent, outcome, freed>>

Expired == {r \in Queued : left[r] < 0}

StartTimeout == /\ open
                /\ due = {}
                /\ due' = Expired
                /\ UNCHANGED <<version, open, requests, requestsEnd, callback,
                               retries, left, sent, outcome, freed>>

FirstDue(r) == /\ r \in due
               /\ \A q \in due : Position(r) <= Position(q)

GiveUp(r) == /\ FirstDue(r)
             /\ retries[r] >= Retries
             /\ Finish(r, "timedout")
             /\ due' = due \ {r}
             /\ UNCHANGED <<version, open, callback, retries, sent>>

Repeat(r, result) == /\ FirstDue(r)
                     /\ retries[r] < Retries
                     /\ Resend(r, result)
                     /\ due' = IF result = "failed" THEN {} ELSE due \ {r}

Retry(r) == \E result \in Result : Repeat(r, result)

\* The request stays expired, and the next call of snmp_timeout meets it again.
OutOfMemory == \E r \in Req : Repeat(r, "nomemory")

TimeoutStep == \E r \in Req : GiveUp(r) \/ Retry(r)

-----------------------------------------------------------------------------
(* snmp_sess_close: a request with a callback of its own is reported timed  *)
(* out, any other one just disappears.                                      *)

Close == /\ open
         /\ due = {}
         /\ open' = FALSE
         /\ outcome' = [r \in Req |-> IF r \notin Queued THEN outcome[r]
                                      ELSE IF callback[r] THEN "timedout"
                                      ELSE "dropped"]
         /\ freed' = [r \in Req |-> IF r \in Queued THEN freed[r] + 1 ELSE freed[r]]
         /\ left' = [r \in Req |-> 0]
         /\ requests' = <<>>
         /\ requestsEnd' = NoReq
         /\ UNCHANGED <<version, callback, retries, due, sent>>

-----------------------------------------------------------------------------

Next == \/ \E r \in Req : \/ \E cb \in BOOLEAN : Send(r, cb)
                          \/ Refuse(r)
                          \/ Notify(r)
        \/ ProcessPacket
        \/ Tick
        \/ StartTimeout
        \/ TimeoutStep
        \/ Close

Spec == Init /\ [][Next]_vars

\* Time passes, and the application keeps calling snmp_timeout, which then
\* runs its loop to the end: what snmp_synch_response_cb does by itself and
\* what session_api.h asks of anyone else.
Fairness == WF_vars(Tick) /\ WF_vars(StartTimeout) /\ WF_vars(TimeoutStep)

FairSpec == Spec /\ Fairness

-----------------------------------------------------------------------------
(* Properties                                                              *)

\* requestsEnd, which every unlinking and appending patches by hand, is the
\* last request of the list (NULL when it is empty), no request is on the list
\* twice, and exactly the requests still waiting are on it.
ListIntact ==
    /\ requestsEnd = IF requests = <<>> THEN NoReq ELSE Last(requests)
    /\ IsInjective(requests)
    /\ \A r \in Req : r \in Queued <=> outcome[r] = "waiting"

\* Whatever the order of answers, reports, timeouts and close, the PDU of a
\* request the session took is freed once when the request ends, never before
\* and never again, and one it refused is left to the caller.
FreedOnce ==
    \A r \in Req : freed[r] = IF outcome[r] \in {"unsent", "waiting", "refused"}
                              THEN 0 ELSE 1

\* A version-1 request is repeated at most sp->retries times.  The test in
\* _sess_process_packet (<=, where snmp_sess_timeout has <) allows a version-3
\* request one repetition more, and no sequence of reports more than that.
RepetitionsBounded ==
    \A r \in Req : retries[r] <= IF version = 3 THEN Retries + 1 ELSE Retries

\* Nothing on the wire carries a message id its request has not reached, and
\* nothing is on the wire for a request never handed over: an answer that
\* matches by message id answers the latest repetition and no other.
NoMessageFromTheFuture ==
    \A m \in sent : m.try <= retries[m.req] /\ outcome[m.req] # "unsent"

\* Closing leaves nothing behind: no request waits on a closed session and
\* none can time out on it.
ClosedIsEmpty == ~open => /\ \A r \in Req : outcome[r] # "waiting"
                          /\ due = {}

\* The session keeps the promise of RequestPromise: every outcome is final.
Promise == INSTANCE RequestPromise WITH tries <- retries, MaxTries <- Retries + 1
KeepsPromise == Promise!Spec

\* Every request that was taken comes to an end, even if the transport fails
\* at every repetition and the agent keeps sending reports; only if memory for
\* a repetition is refused again and again, it may wait for ever.
EventuallySettled ==
    \/ \A r \in Req : outcome[r] = "waiting" ~> outcome[r] \in Promise!Settled
    \/ []<><<OutOfMemory>>_vars
=============================================================================
