--------------------------- MODULE AfdxSnmpProofs ---------------------------
(***************************************************************************)
(* Proofs about the program's own code: the blocking calls and main, for   *)
(* any number of calls, retries and any timeout, on top of the invariant   *)
(* of the session; the board, for any messages, queues and transmissions,  *)
(* with commands failing at will; the ARP lookup, for any subnet and any   *)
(* word size; and last the three of them side by side.                     *)
(***************************************************************************)
EXTENDS AfdxSnmp, SnmpSessionProofs, FiniteSetTheorems, TLAPS

-----------------------------------------------------------------------------
(* The invariant of the calls                                              *)

CallTyped == /\ current \in Req \cup {NoReq}
             /\ inCall \in BOOLEAN
             /\ waiting \in BOOLEAN
             /\ status \in Status
             /\ clone \in Req \cup {NoReq}
             /\ discarded \subseteq Req
             /\ readable \in BOOLEAN

\* While the loop waits nothing has come of its request yet.
Waits == waiting => /\ inCall
                    /\ current \in Req
                    /\ outcome[current] = "waiting"
                    /\ status \in {"none", "error"}

\* A call that has a result has a request.
Reported == status \in {"success", "timeout"} => current \in Req

SynchIInv == IInv /\ CallTyped /\ Waits /\ Reported /\ ResultIsOwn /\ OneOwner

LEMMA SynchInitIInv == SynchInit => SynchIInv
<1> SUFFICES ASSUME SynchInit PROVE SynchIInv
  OBVIOUS
<1>1. IInv
  BY InitIInv DEF SynchInit
<1>2. CallTyped /\ Waits /\ Reported /\ ResultIsOwn
  BY DEF SynchInit, CallTyped, Status, Waits, Reported, ResultIsOwn
<1>3. OneOwner
  BY DEF SynchInit, Init, OneOwner
<1> QED
  BY <1>1, <1>2, <1>3 DEF SynchIInv

-----------------------------------------------------------------------------
(* What a call does to the session                                         *)

\* A request that ends has waited, and no other request changes.
LEMMA Ends ==
    ASSUME IInv, NEW r \in Queued, NEW how \in Promise!Settled, Finish(r, how)
    PROVE  /\ r \in Req
           /\ outcome[r] = "waiting"
           /\ outcome' = [outcome EXCEPT ![r] = how]
           /\ outcome \in [Req -> Outcome]
BY QueuedIsReq DEF IInv, TypeOK, ListIntact, Finish

LEMMA Given == ASSUME IInv, NEW r, GiveUp(r)
               PROVE  /\ r \in Req /\ r \in Queued
                      /\ outcome[r] = "waiting"
                      /\ outcome' = [outcome EXCEPT ![r] = "timedout"]
                      /\ outcome \in [Req -> Outcome]
<1>1. r \in Queued
  BY DEF GiveUp, FirstDue, IInv, TypeOK
<1>2. Finish(r, "timedout") /\ "timedout" \in Promise!Settled
  BY DEF GiveUp, Promise!Settled
<1> QED
  BY <1>1, <1>2, Ends

\* Every step of a call is a step of the session, or leaves it alone.
LEMMA SessionStep == IInv /\ [SynchNext]_synchVars => [Next]_vars
<1> SUFFICES ASSUME IInv, [SynchNext]_synchVars PROVE [Next]_vars
  OBVIOUS
<1>1. ASSUME NEW r \in Req, Begin(r) PROVE Next
  BY <1>1 DEF Begin, Next
<1>2. ASSUME NEW m \in sent, NEW r \in Req, ReadAnswer(m, r) \/ ReadReport(m, r)
      PROVE  Next
  BY <1>2 DEF ReadAnswer, ReadReport, ProcessPacket, Next
<1>3. ASSUME LoopTimeout PROVE Next
  <2>1. \E r \in Req : GiveUp(r) \/ Retry(r)
    BY <1>3, Given DEF LoopTimeout
  <2> QED
    BY <2>1 DEF TimeoutStep, Next
<1>4. CASE \/ ReadStray \/ ReadNothing \/ Arrive \/ SelectFails \/ Return
           \/ UNCHANGED synchVars
  BY <1>4 DEF ReadStray, ReadNothing, Arrive, SelectFails, Return, synchVars
<1>5. CASE RunTimeout \/ TimePasses \/ CloseSession
  BY <1>5 DEF RunTimeout, TimePasses, CloseSession, Next
<1> QED
  BY <1>1, <1>2, <1>3, <1>4, <1>5 DEF SynchNext, InCallStep

-----------------------------------------------------------------------------
(* The steps.  What each lemma leaves to SessionStep is the session's part *)
(* of the invariant.                                                       *)

CallInv == CallTyped /\ Waits /\ Reported /\ ResultIsOwn /\ OneOwner

LEMMA BeginCallInv ==
    ASSUME SynchIInv, NEW r \in Req, Begin(r)
    PROVE  CallInv'
<1> USE DEF SynchIInv
<1>1. /\ current' = r /\ inCall' = TRUE /\ clone' = NoReq /\ UNCHANGED readable
      /\ outcome \in [Req -> Outcome] /\ outcome[r] = "unsent"
  BY DEF Begin, ResetState, Send, Refuse, IInv, TypeOK
<1>2. CASE /\ waiting' = TRUE /\ status' = "none"
           /\ outcome' = [outcome EXCEPT ![r] = "waiting"] /\ UNCHANGED discarded
  BY <1>1, <1>2 DEF CallInv, CallTyped, Status, Waits, Reported, ResultIsOwn, OneOwner
<1>3. CASE /\ waiting' = FALSE /\ status' = "error"
           /\ outcome' = [outcome EXCEPT ![r] = "refused"]
           /\ discarded' = discarded \cup {r}
  BY <1>1, <1>3 DEF CallInv, CallTyped, Status, Waits, Reported, ResultIsOwn, OneOwner
<1> QED
  BY <1>2, <1>3 DEF Begin, Send, Refuse, Discard

LEMMA ReadCallInv ==
    ASSUME SynchIInv, NEW m \in sent, NEW r \in Req,
           ReadAnswer(m, r) \/ ReadReport(m, r)
    PROVE  CallInv'
<1> USE DEF SynchIInv
<1>1. r \in Queued
  BY DEF ReadAnswer, ReadReport, Answer, FinalReport, TimeWindowReport, Reading,
         Matches
<1>2. CASE ReadAnswer(m, r)
  <2>1. Finish(r, "answered") /\ "answered" \in Promise!Settled
    BY <1>2 DEF ReadAnswer, Answer, Promise!Settled
  <2>2. /\ r \in Req /\ outcome[r] = "waiting" /\ outcome \in [Req -> Outcome]
        /\ outcome' = [outcome EXCEPT ![r] = "answered"]
    BY <1>1, <2>1, Ends
  <2>3. /\ r = current /\ waiting' = FALSE /\ status' = "success"
        /\ clone' \in {r, NoReq}
        /\ UNCHANGED <<current, inCall, discarded, readable>>
    BY <1>2 DEF ReadAnswer, Wake
  <2> QED
    BY <2>2, <2>3, SessionAssumption
       DEF CallInv, CallTyped, Status, Waits, Reported, ResultIsOwn, OneOwner
<1>3. CASE waiting /\ FinalReport(m, r) /\ Wake("error", NoReq)
  <2>1. Finish(r, "reported") /\ "reported" \in Promise!Settled
    BY <1>3 DEF FinalReport, Promise!Settled
  <2>2. /\ r \in Req /\ outcome[r] = "waiting" /\ outcome \in [Req -> Outcome]
        /\ outcome' = [outcome EXCEPT ![r] = "reported"]
    BY <1>1, <2>1, Ends
  <2> QED
    BY <1>3, <2>2
       DEF Wake, CallInv, CallTyped, Status, Waits, Reported, ResultIsOwn, OneOwner
<1>4. CASE /\ waiting /\ TimeWindowReport(m, r) /\ status' = "error" /\ clone' = NoReq
           /\ UNCHANGED <<current, inCall, waiting, discarded, readable>>
  <2>1. UNCHANGED outcome
    BY <1>4 DEF TimeWindowReport, Resend
  <2> QED
    BY <1>4, <2>1 DEF CallInv, CallTyped, Status, Waits, Reported, ResultIsOwn, OneOwner
<1> QED
  BY <1>2, <1>3, <1>4 DEF ReadReport

LEMMA TimeoutCallInv == SynchIInv /\ LoopTimeout => CallInv'
<1> SUFFICES ASSUME SynchIInv, LoopTimeout PROVE CallInv'
  OBVIOUS
<1> USE DEF SynchIInv
<1>1. CASE inCall /\ GiveUp(current) /\ Wake("timeout", NoReq)
  BY <1>1, Given
     DEF Wake, CallInv, CallTyped, Status, Waits, Reported, ResultIsOwn, OneOwner
<1>2. ASSUME NEW r \in Req, r # current, GiveUp(r), UNCHANGED callVars PROVE CallInv'
  BY <1>2, Given
     DEF callVars, CallInv, CallTyped, Status, Waits, Reported, ResultIsOwn, OneOwner
<1>3. ASSUME NEW r \in Req, Retry(r), UNCHANGED callVars PROVE CallInv'
  <2>1. UNCHANGED outcome
    BY <1>3 DEF Retry, Repeat, Resend
  <2> QED
    BY <1>3, <2>1
       DEF callVars, CallInv, CallTyped, Status, Waits, Reported, ResultIsOwn, OneOwner
<1> QED
  BY <1>1, <1>2, <1>3 DEF LoopTimeout

LEMMA OtherCallInv ==
    SynchIInv /\ (\/ ReadStray \/ ReadNothing \/ Arrive \/ SelectFails \/ RunTimeout
                  \/ Return \/ TimePasses \/ UNCHANGED synchVars) => CallInv'
<1> SUFFICES ASSUME SynchIInv, \/ ReadStray \/ ReadNothing \/ Arrive \/ SelectFails
                               \/ RunTimeout \/ Return \/ TimePasses
                               \/ UNCHANGED synchVars
             PROVE  CallInv'
  OBVIOUS
<1> USE DEF SynchIInv
<1>1. UNCHANGED outcome
  BY DEF ReadStray, ReadNothing, Arrive, SelectFails, RunTimeout, StartTimeout, Return,
         TimePasses, Tick, synchVars, vars
<1>2. CASE ReadStray \/ SelectFails
  BY <1>1, <1>2 DEF ReadStray, SelectFails, Wake, CallInv, CallTyped, Status, Waits,
                    Reported, ResultIsOwn, OneOwner
<1>3. CASE ReadNothing \/ Arrive
  <2>1. /\ UNCHANGED <<current, inCall, waiting, status, clone, discarded>>
        /\ readable' \in BOOLEAN
    BY <1>3 DEF ReadNothing, Arrive
  <2> QED
    BY <1>1, <2>1 DEF CallInv, CallTyped, Waits, Reported, ResultIsOwn, OneOwner
<1>4. CASE Return
  <2>1. /\ inCall' = FALSE /\ ~waiting
        /\ UNCHANGED <<current, waiting, status, clone, discarded, readable>>
    BY <1>4 DEF Return
  <2> QED
    BY <1>1, <2>1 DEF CallInv, CallTyped, Waits, Reported, ResultIsOwn, OneOwner
<1>5. CASE UNCHANGED callVars
  BY <1>1, <1>5 DEF callVars, CallInv, CallTyped, Waits, Reported, ResultIsOwn,
                    OneOwner
<1> QED
  BY <1>2, <1>3, <1>4, <1>5 DEF RunTimeout, TimePasses, synchVars

\* Closing ends requests of earlier calls only: no call is running.
LEMMA CloseCallInv == SynchIInv /\ CloseSession => CallInv'
<1> SUFFICES ASSUME SynchIInv, CloseSession PROVE CallInv'
  OBVIOUS
<1> USE DEF SynchIInv
<1>1. ~waiting /\ UNCHANGED callVars
  BY DEF CloseSession, Waits
<1>2. \A r \in Req : /\ outcome[r] # "waiting" => outcome'[r] = outcome[r]
                     /\ outcome[r] = "waiting" => outcome'[r] \in {"timedout", "dropped"}
  BY DEF CloseSession, Close, IInv, ListIntact
<1> QED
  BY <1>1, <1>2
     DEF callVars, CallInv, CallTyped, Waits, Reported, ResultIsOwn, OneOwner

LEMMA SynchNextIInv == SynchIInv /\ [SynchNext]_synchVars => SynchIInv'
<1> SUFFICES ASSUME SynchIInv, [SynchNext]_synchVars PROVE SynchIInv'
  OBVIOUS
<1>1. IInv'
  BY SessionStep, NextIInv DEF SynchIInv
<1>2. CallInv'
  BY BeginCallInv, ReadCallInv, TimeoutCallInv, OtherCallInv, CloseCallInv
     DEF SynchNext, InCallStep
<1> QED
  BY <1>1, <1>2 DEF SynchIInv, CallInv

-----------------------------------------------------------------------------
(* Theorems about the calls                                                *)

\* The invariant holds for any sequence of calls, whatever they leave behind.
THEOREM SynchInvariance == SynchSpec => []SynchIInv
<1>1. SynchInit => SynchIInv
  BY SynchInitIInv
<1>2. SynchIInv /\ [SynchNext]_synchVars => SynchIInv'
  BY SynchNextIInv
<1> QED
  BY <1>1, <1>2, PTL DEF SynchSpec

\* snmp_synch_response_cb and its callback do to the session only what any
\* application may do, so that every theorem about the session holds here.
THEOREM CallUsesSession == SynchSpec => UsesSession
<1>1. SynchInit => Init
  BY DEF SynchInit
<1>2. SynchIInv /\ [SynchNext]_synchVars => [Next]_vars
  BY SessionStep DEF SynchIInv
<1> QED
  BY <1>1, <1>2, SynchInvariance, PTL DEF SynchSpec, UsesSession, Spec

\* The loop of snmp_synch_response_cb never waits without a timer of its own
\* request, so its select never blocks for good.
THEOREM WaitAlwaysHasTimer == SynchSpec => []WaitHasTimer
<1>1. SynchIInv => WaitHasTimer
  BY DEF SynchIInv, Waits, WaitHasTimer, IInv, ListIntact
<1> QED
  BY <1>1, SynchInvariance, PTL

\* snmp_synch_response_cb returns what has become of its own request.
THEOREM ResultAlwaysOwn == SynchSpec => []ResultIsOwn
<1>1. SynchIInv => ResultIsOwn
  BY DEF SynchIInv
<1> QED
  BY <1>1, SynchInvariance, PTL

\* Whoever the PDU is left to frees it: the session or snmp_synch_response_cb.
THEOREM AlwaysOneOwner == SynchSpec => []OneOwner
<1>1. SynchIInv => OneOwner
  BY DEF SynchIInv
<1> QED
  BY <1>1, SynchInvariance, PTL

\* Every reachable state of a call is well typed: discarded are only requests
\* that snmp_synch_response_cb was given, and a call in its loop is a call.
THEOREM CallTypeCorrect == SynchSpec => []SynchTypeOK
<1>1. SynchIInv => SynchTypeOK
  BY DEF SynchIInv, IInv, CallTyped, SynchTypeOK, Status
<1> QED
  BY <1>1, SynchInvariance, PTL

\* In version 1 the fate of a request an earlier call has left behind never
\* reaches the wait or the result of the call snmp_synch_input serves.
THEOREM OlderAlwaysSilent == SynchSpec => OlderRequestsSilent
<1> DEFINE Disturbed(r) == /\ version = 1 /\ inCall /\ r \in Queued
                           /\ <<outcome[r], retries[r]>>' # <<outcome[r], retries[r]>>
           Silent == UNCHANGED <<waiting, status, clone>>
<1>1. ASSUME SynchIInv, [SynchNext]_synchVars,
             NEW q \in Req \ {current}, Disturbed(q)
      PROVE  Silent
  <2> USE DEF SynchIInv
  <2>1. UNCHANGED synchVars => Silent
    BY DEF synchVars, callVars
  <2>2. ~ \E r \in Req : Begin(r)
    BY <1>1 DEF Begin
  <2>3. ASSUME NEW m \in sent, NEW r \in Req, ReadAnswer(m, r) PROVE FALSE
    <3>1. /\ r = current /\ r \in Queued
          /\ Finish(r, "answered") /\ "answered" \in Promise!Settled
          /\ UNCHANGED retries
      BY <2>3 DEF ReadAnswer, Answer, Reading, Matches, Promise!Settled
    <3>2. outcome' = [outcome EXCEPT ![r] = "answered"] /\ outcome \in [Req -> Outcome]
      BY <1>1, <3>1, Ends
    <3> QED
      BY <1>1, <3>1, <3>2
  <2>4. ~ \E m \in sent, r \in Req : ReadReport(m, r)
    BY <1>1 DEF ReadReport, FinalReport, TimeWindowReport
  <2>5. UNCHANGED vars => FALSE
    BY <1>1 DEF vars
  <2>6. ~ReadStray /\ ~ReadNothing /\ ~Arrive /\ ~SelectFails /\ ~Return
    BY <2>5 DEF ReadStray, ReadNothing, Arrive, SelectFails, Return
  <2>7. LoopTimeout => Silent
    <3>1. ASSUME GiveUp(current) PROVE FALSE
      <4>1. current \in Req /\ outcome' = [outcome EXCEPT ![current] = "timedout"]
            /\ outcome \in [Req -> Outcome] /\ UNCHANGED retries
        BY <1>1, <3>1, Given DEF GiveUp
      <4> QED
        BY <1>1, <4>1
    <3> QED
      BY <3>1 DEF LoopTimeout, callVars
  <2>8. RunTimeout \/ TimePasses \/ CloseSession => Silent
    BY DEF RunTimeout, TimePasses, CloseSession, callVars
  <2> QED
    BY <1>1, <2>1, <2>2, <2>3, <2>4, <2>6, <2>7, <2>8 DEF SynchNext, InCallStep
<1>2. SynchIInv /\ [SynchNext]_synchVars
        => [\A r \in Req \ {current} :
              version = 1 /\ inCall /\ r \in Queued
                /\ <<outcome[r], retries[r]>>' # <<outcome[r], retries[r]>>
                 => UNCHANGED <<waiting, status, clone>>]_synchVars
  BY <1>1
<1> QED
  BY <1>2, SynchInvariance, PTL DEF SynchSpec, OlderRequestsSilent

-----------------------------------------------------------------------------
(* The invariant of main                                                   *)

MainTyped == /\ pc \in {"open", "create", "retry", "result", "end", "exit", "crashed"}
             /\ created \subseteq Req
             /\ pdu \in Req \cup {NoReq}
             /\ response \in BOOLEAN

\* main makes its calls in one place, and no timeout loop outlives a call.
OneCall == /\ inCall => pc = "result"
           /\ ~inCall => due = {}

\* Before the first request there is nothing.
Nothing == pc \in {"open", "create"} => status = "none" /\ created = {} /\ ~response

\* The request to send is at hand, and no response.
Ready == pc = "retry" => pdu \in created /\ ~response

\* The running or last call is the one for the request at hand; it has no
\* response before it returns.
Calling == pc = "result" => /\ current = pdu /\ pdu \in Req
                            /\ inCall => ~response

\* Every request but the one to send next has been handed over.
HandedOver == \A r \in created : outcome[r] = "unsent" => pc = "retry" /\ r = pdu

Closed == pc = "exit" /\ status # "none" => ~open

MainInv == /\ MainTyped /\ OneCall /\ Nothing /\ Ready /\ Calling
           /\ HandedOver /\ Closed
           /\ NoResponseLeaks /\ (pc = "exit" => ~response)
           /\ ResultOfLatest

GetIInv == SynchIInv /\ MainInv

LEMMA GetInitIInv == GetInit => GetIInv
<1> SUFFICES ASSUME GetInit PROVE GetIInv
  OBVIOUS
<1>1. SynchIInv
  BY SynchInitIInv DEF GetInit
<1>2. ~inCall /\ due = {} /\ status = "none"
  BY DEF GetInit, SynchInit, Init
<1>3. MainInv
  BY <1>2 DEF GetInit, MainInv, MainTyped, OneCall, Nothing, Ready, Calling, HandedOver,
              Closed, NoResponseLeaks, ResultOfLatest, Returned
<1> QED
  BY <1>1, <1>3 DEF GetIInv

\* main does nothing to its session but make calls and close it.
LEMMA CallsStep == GetIInv /\ [GetNext]_getVars => [SynchNext]_synchVars
<1> SUFFICES ASSUME GetIInv, [GetNext]_getVars PROVE [SynchNext]_synchVars
  OBVIOUS
<1>1. CASE Call
  <2>1. Begin(pdu) /\ pdu \in Req
    BY <1>1 DEF Call, GetIInv, MainInv, MainTyped, Ready
  <2> QED
    BY <2>1 DEF SynchNext
<1>2. CASE InCall
  BY <1>2 DEF InCall, SynchNext
<1>3. CASE BadName \/ Finally \/ ClockTick \/ NoNews
  BY <1>3 DEF BadName, Finally, ClockTick, NoNews, SynchNext
<1>4. CASE \/ BoardLogin \/ CreateRequest \/ NoResponse \/ ShowVariables
           \/ FixAndRetry \/ Fail
  BY <1>4 DEF BoardLogin, CreateRequest, NoResponse, ShowVariables, FixAndRetry, Fail
<1>5. CASE UNCHANGED getVars
  BY <1>5 DEF getVars
<1> QED
  BY <1>1, <1>2, <1>3, <1>4, <1>5 DEF GetNext, MainStep

\* What a step of the running call does to the requests: none is unsent again.
LEMMA StaysSent ==
    ASSUME SynchIInv, InCallStep
    PROVE  \A q \in Req : outcome[q] # "unsent" => outcome'[q] # "unsent"
<1> USE DEF SynchIInv
<1>1. ASSUME NEW m \in sent, NEW r \in Req, ReadAnswer(m, r) \/ ReadReport(m, r)
      PROVE  \A q \in Req : outcome[q] # "unsent" => outcome'[q] # "unsent"
  <2>1. CASE Answer(m, r) \/ FinalReport(m, r)
    <3>1. /\ r \in Queued
          /\ \E how \in Promise!Settled : Finish(r, how) /\ how # "unsent"
      BY <2>1 DEF Answer, FinalReport, Reading, Matches, Promise!Settled
    <3> QED
      BY <3>1, Ends
  <2>2. CASE TimeWindowReport(m, r)
    BY <2>2 DEF TimeWindowReport, Resend
  <2> QED
    BY <1>1, <2>1, <2>2 DEF ReadAnswer, ReadReport
<1>2. CASE LoopTimeout
  <2>1. ASSUME NEW r, GiveUp(r)
        PROVE  \A q \in Req : outcome[q] # "unsent" => outcome'[q] # "unsent"
    BY <2>1, Given
  <2>2. ASSUME NEW r, Retry(r) PROVE UNCHANGED outcome
    BY <2>2 DEF Retry, Repeat, Resend
  <2> QED
    BY <1>2, <2>1, <2>2 DEF LoopTimeout
<1>3. CASE ReadStray \/ ReadNothing \/ SelectFails \/ RunTimeout \/ Return
  BY <1>3 DEF ReadStray, ReadNothing, SelectFails, RunTimeout, StartTimeout, Return, vars
<1> QED
  BY <1>1, <1>2, <1>3 DEF InCallStep

\* Outside a call nothing happens that only a call does.
LEMMA OnlyInCall == ASSUME SynchIInv, OneCall, InCallStep PROVE inCall
<1>1. waiting => inCall
  BY DEF SynchIInv, Waits
<1>2. LoopTimeout => due # {}
  BY DEF LoopTimeout, GiveUp, Retry, Repeat, FirstDue
<1> QED
  BY <1>1, <1>2 DEF OneCall, InCallStep, ReadAnswer, ReadReport, ReadStray, ReadNothing,
                    SelectFails, RunTimeout, Return

LEMMA StartMainInv ==
    ASSUME GetIInv, BoardLogin \/ CreateRequest \/ BadName
    PROVE  MainInv'
<1> USE DEF GetIInv, MainInv, MainTyped, OneCall, Nothing, Ready, Calling, HandedOver,
            Closed, NoResponseLeaks, ResultOfLatest, Returned
<1>1. CASE BoardLogin
  BY <1>1 DEF BoardLogin, synchVars, vars, callVars
<1>2. CASE CreateRequest
  BY <1>2 DEF CreateRequest, synchVars, vars, callVars
<1>3. CASE BadName
  BY <1>3 DEF BadName, CloseSession, Close, callVars
<1> QED
  BY <1>1, <1>2, <1>3

LEMMA CallMainInv == ASSUME GetIInv, Call PROVE MainInv'
<1> USE DEF GetIInv, MainInv
<1>1. /\ pdu \in Req /\ ~response /\ pc = "retry" /\ pc' = "result"
      /\ UNCHANGED <<pdu, created, response, responses>>
  BY DEF Call, MainTyped, Ready
<1>2. current' = pdu /\ inCall' = TRUE
  BY DEF Call, Begin
<1>3. HandedOver'
  <2>1. outcome \in [Req -> Outcome]
    BY DEF SynchIInv, IInv, TypeOK
  <2>2. \E how \in {"waiting", "refused"} : outcome' = [outcome EXCEPT ![pdu] = how]
    BY DEF Call, Begin, Send, Refuse
  <2> QED
    BY <1>1, <2>1, <2>2 DEF HandedOver, MainTyped
<1> QED
  BY <1>1, <1>2, <1>3 DEF MainTyped, OneCall, Nothing, Ready, Calling, Closed,
                          NoResponseLeaks, ResultOfLatest, Returned

\* The result is what the call has reported, and only at its return.
LEMMA InCallMainInv == ASSUME GetIInv, InCall PROVE MainInv'
<1> USE DEF GetIInv, MainInv
<1>1. /\ inCall /\ pc = "result" /\ pdu \in Req /\ current = pdu /\ ~response
      /\ UNCHANGED <<pc, pdu, created>>
  BY OnlyInCall DEF InCall, OneCall, Calling
<1>2. UNCHANGED current
  BY DEF InCall, InCallStep, ReadAnswer, ReadReport, ReadStray, ReadNothing, SelectFails,
         RunTimeout, LoopTimeout, Return, Wake, callVars
<1>3. HandedOver'
  BY <1>1, StaysSent DEF InCall, HandedOver, MainTyped
<1>4. CASE Return
  <2>1. /\ inCall' = FALSE /\ due' = {} /\ response' = (clone # NoReq)
        /\ responses' = responses + (IF clone # NoReq THEN 1 ELSE 0)
        /\ UNCHANGED <<status, outcome>>
    BY <1>4 DEF Return, InCall, vars
  <2>2. /\ clone # NoReq => status = "success"
        /\ status = "success" => outcome[current] = "answered"
    BY <1>1, SessionAssumption DEF SynchIInv, ResultIsOwn
  <2>3. responses' = IF response' THEN 1 ELSE 0
    <3>1. responses = 0
      BY <1>1 DEF NoResponseLeaks
    <3>2. CASE clone = NoReq
      <4>1. ~response'
        BY <2>1, <3>2
      <4>2. responses' = 0
        BY <2>1, <3>1, <3>2
      <4> QED
        BY <4>1, <4>2
    <3>3. CASE clone # NoReq
      <4>1. response'
        BY <2>1, <3>3
      <4>2. responses' = 1
        BY <2>1, <3>1, <3>3
      <4> QED
        BY <4>1, <4>2
    <3> QED
      BY <3>2, <3>3
  <2> QED
    BY <1>1, <1>2, <1>3, <2>1, <2>2, <2>3
       DEF MainTyped, OneCall, Nothing, Ready, Calling, Closed, NoResponseLeaks,
           ResultOfLatest, Returned
<1>5. CASE ~Return
  <2>1. inCall' = TRUE
    BY <1>1, <1>5 DEF InCall, InCallStep, ReadAnswer, ReadReport, ReadStray, ReadNothing,
                      SelectFails, RunTimeout, LoopTimeout, Wake, callVars
  <2>2. UNCHANGED <<response, responses>>
    BY <2>1 DEF InCall
  <2> QED
    BY <1>1, <1>2, <1>3, <2>1, <2>2
       DEF MainTyped, OneCall, Nothing, Ready, Calling, Closed, NoResponseLeaks,
           ResultOfLatest, Returned
<1> QED
  BY <1>4, <1>5

LEMMA AfterMainInv ==
    ASSUME GetIInv, NoResponse \/ ShowVariables \/ FixAndRetry \/ Fail
    PROVE  MainInv'
<1> USE DEF GetIInv, MainInv, MainTyped, OneCall, Nothing, Ready, Calling, HandedOver,
            Closed, NoResponseLeaks, ResultOfLatest, Returned
<1>1. CASE NoResponse \/ ShowVariables
  BY <1>1 DEF NoResponse, ShowVariables, Responded, synchVars, vars, callVars
<1>2. CASE FixAndRetry
  <2>1. /\ pc = "result" /\ ~inCall /\ response /\ responses = 1
        /\ response' = FALSE /\ responses' = 0
        /\ UNCHANGED synchVars
    BY <1>2 DEF FixAndRetry, Responded, FreeResponse
  <2>2. CASE \E r \in Req \ created : /\ pdu' = r
                                      /\ created' = created \cup {r}
                                      /\ pc' = "retry"
    BY <2>1, <2>2 DEF synchVars, vars, callVars
  <2>3. CASE pdu' = NoReq /\ pc' = "end" /\ UNCHANGED created
    BY <2>1, <2>3 DEF synchVars, vars, callVars
  <2> QED
    BY <1>2, <2>2, <2>3 DEF FixAndRetry
<1>3. CASE Fail
  BY <1>3 DEF Fail, synchVars, vars, callVars
<1> QED
  BY <1>1, <1>2, <1>3

LEMMA EndMainInv ==
    ASSUME GetIInv, Finally \/ ClockTick \/ NoNews \/ UNCHANGED getVars
    PROVE  MainInv'
<1> USE DEF GetIInv, MainInv
<1>1. CASE Finally
  <2>1. /\ pc = "end" /\ pc' = "exit" /\ ~inCall /\ open' = FALSE
        /\ response' = FALSE /\ responses' = 0
        /\ UNCHANGED <<pdu, created, current, inCall, status, due>>
    BY <1>1 DEF Finally, CloseSession, Close, callVars, NoResponseLeaks, MainTyped
  <2>2. HandedOver'
    <3>1. \A r \in Req : outcome[r] # "unsent" => outcome'[r] # "unsent"
      BY <1>1 DEF Finally, CloseSession, Close
    <3> QED
      BY <2>1, <3>1 DEF HandedOver, MainTyped
  <2> QED
    BY <2>1, <2>2 DEF MainTyped, OneCall, Nothing, Ready, Calling, Closed,
                      NoResponseLeaks, ResultOfLatest, Returned
<1>2. CASE ClockTick \/ NoNews \/ UNCHANGED getVars
  BY <1>2 DEF ClockTick, TimePasses, Tick, NoNews, Arrive, getVars, mainVars, synchVars, vars, callVars,
              MainTyped, OneCall, Nothing, Ready, Calling, HandedOver, Closed,
              NoResponseLeaks, ResultOfLatest, Returned
<1> QED
  BY <1>1, <1>2

LEMMA GetNextIInv == GetIInv /\ [GetNext]_getVars => GetIInv'
<1> SUFFICES ASSUME GetIInv, [GetNext]_getVars PROVE GetIInv'
  OBVIOUS
<1>1. SynchIInv'
  BY CallsStep, SynchNextIInv DEF GetIInv
<1>2. MainInv'
  BY StartMainInv, CallMainInv, InCallMainInv, AfterMainInv, EndMainInv
     DEF GetNext, MainStep
<1> QED
  BY <1>1, <1>2 DEF GetIInv

-----------------------------------------------------------------------------
(* Theorems about main                                                     *)

\* The invariant holds for any number of repaired requests.
THEOREM GetInvariance == GetSpec => []GetIInv
<1>1. GetInit => GetIInv
  BY GetInitIInv
<1>2. GetIInv /\ [GetNext]_getVars => GetIInv'
  BY GetNextIInv
<1> QED
  BY <1>1, <1>2, PTL DEF GetSpec

\* main makes one call after another and closes the session between two of
\* them at the earliest: what is proved of the calls holds in the program.
THEOREM MainMakesCalls == GetSpec => SynchSpec
<1>1. GetInit => SynchInit
  BY DEF GetInit
<1>2. GetIInv /\ [GetNext]_getVars => [SynchNext]_synchVars
  BY CallsStep
<1> QED
  BY <1>1, <1>2, GetInvariance, PTL DEF GetSpec, SynchSpec

\* However often main repairs its request, it frees every response once.
THEOREM ResponsesNeverLeak == GetSpec => []NoResponseLeaks
<1>1. GetIInv => NoResponseLeaks
  BY DEF GetIInv, MainInv
<1> QED
  BY <1>1, GetInvariance, PTL

\* The result main looks at is never that of a request it has repaired since.
THEOREM ResultAlwaysOfLatest == GetSpec => []ResultOfLatest
<1>1. GetIInv => ResultOfLatest
  BY DEF GetIInv, MainInv
<1> QED
  BY <1>1, GetInvariance, PTL

\* At the end of main each request it has created was freed by its one owner.
THEOREM MainEndsClean == GetSpec => []EndsClean
<1>1. GetIInv => EndsClean
  <2> SUFFICES ASSUME GetIInv, pc = "exit", status # "none"
               PROVE  ~open /\ \A r \in created : (freed[r] = 1) # (r \in discarded)
    BY DEF EndsClean
  <2>1. ~open
    BY DEF GetIInv, MainInv, Closed
  <2>2. ASSUME NEW r \in created PROVE (freed[r] = 1) # (r \in discarded)
    <3>1. r \in Req /\ outcome[r] \notin {"unsent", "waiting"}
      BY <2>1, <2>2 DEF GetIInv, MainInv, MainTyped, HandedOver, SynchIInv, IInv,
                        ClosedIsEmpty
    <3>2. freed[r] = IF outcome[r] = "refused" THEN 0 ELSE 1
      BY <3>1 DEF GetIInv, SynchIInv, IInv, FreedOnce
    <3>3. r \in discarded <=> outcome[r] = "refused"
      BY <3>1 DEF GetIInv, SynchIInv, OneOwner
    <3>4. CASE outcome[r] = "refused"
      BY <3>2, <3>3, <3>4
    <3>5. CASE outcome[r] # "refused"
      BY <3>2, <3>3, <3>5
    <3> QED
      BY <3>4, <3>5
  <2> QED
    BY <2>1, <2>2
<1> QED
  BY <1>1, GetInvariance, PTL

-----------------------------------------------------------------------------
(* AfdxBoard: what is allocated is given back, and only the message is sent*)

OnBoard == at \notin {"login", "exit", "idle"}

\* The queue has been created, and the port not been stopped yet.
QueueReady == at \in {"write", "start", "stop"}

CallNumbered == OnBoard => calls \in 1 .. MaxCalls /\ msg \in Msg

\* Whatever is allocated is known to the running call or was refused to an
\* earlier one.
Accounted == /\ OnBoard => /\ allocated \subseteq stuck \cup handles
                          /\ handles \subseteq allocated
             /\ ~OnBoard => allocated \subseteq stuck

\* As long as no command fails, the port runs between start and stop only.
RunsInCall == running /\ ~suspect => QueueReady

\* What the running call has written, and what it uses.
OwnQueue == QueueReady /\ ~suspect =>
               \A f \in queue : f.call = calls /\ f.uses \subseteq handles

BoardInv == BoardTypeOK /\ CallNumbered /\ Accounted /\ RunsInCall /\ OwnQueue

LEMMA BoardInitInv == BoardInit => BoardInv
<1> SUFFICES ASSUME BoardInit PROVE BoardInv
  OBVIOUS
<1>1. 0 \in 0 .. MaxCalls
  BY BoardAssumption
<1>2. BoardTypeOK
  BY <1>1 DEF BoardInit, BoardTypeOK
<1> QED
  BY <1>2 DEF BoardInit, BoardInv, OnBoard, QueueReady, CallNumbered, Accounted, RunsInCall,
              OwnQueue

-----------------------------------------------------------------------------
(* The steps.  Each lemma is about a stage of l_TransmitAFDXSetup.         *)

LEMMA BeginIInv == BoardInv /\ (LogIn \/ \E m \in Msg : TransmitSetup(m)) => BoardInv'
<1> SUFFICES ASSUME BoardInv, LogIn \/ \E m \in Msg : TransmitSetup(m) PROVE BoardInv'
  OBVIOUS
<1> USE DEF BoardInv
<1>1. CASE LogIn
  BY <1>1 DEF LogIn, BoardTypeOK, OnBoard, QueueReady, CallNumbered, Accounted, RunsInCall,
              OwnQueue
<1>2. ASSUME NEW m \in Msg, TransmitSetup(m) PROVE BoardInv'
  <2>1. BoardTypeOK'
    BY <1>2, BoardAssumption DEF TransmitSetup, BoardTypeOK
  <2>2. calls' \in 1 .. MaxCalls
    BY <1>2, BoardAssumption DEF TransmitSetup, BoardTypeOK
  <2> QED
    BY <1>2, <2>1, <2>2 DEF TransmitSetup, OnBoard, QueueReady, CallNumbered, Accounted,
                            RunsInCall, OwnQueue
<1> QED
  BY <1>1, <1>2

LEMMA ModeIInv == BoardInv /\ (PortInit \/ ModeControl) => BoardInv'
<1> SUFFICES ASSUME BoardInv, PortInit \/ ModeControl PROVE BoardInv'
  OBVIOUS
<1> USE DEF BoardInv
<1>1. BoardTypeOK'
  BY DEF PortInit, ModeControl, Command, BoardTypeOK
<1>2. CallNumbered' /\ Accounted'
  BY DEF PortInit, ModeControl, Command, OnBoard, CallNumbered, Accounted
<1>3. RunsInCall' /\ OwnQueue'
  BY DEF PortInit, ModeControl, Command, QueueReady, RunsInCall, OwnQueue
<1> QED
  BY <1>1, <1>2, <1>3

\* The handles of a call are allocated under its number.
LEMMA Allocated ==
    ASSUME BoardInv, OnBoard, NEW items \in SUBSET (Buffers \cup SubQueues), Allocate(items)
    PROVE  /\ handles' \subseteq Handle /\ allocated' \subseteq Handle
           /\ allocated \subseteq stuck \cup handles =>
                 allocated' \subseteq stuck \cup handles'
           /\ handles' \subseteq allocated'
<1>1. {calls} \X items \subseteq Handle
  BY DEF BoardInv, CallNumbered, Handle
<1> QED
  BY <1>1 DEF Allocate, BoardInv, BoardTypeOK, Accounted

LEMMA SetupIInv == BoardInv /\ (SetupBuffers \/ SetupSubQueues) => BoardInv'
<1> SUFFICES ASSUME BoardInv, SetupBuffers \/ SetupSubQueues PROVE BoardInv'
  OBVIOUS
<1> USE DEF BoardInv
<1>1. PICK got \in SUBSET (Buffers \cup SubQueues) : Allocate(got)
  BY DEF SetupBuffers, SetupSubQueues
<1>2. /\ OnBoard /\ OnBoard'
      /\ at \in {"buffers", "subqueues"}
      /\ at' \in {"subqueues", "create", "start"}
      /\ suspect' \in BOOLEAN
      /\ suspect => suspect'
      /\ at' = "start" => suspect'
      /\ UNCHANGED <<granted, calls, msg, handed, selection, stuck, queue, running, wire>>
  BY BoardAssumption DEF SetupBuffers, SetupSubQueues, OnBoard, BoardTypeOK
<1>3. BoardTypeOK'
  BY <1>1, <1>2, Allocated DEF BoardTypeOK, Handle, Frame
<1>4. CallNumbered' /\ Accounted'
  BY <1>1, <1>2, Allocated DEF CallNumbered, Accounted
<1>5. RunsInCall' /\ OwnQueue'
  BY <1>2 DEF QueueReady, RunsInCall, OwnQueue
<1> QED
  BY <1>3, <1>4, <1>5

LEMMA QueueIInv == BoardInv /\ (QueueCreate \/ QueueWrite) => BoardInv'
<1> SUFFICES ASSUME BoardInv, QueueCreate \/ QueueWrite PROVE BoardInv'
  OBVIOUS
<1> USE DEF BoardInv
<1>1. CASE QueueCreate
  <2>1. BoardTypeOK'
    BY <1>1 DEF QueueCreate, BoardTypeOK
  <2> QED
    BY <1>1, <2>1 DEF QueueCreate, OnBoard, QueueReady, CallNumbered, Accounted,
                      RunsInCall, OwnQueue
<1>2. CASE QueueWrite
  <2> DEFINE own == [of   |-> IF selection = "basic" THEN msg ELSE NoMsg,
                     call |-> calls,
                     uses |-> handles]
  <2>1. own \in Frame /\ own.call = calls /\ own.uses = handles
    BY <1>2 DEF QueueWrite, OnBoard, CallNumbered, Frame, BoardTypeOK
  <2>2. /\ at = "write" /\ at' = "start"
        /\ queue' \in {queue, queue \cup {own}}
        /\ suspect' \in {suspect, TRUE}
        /\ UNCHANGED <<granted, calls, msg, handed, selection, handles, allocated,
                       stuck, running, wire>>
    BY <1>2 DEF QueueWrite
  <2> HIDE DEF own
  <2>3. BoardTypeOK'
    <3>1. queue' \subseteq Frame /\ suspect' \in BOOLEAN
      BY <2>1, <2>2 DEF BoardTypeOK
    <3> QED
      BY <2>2, <3>1 DEF BoardTypeOK
  <2>4. CallNumbered' /\ Accounted' /\ RunsInCall'
    BY <2>2 DEF OnBoard, QueueReady, CallNumbered, Accounted, RunsInCall, BoardTypeOK
  <2>5. OwnQueue'
    <3> SUFFICES ASSUME ~suspect', NEW f \in queue'
                 PROVE  f.call = calls /\ f.uses \subseteq handles
      BY <2>2 DEF OwnQueue
    <3>1. ~suspect
      BY <2>2
    <3>2. f \in queue \/ f = own
      BY <2>2
    <3> QED
      BY <2>1, <2>2, <3>1, <3>2 DEF QueueReady, OwnQueue
  <2> QED
    BY <2>3, <2>4, <2>5
<1> QED
  BY <1>1, <1>2

LEMMA RunIInv == BoardInv /\ (Start \/ Stop) => BoardInv'
<1> SUFFICES ASSUME BoardInv, Start \/ Stop PROVE BoardInv'
  OBVIOUS
<1> USE DEF BoardInv
<1>1. BoardTypeOK'
  BY DEF Start, Stop, Command, BoardTypeOK
<1>2. CallNumbered' /\ Accounted'
  BY DEF Start, Stop, Command, OnBoard, CallNumbered, Accounted
<1>3. RunsInCall' /\ OwnQueue'
  BY DEF Start, Stop, Command, QueueReady, RunsInCall, OwnQueue
<1> QED
  BY <1>1, <1>2, <1>3

LEMMA CleanupIInv == BoardInv /\ Cleanup => BoardInv'
<1> SUFFICES ASSUME BoardInv, Cleanup PROVE BoardInv'
  OBVIOUS
<1> USE DEF BoardInv
<1>1. PICK refused \in SUBSET handles : /\ allocated' = allocated \ (handles \ refused)
                                        /\ stuck' = stuck \cup refused
  BY DEF Cleanup
<1>2. BoardTypeOK'
  BY <1>1 DEF Cleanup, BoardTypeOK
<1>3. CallNumbered' /\ Accounted'
  BY <1>1 DEF Cleanup, OnBoard, CallNumbered, Accounted
<1>4. RunsInCall' /\ OwnQueue'
  BY DEF Cleanup, QueueReady, RunsInCall, OwnQueue
<1> QED
  BY <1>2, <1>3, <1>4

LEMMA BoardIInv == BoardInv /\ (BoardSends \/ CycleOver) => BoardInv'
<1> SUFFICES ASSUME BoardInv, BoardSends \/ CycleOver PROVE BoardInv'
  OBVIOUS
<1> USE DEF BoardInv
<1>1. BoardTypeOK'
  BY DEF BoardSends, CycleOver, BoardTypeOK
<1>2. CallNumbered' /\ Accounted' /\ RunsInCall' /\ OwnQueue'
  BY DEF BoardSends, CycleOver, OnBoard, QueueReady, CallNumbered, Accounted,
         RunsInCall, OwnQueue
<1> QED
  BY <1>1, <1>2

LEMMA BoardNextInv == BoardInv /\ [BoardNext]_boardVars => BoardInv'
<1> SUFFICES ASSUME BoardInv, [BoardNext]_boardVars PROVE BoardInv'
  OBVIOUS
<1>1. CASE BoardNext
  BY <1>1, BeginIInv, ModeIInv, SetupIInv, QueueIInv, RunIInv, CleanupIInv, BoardIInv
     DEF BoardNext
<1>2. CASE UNCHANGED boardVars
  BY <1>2 DEF boardVars, BoardInv, BoardTypeOK, OnBoard, QueueReady, CallNumbered, Accounted,
              RunsInCall, OwnQueue
<1> QED
  BY <1>1, <1>2

-----------------------------------------------------------------------------
(* Theorems                                                                *)

\* The invariant holds however many transmissions there are and whichever
\* commands fail.
THEOREM BoardInvariance == BoardSpec => []BoardInv
<1>1. BoardInit => BoardInv
  BY BoardInitInv
<1>2. BoardInv /\ [BoardNext]_boardVars => BoardInv'
  BY BoardNextInv
<1> QED
  BY <1>1, <1>2, PTL DEF BoardSpec

\* Every handle and frame belongs to one of the calls so far.
THEOREM BoardTypeCorrect == BoardSpec => []BoardTypeOK
<1>1. BoardInv => BoardTypeOK
  BY DEF BoardInv
<1> QED
  BY <1>1, BoardInvariance, PTL

\* Between two calls of l_TransmitAFDXSetup nothing is left allocated but what
\* the board has refused to release.
THEOREM HandlesAlwaysReleased == BoardSpec => []HandlesReleased
<1>1. BoardInv => HandlesReleased
  BY DEF BoardInv, OnBoard, Accounted, HandlesReleased
<1> QED
  BY <1>1, BoardInvariance, PTL

\* l_TransmitAFDXSetup never releases a queue that a running port uses, unless a
\* command has failed.
THEOREM NothingEverReleasedInUse == BoardSpec => []NothingReleasedInUse
<1>1. BoardInv => NothingReleasedInUse
  BY DEF BoardInv, OnBoard, QueueReady, Accounted, RunsInCall, OwnQueue,
         NothingReleasedInUse
<1> QED
  BY <1>1, BoardInvariance, PTL

\* Both together: l_TransmitAFDXSetup releases its queues neither too early nor too late.
THEOREM AlwaysReleasedRightly == BoardSpec => []ReleasedRightly
<1>1. HandlesReleased /\ NothingReleasedInUse => ReleasedRightly
  BY DEF ReleasedRightly
<1> QED
  BY <1>1, HandlesAlwaysReleased, NothingEverReleasedInUse, PTL

\* A running port holds frames of the running call of l_TransmitAFDXSetup only,
\* unless a command has failed.
THEOREM OwnFramesAlways == BoardSpec => []OwnFramesOnly
<1>1. BoardInv => OwnFramesOnly
  BY DEF BoardInv, RunsInCall, OwnQueue, OwnFramesOnly
<1> QED
  BY <1>1, BoardInvariance, PTL

\* l_StartTxGetStatus leaves no port running between two calls, unless a command
\* has failed.
THEOREM PortAlwaysAtRest == BoardSpec => []PortAtRest
<1>1. BoardInv => PortAtRest
  BY DEF BoardInv, QueueReady, RunsInCall, PortAtRest
<1> QED
  BY <1>1, BoardInvariance, PTL

-----------------------------------------------------------------------------
(* ArpResolver: the counter counts, and nobody has half an address         *)

\* What each thread contributes to an exact counter.
SenderIn == IF sender \in {"sync", "send", "pause", "dec"} THEN 1 ELSE 0

ReceiverIn == IF receiver \in {"loop", "write", "found", "leave", "dec"} THEN 1 ELSE 0

\* A value the counter may have at all: the unguarded -1 may come on top of a
\* decrement or be lost, but adds nothing else.
Possible(n) ==
    /\ n <= SenderIn + ReceiverIn
    /\ n >= -1 - (IF sender = "done" THEN 1 ELSE 0)
               - (IF receiver = "done" THEN 1 ELSE 0)

\* The types, without a bound on the counter itself.
Typed == /\ main \in {"open", "sleep", "wait", "done"}
         /\ sender \in {"none", "enter", "inc", "sync", "send", "pause", "dec", "done"}
         /\ receiver \in {"none", "input", "enter", "inc", "loop", "write", "found",
                          "leave", "dec", "done"}
         /\ cs \in {"free", "sender", "receiver"}
         /\ loaded \in -3 .. 2
         /\ myThreadCount \in Int
         /\ HostNum \in 0 .. WordSize - 1
         /\ ddmac \in Address
         /\ result \in Address \cup {"none"}
         /\ waited \in BOOLEAN

\* Only one thread is between its load and its store.
Exclusive == /\ cs = "sender" <=> sender \in {"inc", "dec"}
             /\ cs = "receiver" <=> receiver \in {"inc", "dec"}

Counter == /\ Possible(myThreadCount)
           /\ cs # "free" => Possible(loaded)
           /\ ddmac # "new" => /\ myThreadCount = SenderIn + ReceiverIn
                               /\ cs # "free" => loaded = myThreadCount

\* The address is written while the receiver is inside, and never again.
Written == /\ ddmac = "torn" <=> receiver = "write"
           /\ ddmac = "new" => receiver \in {"found", "leave", "dec", "done"}
           /\ receiver = "found" => ddmac = "new"

ReceiverEntered == receiver \in {"loop", "write", "found", "leave", "dec", "done"}

\* The sender goes past its test only when the receiver has come, so whoever has
\* seen a thread running, and then none, has seen both of them leave.
Met == /\ sender \in {"send", "pause", "dec", "done"} => ReceiverEntered
       /\ waited => sender = "sync" \/ ReceiverEntered
       /\ main = "done" /\ waited => /\ result = ddmac
                                     /\ ddmac # "torn"
                                     /\ ddmac = "old" => receiver = "done"

\* Before tttDMac has created its threads there are none.
Fresh == main = "open" => sender = "none" /\ receiver = "none" /\ ~waited

ArpInv == Typed /\ Fresh /\ Exclusive /\ Counter /\ Written /\ Met

-----------------------------------------------------------------------------
(* The steps                                                               *)

LEMMA ArpInitInv == ArpInit => ArpInv
<1> SUFFICES ASSUME ArpInit PROVE ArpInv
  OBVIOUS
<1>1. Typed
  <2>1. HostNum \in 0 .. WordSize - 1 /\ 0 \in -3 .. 2 /\ 0 \in Int
    BY ArpAssumption DEF ArpInit
  <2> QED
    BY <2>1 DEF ArpInit, Typed, Address
<1>2. Fresh /\ Exclusive /\ Counter /\ Written /\ Met
  BY DEF ArpInit, Fresh, Exclusive, Counter, Possible, SenderIn, ReceiverIn, Written, Met,
         ReceiverEntered
<1> QED
  BY <1>1, <1>2 DEF ArpInv

\* HostNum wraps around within its word.
LEMMA Wraps ==
    ASSUME NEW h \in 0 .. WordSize - 1
    PROVE  (h - 1) % WordSize \in 0 .. WordSize - 1
BY ArpAssumption

\* Nothing the caller does touches the threads' part of the state.
LEMMA CallerIInv == ArpInv /\ (Open \/ Sleep \/ Poll) => ArpInv'
<1> SUFFICES ASSUME ArpInv, Open \/ Sleep \/ Poll PROVE ArpInv'
  OBVIOUS
<1> USE DEF ArpInv
<1>1. CASE Open
  <2>1. Typed' /\ Fresh' /\ Exclusive'
    BY <1>1 DEF Open, Typed, Fresh, Exclusive
  <2> QED
    BY <1>1, <2>1 DEF Open, Fresh, Counter, Possible, SenderIn, ReceiverIn, Written,
                      Met, ReceiverEntered
<1>2. CASE Sleep
  BY <1>2 DEF Sleep, Typed, Fresh, Exclusive, Counter, Possible, SenderIn, ReceiverIn,
              Written, Met, ReceiverEntered
<1>3. CASE Poll
  <2>1. Typed'
    BY <1>3 DEF Poll, Typed
  <2>2. Fresh' /\ Exclusive' /\ Counter' /\ Written'
    BY <1>3 DEF Poll, Fresh, Exclusive, Counter, Possible, SenderIn, ReceiverIn, Written
  <2>3. CASE myThreadCount > 0
    <3>1. sender = "sync" \/ ReceiverEntered
      BY <2>3 DEF Counter, SenderIn, ReceiverIn, Written, Met, ReceiverEntered,
                  Typed, Address
    <3> QED
      BY <1>3, <2>1, <2>2, <2>3, <3>1 DEF Poll, Met, ReceiverEntered
  <2>4. CASE ~(myThreadCount > 0)
    <3>1. waited /\ ddmac # "new" => receiver = "done"
      BY <2>4 DEF Counter, SenderIn, ReceiverIn, Met, ReceiverEntered, Typed
    <3>2. waited => ddmac # "torn"
      BY <3>1 DEF Written
    <3> QED
      BY <1>3, <2>1, <2>2, <2>4, <3>1, <3>2 DEF Poll, Met, ReceiverEntered
  <2> QED
    BY <2>3, <2>4
<1> QED
  BY <1>1, <1>2, <1>3

LEMMA SenderIInv ==
    ArpInv /\ (SenderCounts \/ SenderSynchronised \/ SendRequest) => ArpInv'
<1> SUFFICES ASSUME ArpInv, SenderCounts \/ SenderSynchronised \/ SendRequest
             PROVE  ArpInv'
  OBVIOUS
<1> USE DEF ArpInv
<1>1. CASE SenderCounts
  <2>1. Typed' /\ Fresh' /\ Exclusive'
    BY <1>1 DEF SenderCounts, Enter, Leave, Typed, Fresh, Exclusive, Counter, Possible,
                SenderIn, ReceiverIn
  <2>2. Counter'
    BY <1>1 DEF SenderCounts, Enter, Leave, Typed, Fresh, Exclusive, Counter, Possible,
                SenderIn, ReceiverIn
  <2>3. Written' /\ Met'
    BY <1>1 DEF SenderCounts, Enter, Leave, Written, Met, ReceiverEntered
  <2> QED
    BY <2>1, <2>2, <2>3
<1>2. CASE SenderSynchronised
  <2>1. ReceiverIn = 1
    BY <1>2 DEF SenderSynchronised, Typed, Counter, Possible, SenderIn, ReceiverIn
  <2>2. ReceiverEntered
    BY <2>1 DEF ReceiverIn, ReceiverEntered
  <2> QED
    BY <1>2, <2>2 DEF SenderSynchronised, Typed, Fresh, Exclusive, Counter, Possible,
                      SenderIn, ReceiverIn, Written, Met, ReceiverEntered
<1>3. CASE SendRequest
  <2>1. Typed'
    BY <1>3, Wraps DEF SendRequest, Typed
  <2>2. Fresh' /\ Exclusive' /\ Counter' /\ Written' /\ Met'
    BY <1>3 DEF SendRequest, Typed, Fresh, Exclusive, Counter, Possible, SenderIn,
                ReceiverIn, Written, Met, ReceiverEntered
  <2> QED
    BY <2>1, <2>2
<1> QED
  BY <1>1, <1>2, <1>3

LEMMA ReceiverIInv ==
    ArpInv /\ (UserNamesHost \/ ReceiverCounts \/ TakeReply \/ OtherPacket) => ArpInv'
<1> SUFFICES ASSUME ArpInv, UserNamesHost \/ ReceiverCounts \/ TakeReply \/ OtherPacket
             PROVE  ArpInv'
  OBVIOUS
<1> USE DEF ArpInv
<1>1. CASE UserNamesHost
  BY <1>1 DEF UserNamesHost, Typed, Fresh, Exclusive, Counter, Possible, SenderIn,
              ReceiverIn, Written, Met, ReceiverEntered
<1>2. CASE ReceiverCounts
  <2>1. Typed' /\ Fresh' /\ Exclusive'
    BY <1>2 DEF ReceiverCounts, Enter, Leave, Typed, Fresh, Exclusive, Counter, Possible,
                SenderIn, ReceiverIn
  <2>2. Counter'
    BY <1>2 DEF ReceiverCounts, Enter, Leave, Typed, Fresh, Exclusive, Counter, Possible,
                SenderIn, ReceiverIn
  <2>3. Written' /\ Met'
    BY <1>2 DEF ReceiverCounts, Enter, Leave, Written, Met, ReceiverEntered
  <2> QED
    BY <2>1, <2>2, <2>3
<1>3. CASE TakeReply
  <2>1. Typed' /\ Fresh' /\ Exclusive'
    BY <1>3 DEF TakeReply, Typed, Address, Fresh, Exclusive
  <2>2. Counter'
    BY <1>3 DEF TakeReply, Typed, Exclusive, Counter, Possible, SenderIn, ReceiverIn,
                Written
  <2>3. Written' /\ Met'
    BY <1>3 DEF TakeReply, Typed, Address, Written, Met, ReceiverEntered
  <2> QED
    BY <2>1, <2>2, <2>3
<1>4. CASE OtherPacket
  BY <1>4 DEF OtherPacket, Typed, Fresh, Exclusive, Counter, Possible, SenderIn,
              ReceiverIn, Written, Met, ReceiverEntered
<1> QED
  BY <1>1, <1>2, <1>3, <1>4

LEMMA ArpNextInv == ArpInv /\ [ArpNext]_arpVars => ArpInv'
<1> SUFFICES ASSUME ArpInv, [ArpNext]_arpVars PROVE ArpInv'
  OBVIOUS
<1>1. CASE ArpNext
  BY <1>1, CallerIInv, SenderIInv, ReceiverIInv DEF ArpNext
<1>2. CASE UNCHANGED arpVars
  BY <1>2 DEF arpVars, ArpInv, Typed, Fresh, Exclusive, Counter, Possible, SenderIn,
              ReceiverIn, Written, Met, ReceiverEntered
<1> QED
  BY <1>1, <1>2

-----------------------------------------------------------------------------
(* Theorems                                                                *)

\* The invariant holds in every reachable state, under any scheduling.
THEOREM ArpInvariance == ArpSpec => []ArpInv
<1>1. ArpInit => ArpInv
  BY ArpInitInv
<1>2. ArpInv /\ [ArpNext]_arpVars => ArpInv'
  BY ArpNextInv
<1> QED
  BY <1>1, <1>2, PTL DEF ArpSpec

\* The counter never leaves -3 .. 2, though it is written outside the critical
\* section, and HostNum never leaves its word, though it wraps around.
THEOREM ArpTypeCorrect == ArpSpec => []ArpTypeOK
<1>1. ArpInv => ArpTypeOK
  BY DEF ArpInv, Typed, Exclusive, Counter, Possible, SenderIn, ReceiverIn, ArpTypeOK
<1> QED
  BY <1>1, ArpInvariance, PTL

\* Until a reply has been found, myThreadCount counts the threads that have
\* entered and not left, whatever the order in which they load and store it.
THEOREM CountAlwaysExact == ArpSpec => []CountExact
<1>1. Cardinality(Inside) = SenderIn + ReceiverIn
  <2>1. /\ Cardinality({"sender"}) = 1
        /\ Cardinality({"receiver"}) = 1
        /\ Cardinality({"sender", "receiver"}) = 2
        /\ Cardinality({}) = 0
    <3>1. /\ IsFiniteSet({"sender"}) /\ Cardinality({"sender"}) = 1
          /\ IsFiniteSet({"receiver"}) /\ Cardinality({"receiver"}) = 1
      BY FS_Singleton
    <3>2. Cardinality({"sender"} \cup {"receiver"}) = 1 + 1
      BY <3>1, FS_AddElement
    <3>3. {"sender"} \cup {"receiver"} = {"sender", "receiver"}
      OBVIOUS
    <3> QED
      BY <3>1, <3>2, <3>3, FS_EmptySet
  <2>2. {"sender"} \cup {"receiver"} = {"sender", "receiver"}
    OBVIOUS
  <2> QED
    BY <2>1, <2>2 DEF Inside, SenderIn, ReceiverIn
<1>2. ArpInv => CountExact
  BY <1>1 DEF ArpInv, Counter, CountExact
<1> QED
  BY <1>2, ArpInvariance, PTL

\* A caller that has seen a thread running is given the address as the threads
\* have left it, never one that is half written.
THEOREM ResultAlwaysComplete == ArpSpec => []ResultComplete
<1>1. ArpInv => ResultComplete
  BY DEF ArpInv, Met, ResultComplete
<1> QED
  BY <1>1, ArpInvariance, PTL

-----------------------------------------------------------------------------
(* AfdxSnmp: the parts side by side                                        *)

\* In the program each part takes the steps of its own specification only, so
\* that whatever is proved of main and its calls, of the board and of the
\* lookup holds of the program.
THEOREM ProgramRunsParts == ProgramSpec => SynchSpec /\ GetSpec /\ BoardSpec /\ ArpSpec
<1>1. ProgramInit => GetInit /\ BoardInit /\ ArpInit
  BY DEF ProgramInit
<1>2. [ProgramNext]_programVars => [GetNext]_getVars
  BY DEF ProgramNext, programVars
<1>3. [ProgramNext]_programVars => [BoardNext]_boardVars
  BY DEF ProgramNext, programVars
<1>4. [ProgramNext]_programVars => [ArpNext]_arpVars
  BY DEF ProgramNext, programVars
<1> QED
  BY <1>1, <1>2, <1>3, <1>4, MainMakesCalls, PTL DEF ProgramSpec, GetSpec, BoardSpec, ArpSpec

ProgramSafe == /\ ResultOfLatest /\ EndsClean
               /\ ReleasedRightly /\ OwnFramesOnly /\ PortAtRest
               /\ CountExact /\ ResultComplete

\* main never takes an older request's result for its own and ends with every
\* request freed by its owner; the board keeps to its queues and port; the
\* lookup counts its threads and hands out whole addresses: all that is checked
\* of the program on one instance holds for any of them.
THEOREM ProgramAlwaysSafe == ProgramSpec => []ProgramSafe
<1>1. ProgramSpec => []ResultOfLatest /\ []EndsClean
  BY ProgramRunsParts, ResultAlwaysOfLatest, MainEndsClean, PTL
<1>2. ProgramSpec => []ReleasedRightly /\ []OwnFramesOnly /\ []PortAtRest
  BY ProgramRunsParts, AlwaysReleasedRightly, OwnFramesAlways, PortAlwaysAtRest, PTL
<1>3. ProgramSpec => []CountExact /\ []ResultComplete
  BY ProgramRunsParts, CountAlwaysExact, ResultAlwaysComplete, PTL
<1> QED
  BY <1>1, <1>2, <1>3, PTL DEF ProgramSafe
=============================================================================
