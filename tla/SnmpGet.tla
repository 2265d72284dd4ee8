------------------------------ MODULE SnmpGet ------------------------------
(***************************************************************************)
(* The program: main of AfdxSnmp.c.  It opens one session, logs in to the  *)
(* AFDX board, sends a GET request with snmp_synch_response, and as long   *)
(* as the agent answers with an error it can repair, sends the repaired    *)
(* request again.  Arguments are fixed in main, among them version 1.      *)
(***************************************************************************)
EXTENDS SnmpSynch

VARIABLES
    pc,          \* where main is
    pdu,         \* main's variable pdu
    created,     \* the request PDUs main has created so far
    addressed,   \* those whose field address points to the AFDX address list
    response,    \* main's variable response holds a PDU
    responses,   \* response PDUs handed to main and not freed yet
    exitval      \* main's variable exitval

mainVars == <<pc, pdu, created, addressed, response, responses, exitval>>

getVars == <<synchVars, mainVars>>

\* snmp_open has succeeded.
GetInit == /\ SynchInit
           /\ version = 1
           /\ pc = "open"
           /\ pdu = NoReq
           /\ created = {}
           /\ addressed = {}
           /\ response = FALSE
           /\ responses = 0
           /\ exitval = 0

\* When l_Init fails main just ends, and leaves its session open.
BoardLogin == /\ pc = "open"
              /\ pc' \in {"create", "exit"}
              /\ UNCHANGED <<synchVars, pdu, created, addressed, response,
                             responses, exitval>>

\* snmp_pdu_create, the address list attached, the object names parsed.
CreateRequest == /\ pc = "create"
                 /\ \E r \in Req \ created :
                       /\ pdu' = r
                       /\ created' = created \cup {r}
                       /\ addressed' = addressed \cup {r}
                 /\ pc' = "retry"
                 /\ UNCHANGED <<synchVars, response, responses, exitval>>

\* A name that is no object identifier: the session is closed, exit(1).
BadName == /\ pc = "create"
           /\ CloseSession
           /\ pc' = "exit"
           /\ UNCHANGED <<pdu, created, addressed, response, responses, exitval>>

Call == /\ pc = "retry"
        /\ Begin(pdu)
        /\ pc' = "result"
        /\ UNCHANGED <<pdu, created, addressed, response, responses, exitval>>

\* The steps of the call itself; on return *response is state->pdu.
InCall == /\ InCallStep
          /\ IF inCall' THEN UNCHANGED <<response, responses>>
                        ELSE /\ response' = (clone # NoReq)
                             /\ responses' = responses + (IF clone # NoReq THEN 1 ELSE 0)
          /\ UNCHANGED <<pc, pdu, created, addressed, exitval>>

Returned == pc = "result" /\ ~inCall

\* The call has succeeded: main reads the response, and there may be none.
Responded == Returned /\ status = "success" /\ response

NoResponse == /\ Returned /\ status = "success" /\ ~response
              /\ pc' = "crashed"
              /\ UNCHANGED <<synchVars, pdu, created, addressed, response, responses, exitval>>

\* noError: the variables are printed.
ShowVariables == /\ Responded
         /\ pc' = "end"
         /\ UNCHANGED <<synchVars, pdu, created, addressed, response, responses, exitval>>

FreeResponse == /\ response' = FALSE
                /\ responses' = responses - 1

\* The agent reports an error.  snmp_fix_pdu clones the response without the
\* variable in error, if the error index names one of several, and gives the
\* clone ids of its own.  What else is in the response is kept, and that has
\* no address.  The response is freed either way.  Nothing but the agent's next
\* response bounds how often this happens; here Req does.
FixAndRetry == /\ Responded
               /\ exitval' = 2
               /\ FreeResponse
               /\ \/ \E r \in Req \ created :
                        /\ pdu' = r
                        /\ created' = created \cup {r}
                        /\ pc' = "retry"
                  \/ /\ pdu' = NoReq
                     /\ pc' = "end"
                     /\ UNCHANGED created
               /\ UNCHANGED <<synchVars, addressed>>

\* No answer, or an error of the library.
Fail == /\ Returned
        /\ status \in {"timeout", "error"}
        /\ exitval' = 1
        /\ pc' = "end"
        /\ UNCHANGED <<synchVars, pdu, created, addressed, response, responses>>

\* The response is freed if there is one, the session closed; main returns 0
\* whatever exitval says.
Finally == /\ pc = "end"
           /\ CloseSession
           /\ responses' = responses - (IF response THEN 1 ELSE 0)
           /\ response' = FALSE
           /\ pc' = "exit"
           /\ UNCHANGED <<pdu, created, addressed, exitval>>

ClockTick == /\ TimePasses
             /\ UNCHANGED mainVars

NoNews == /\ Arrive
          /\ UNCHANGED mainVars

MainStep == BoardLogin \/ CreateRequest \/ BadName \/ Call \/ NoResponse
            \/ ShowVariables \/ FixAndRetry \/ Fail \/ Finally

GetNext == MainStep \/ InCall \/ ClockTick \/ NoNews

GetSpec == GetInit /\ [][GetNext]_getVars

\* Inside a call, the fairness of the call.
CallFairness == /\ WF_getVars(ClockTick)
                /\ WF_getVars(InCall /\ ReadNothing)
                /\ WF_getVars(InCall /\ RunTimeout)
                /\ WF_getVars(InCall /\ LoopTimeout)
                /\ WF_getVars(InCall /\ Return)

\* main never pauses.
GetFairSpec == GetSpec /\ WF_getVars(MainStep) /\ CallFairness

-----------------------------------------------------------------------------
(* Properties                                                              *)

\* Across all retries every response is freed once: main holds one exactly
\* while its variable says so, and ends without any.
NoResponseLeaks == /\ responses = IF response THEN 1 ELSE 0
                   /\ pc = "exit" => responses = 0

\* A result main looks at is the result of the request it sent last: a late
\* duplicate of the answer to a repaired request is never taken for the
\* answer to its successor.
ResultOfLatest == Returned => /\ current = pdu
                              /\ response => status = "success"
                              /\ status = "success" => outcome[pdu] = "answered"

\* When main has got as far as sending, every request PDU it ever created has
\* been freed once by its end, by the session or by the call that could not
\* hand it over, and the session is closed.
EndsClean == pc = "exit" /\ status # "none" =>
                /\ ~open
                /\ \A r \in created : (freed[r] = 1) # (r \in discarded)

\* Once main is past its login to the board, no request keeps it for ever: it ends,
\* or has something to repair and sends another one.  The exceptions are those of
\* the call: always something to read, or never any memory.
EveryTryEnds ==
    \/ \A n \in 0 .. Cardinality(Req) - 1 :
          pc # "open" /\ Cardinality(created) = n
              ~> pc \in {"exit", "crashed"} \/ Cardinality(created) # n
    \/ []<><<ReadNothing>>_getVars
    \/ []<><<OutOfMemory>>_getVars

\* README.md: "sending snmp frames in the snmp protocol through the Arinc664
\* board".  Only a PDU with an address list can be sent there.
SentThroughBoard == \A m \in sent : m.req \in addressed
=============================================================================
