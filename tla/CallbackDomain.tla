--------------------------- MODULE CallbackDomain ---------------------------
(***************************************************************************)
(* The callback transport of transports/snmpCallbackDomain.c: messages     *)
(* between sessions of one process.  A message is put on one queue for all *)
(* endpoints, and a byte in the pipe of its receiver wakes it up.          *)
(***************************************************************************)
EXTENDS Integers, SequencesExt

CONSTANTS MaxEndpoints,   \* bound: endpoints opened
          MaxRequests     \* bound: requests sent

ASSUME CallbackAssumption == MaxEndpoints \in Nat \ {0} /\ MaxRequests \in Nat \ {0}

Endpoint == 1 .. MaxEndpoints
Request  == 1 .. MaxRequests

VARIABLES
    callbackCount,   \* callback_count: numbers given out so far
    trlist,          \* the open endpoints
    linkedto,        \* what a client is linked to; 0 for a server
    thequeue,        \* [num, from, request]
    pipe,            \* bytes in the pipe of each endpoint
    held,            \* requests a server has read and not answered: [at, from, request]
    requester,       \* auxiliary: the client that sent each request so far
    delivered,       \* auxiliary: what clients have read: [at, request]
    writeFailed      \* auxiliary: endpoints whose pipe has refused a byte

callbackVars == <<callbackCount, trlist, linkedto, thequeue, pipe, held,
                  requester, delivered, writeFailed>>

CallbackInit == /\ callbackCount = 0
                /\ trlist = {}
                /\ linkedto = [n \in Endpoint |-> 0]
                /\ thequeue = <<>>
                /\ pipe = [n \in Endpoint |-> 0]
                /\ held = {}
                /\ requester = <<>>
                /\ delivered = {}
                /\ writeFailed = {}

\* Mutant: a number is used again once its endpoint is closed.
NextNumber_free == CHOOSE n \in 1 .. callbackCount + 1 :
                       n \notin trlist /\ \A m \in 1 .. n - 1 : m \in trlist

NextNumber == callbackCount + 1

\* netsnmp_callback_transport: a server, or a client of the server `to`,
\* which need not be open any more.
OpenEndpoint(to) ==
    /\ NextNumber \in Endpoint
    /\ to # 0 => to <= callbackCount /\ linkedto[to] = 0
    /\ callbackCount' = callbackCount + 1
    /\ trlist' = trlist \cup {NextNumber}
    /\ linkedto' = [linkedto EXCEPT ![NextNumber] = to]
    /\ pipe' = [pipe EXCEPT ![NextNumber] = 0]
    /\ UNCHANGED <<thequeue, held, requester, delivered, writeFailed>>

\* Mutant: the receiver is not woken up if a message is waiting for it already.
Push_coalesces(message) ==
    /\ pipe' = IF \E i \in DOMAIN thequeue : thequeue[i].num = message.num
               THEN pipe ELSE [pipe EXCEPT ![message.num] = 1]
    /\ thequeue' = Append(thequeue, message)
    /\ UNCHANGED writeFailed

\* The byte is written first; the message is queued whether or not that
\* worked, unless there is no memory for it, and success is returned in any
\* case.
Push(message) ==
    \/ /\ pipe' = [pipe EXCEPT ![message.num] = @ + 1]
       /\ thequeue' = Append(thequeue, message)
       /\ UNCHANGED writeFailed
    \/ /\ pipe' = [pipe EXCEPT ![message.num] = @ + 1]
       /\ UNCHANGED <<thequeue, writeFailed>>
    \/ /\ writeFailed' = writeFailed \cup {message.num}
       /\ thequeue' = Append(thequeue, message)
       /\ UNCHANGED pipe

\* netsnmp_callback_send of a client; with nobody at the other end it fails.
SendRequest(c) ==
    /\ c \in trlist
    /\ linkedto[c] # 0
    /\ Len(requester) < MaxRequests
    /\ requester' = Append(requester, c)
    /\ IF linkedto[c] \in trlist
       THEN Push([num |-> linkedto[c], from |-> c, request |-> Len(requester) + 1])
       ELSE UNCHANGED <<thequeue, pipe, writeFailed>>
    /\ UNCHANGED <<callbackCount, trlist, linkedto, held, delivered>>

\* netsnmp_callback_send of a server, to the number it has kept with the
\* request, now or later.
SendReply(r) ==
    /\ r \in held
    /\ r.at \in trlist
    /\ held' = held \ {r}
    /\ IF r.from \in trlist
       THEN Push([num |-> r.from, from |-> r.at, request |-> r.request])
       ELSE UNCHANGED <<thequeue, pipe, writeFailed>>
    /\ UNCHANGED <<callbackCount, trlist, linkedto, requester, delivered>>

For(n) == {i \in DOMAIN thequeue : thequeue[i].num = n}

\* callback_pop_queue: the first message for this endpoint.
Pop(n) == {i \in For(n) : \A j \in For(n) : i <= j}

\* netsnmp_callback_recv takes a byte, netsnmp_callback_create_pdu a message;
\* if there is none the packet is dropped.  What a server reads it will answer.
ReadMessage(n) ==
    /\ n \in trlist
    /\ pipe[n] > 0
    /\ pipe' = [pipe EXCEPT ![n] = @ - 1]
    /\ \/ /\ Pop(n) = {}
          /\ UNCHANGED <<thequeue, held, delivered>>
       \/ \E i \in Pop(n) :
             LET msg == thequeue[i]
             IN  /\ thequeue' = RemoveAt(thequeue, i)
                 /\ IF linkedto[n] = 0
                    THEN /\ held' = held \cup
                               {[at |-> n, from |-> msg.from, request |-> msg.request]}
                         /\ UNCHANGED delivered
                    ELSE /\ delivered' = delivered \cup {[at |-> n, request |-> msg.request]}
                         /\ UNCHANGED held
    /\ UNCHANGED <<callbackCount, trlist, linkedto, requester, writeFailed>>

\* netsnmp_callback_close: messages for the endpoint stay on the queue.
CloseEndpoint(n) ==
    /\ n \in trlist
    /\ trlist' = trlist \ {n}
    /\ pipe' = [pipe EXCEPT ![n] = 0]
    /\ held' = {r \in held : r.at # n}
    /\ UNCHANGED <<callbackCount, linkedto, thequeue, requester, delivered, writeFailed>>

\* netsnmp_clear_callback_list.
ClearCallbackList ==
    /\ trlist # {}
    /\ trlist' = {}
    /\ pipe' = [n \in Endpoint |-> 0]
    /\ held' = {}
    /\ UNCHANGED <<callbackCount, linkedto, thequeue, requester, delivered, writeFailed>>

CallbackNext == \/ \E to \in 0 .. MaxEndpoints : OpenEndpoint(to)
                \/ \E c \in Endpoint : SendRequest(c) \/ ReadMessage(c) \/ CloseEndpoint(c)
                \/ \E r \in held : SendReply(r)
                \/ ClearCallbackList

\* Every session reads while there is something in its pipe.
CallbackFairness == \A n \in Endpoint : WF_callbackVars(ReadMessage(n))

CallbackSpec == CallbackInit /\ [][CallbackNext]_callbackVars /\ CallbackFairness

-----------------------------------------------------------------------------
(* Properties.                                                              *)

Message == [num : Endpoint, from : Endpoint, request : Request]

CallbackTypeOK == /\ callbackCount \in 0 .. MaxEndpoints
                  /\ trlist \subseteq 1 .. callbackCount
                  /\ linkedto \in [Endpoint -> 0 .. MaxEndpoints]
                  /\ thequeue \in Seq(Message)
                  /\ pipe \in [Endpoint -> Nat]
                  /\ held \subseteq [at : Endpoint, from : Endpoint, request : Request]
                  /\ requester \in Seq(Endpoint) /\ Len(requester) <= MaxRequests
                  /\ delivered \subseteq [at : Endpoint, request : Request]
                  /\ writeFailed \subseteq Endpoint

\* A reply is read by the client that sent the request, even if clients were
\* closed and others opened while the server kept it, and a server never
\* answers for a request it has not read.
RepliesToRequester == \A d \in delivered : d.at = requester[d.request]

\* A message for an endpoint that stays open is read in the end, unless the
\* pipe has refused a byte: what is on the queue never lacks its wake-up.
EachIsRead == \A n \in Endpoint, r \in Request :
    (n \in trlist /\ \E i \in For(n) : thequeue[i].request = r)
        ~> (n \notin trlist \/ n \in writeFailed \/ \A i \in For(n) : thequeue[i].request # r)
=============================================================================
