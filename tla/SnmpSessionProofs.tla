------------------------- MODULE SnmpSessionProofs -------------------------
(***************************************************************************)
(* Proofs about SnmpSession for any set of requests, any number of retries *)
(* and any timeout.                                                        *)
(***************************************************************************)
EXTENDS SnmpSession, SequenceLemmas

-----------------------------------------------------------------------------
(* The inductive invariant: the invariants the runs check, together.  None  *)
(* of them is inductive alone: freeing once rests on unlinking from an      *)
(* intact list, and a list is kept intact only if what is on it waits.      *)

IInv == /\ TypeOK
        /\ ListIntact
        /\ FreedOnce
        /\ RepetitionsBounded
        /\ NoMessageFromTheFuture
        /\ ClosedIsEmpty

\* A request that is not on the list has position 0, any other one its own.
LEMMA PositionOnList ==
    ASSUME TypeOK, NEW r \in Queued
    PROVE  Position(r) \in 1 .. Len(requests) /\ requests[Position(r)] = r
<1>1. DOMAIN requests = 1 .. Len(requests)
  BY LenProperties DEF TypeOK
<1>2. \E i \in DOMAIN requests : requests[i] = r
  BY DEF Queued, Range
<1> QED
  BY <1>1, <1>2 DEF Position

\* The effect of unlinking a request: the list loses it, and requestsEnd is
\* still its last element.
LEMMA Unlinked ==
    ASSUME TypeOK, ListIntact, NEW r \in Queued, Unlink_rp(r)
    PROVE  /\ requests' \in Seq(Req)
           /\ requestsEnd' \in Req \cup {NoReq}
           /\ IsInjective(requests')
           /\ Queued' = Queued \ {r}
           /\ requestsEnd' = IF requests' = <<>> THEN NoReq ELSE Last(requests')
<1> DEFINE i == Position(r)
           n == Len(requests)
<1>1. i \in 1 .. n /\ requests[i] = r
  BY PositionOnList
<1>2. requests \in Seq(Req) /\ n \in Nat /\ IsInjective(requests)
  BY LenProperties DEF TypeOK, ListIntact
<1>3. \A j \in 1 .. n : requests[j] \in Req
  BY <1>2, LenProperties
<1>4. requests' = RemoveAt(requests, i)
  BY DEF Unlink_rp
<1>5. requestsEnd' = IF requestsEnd = r
                     THEN IF i = 1 THEN NoReq ELSE requests[i - 1]
                     ELSE requestsEnd
  BY DEF Unlink_rp
<1> HIDE DEF i, n
<1>6. /\ requests' \in Seq(Req)
      /\ Len(requests') = n - 1
      /\ \A j \in 1 .. n - 1 :
            requests'[j] = IF j < i THEN requests[j] ELSE requests[j + 1]
  BY <1>1, <1>2, <1>4, RemoveAtElements DEF n
<1>7. IsInjective(requests') /\ Range(requests') = Range(requests) \ {r}
  BY <1>1, <1>2, <1>4, RemoveAtRange DEF n
<1>8. requestsEnd = requests[n]
  <2>1. requests # <<>>
    BY <1>1, <1>2 DEF n
  <2> QED
    BY <2>1 DEF ListIntact, Last, n
<1>9. requestsEnd = r <=> i = n
  <2>1. \A j, k \in 1 .. n : requests[j] = requests[k] => j = k
    BY <1>2, LenProperties DEF IsInjective, n
  <2> QED
    BY <1>1, <1>2, <1>8, <2>1
<1>10. requestsEnd' \in Req \cup {NoReq}
  BY <1>1, <1>2, <1>3, <1>5 DEF TypeOK
<1>11. requestsEnd' = IF requests' = <<>> THEN NoReq ELSE Last(requests')
  <2>1. CASE n = 1
    BY <1>1, <1>5, <1>6, <1>9, <2>1
  <2>2. CASE n # 1
    <3>1. n - 1 \in 1 .. n - 1 /\ requests' # <<>> /\ Last(requests') = requests'[n - 1]
      BY <1>1, <1>2, <1>6, <2>2 DEF Last
    <3>2. CASE i = n
      BY <1>1, <1>2, <1>5, <1>6, <1>9, <2>2, <3>1, <3>2
    <3>3. CASE i # n
      <4>1. requests'[n - 1] = requests[n]
        BY <1>1, <1>2, <1>6, <3>1, <3>3
      <4> QED
        BY <1>5, <1>8, <1>9, <3>1, <3>3, <4>1
    <3> QED
      BY <3>2, <3>3
  <2> QED
    BY <2>1, <2>2
<1> QED
  BY <1>6, <1>7, <1>10, <1>11 DEF Queued

\* The effect of appending a request that is not on the list.
LEMMA Appended ==
    ASSUME TypeOK, ListIntact, NEW r \in Req, r \notin Queued, Append_rp(r)
    PROVE  /\ requests' \in Seq(Req)
           /\ requestsEnd' = r
           /\ IsInjective(requests')
           /\ Queued' = Queued \cup {r}
           /\ requests' # <<>>
           /\ Last(requests') = r
<1> DEFINE n == Len(requests)
<1>1. requests \in Seq(Req) /\ n \in Nat /\ IsInjective(requests)
  BY LenProperties DEF TypeOK, ListIntact
<1>2. Position(requestsEnd) = n
  <2>1. CASE requests = <<>>
    <3>1. requestsEnd \notin Queued
      BY <2>1 DEF Queued, Range
    <3> QED
      BY <2>1, <3>1 DEF Position
  <2>2. CASE requests # <<>>
    <3>1. n \in 1 .. n /\ requestsEnd = requests[n] /\ DOMAIN requests = 1 .. n
      BY <1>1, <2>2, LenProperties, EmptySeq DEF ListIntact, Last
    <3>2. requestsEnd \in Queued
      BY <3>1 DEF Queued, Range
    <3>3. Position(requestsEnd) \in 1 .. n
          /\ requests[Position(requestsEnd)] = requests[n]
      BY <3>1, <3>2, PositionOnList
    <3> QED
      BY <1>1, <3>1, <3>3 DEF IsInjective
  <2> QED
    BY <2>1, <2>2
<1>3. requests' = Append(requests, r)
  BY <1>1, <1>2, InsertAtEnd DEF Append_rp
<1>4. Range(requests') = Range(requests) \cup {r} /\ IsInjective(requests')
  BY <1>1, <1>3, AppendRange DEF Queued
<1>5. /\ requests' \in Seq(Req) /\ requests' # <<>>
      /\ Last(requests') = r
  BY <1>1, <1>3, AppendProperties DEF Last
<1> QED
  BY <1>4, <1>5 DEF Append_rp, Queued

-----------------------------------------------------------------------------
(* The steps several actions share.                                         *)

\* Only requests an application handed over are on the list.
LEMMA QueuedIsReq == TypeOK => Queued \subseteq Req
BY RangeOfSeq DEF TypeOK, Queued

\* A waiting request that finishes: the list, the outcomes and the frees move
\* together.
LEMMA FinishPreserves ==
    ASSUME IInv, NEW r \in Queued, NEW how \in Promise!Settled, Finish(r, how),
           due' \subseteq due \ {r},
           UNCHANGED <<version, open, callback, retries, sent>>,
           open
    PROVE  IInv'
<1> USE DEF IInv
<1>1. r \in Req
  BY QueuedIsReq
<1>2. how \in Outcome /\ how \notin {"unsent", "waiting", "refused"}
  BY DEF Promise!Settled, Outcome
<1>3. /\ requests' \in Seq(Req)
      /\ requestsEnd' \in Req \cup {NoReq}
      /\ IsInjective(requests')
      /\ Queued' = Queued \ {r}
      /\ requestsEnd' = IF requests' = <<>> THEN NoReq ELSE Last(requests')
  BY Unlinked DEF Finish
<1>4. /\ outcome' = [outcome EXCEPT ![r] = how]
      /\ freed' = [freed EXCEPT ![r] = @ + 1]
      /\ left' = [left EXCEPT ![r] = 0]
  BY DEF Finish
<1>5. outcome[r] = "waiting"
  BY <1>1 DEF ListIntact
<1>6. TypeOK'
  <2>1. left' \in [Req -> -1 .. Timeout]
    BY <1>1, <1>4, SessionAssumption DEF TypeOK
  <2>2. freed' \in [Req -> Nat] /\ outcome' \in [Req -> Outcome]
    BY <1>1, <1>2, <1>4 DEF TypeOK
  <2>3. due' \subseteq Queued'
    BY <1>3 DEF TypeOK
  <2> QED
    BY <1>3, <2>1, <2>2, <2>3 DEF TypeOK
<1>7. ListIntact'
  BY <1>1, <1>2, <1>3, <1>4 DEF TypeOK, ListIntact
<1>8. FreedOnce'
  BY <1>1, <1>2, <1>4, <1>5 DEF TypeOK, FreedOnce
<1>9. RepetitionsBounded' /\ ClosedIsEmpty'
  BY <1>4 DEF RepetitionsBounded, ClosedIsEmpty
<1>10. NoMessageFromTheFuture'
  BY <1>1, <1>2, <1>4 DEF TypeOK, NoMessageFromTheFuture, Message
<1> QED
  BY <1>6, <1>7, <1>8, <1>9, <1>10

\* A request that could not be repeated for want of memory stays as it is.
LEMMA ResendNothing ==
    ASSUME IInv, NEW r \in Queued, Resend(r, "nomemory"), open, due' \subseteq due
    PROVE  IInv'
<1> USE DEF IInv
<1>1. UNCHANGED <<version, open, requests, requestsEnd, callback, outcome, freed,
                  retries, sent, left>>
  BY DEF Resend
<1>2. UNCHANGED Queued
  BY <1>1 DEF Queued
<1>3. TypeOK'
  BY <1>1, <1>2 DEF TypeOK
<1>4. ListIntact' /\ FreedOnce'
  BY <1>1, <1>2 DEF ListIntact, FreedOnce
<1>5. RepetitionsBounded' /\ NoMessageFromTheFuture' /\ ClosedIsEmpty'
  BY <1>1 DEF RepetitionsBounded, NoMessageFromTheFuture, ClosedIsEmpty
<1> QED
  BY <1>3, <1>4, <1>5

\* A request that is repeated: only its counter, its timer and the wire change.
LEMMA ResendCounted ==
    ASSUME IInv, NEW r \in Queued, NEW o \in Result \ {"nomemory"}, Resend(r, o), open,
           due' \subseteq due,
           retries[r] < IF version = 3 THEN Retries + 1 ELSE Retries
    PROVE  IInv'
<1> USE DEF IInv
<1>1. r \in Req
  BY QueuedIsReq
<1>2. /\ retries' = [retries EXCEPT ![r] = @ + 1]
      /\ UNCHANGED <<version, open, requests, requestsEnd, callback, outcome, freed>>
  BY DEF Resend
<1>3. left' \in [Req -> -1 .. Timeout]
  BY <1>1, SessionAssumption DEF Resend, TypeOK
<1>4. \/ sent' = sent
      \/ sent' = sent \cup {[req |-> r, try |-> retries[r] + 1]}
  BY DEF Resend, Transmit
<1>5. retries[r] \in Nat /\ retries[r] + 1 \in 0 .. Retries + 1
  BY <1>1, SessionAssumption DEF TypeOK
<1>6. UNCHANGED Queued
  BY <1>2 DEF Queued
<1>7. retries' \in [Req -> 0 .. Retries + 1]
  BY <1>1, <1>2, <1>5 DEF TypeOK
<1>8. sent' \subseteq Message
  BY <1>1, <1>4, <1>5 DEF TypeOK, Message
<1>9. TypeOK'
  BY <1>2, <1>3, <1>6, <1>7, <1>8 DEF TypeOK
<1>10. ListIntact' /\ FreedOnce'
  BY <1>2, <1>6 DEF ListIntact, FreedOnce
<1>11. RepetitionsBounded'
  BY <1>1, <1>2, SessionAssumption DEF TypeOK, RepetitionsBounded
<1>12. NoMessageFromTheFuture'
  <2> SUFFICES ASSUME NEW m \in sent'
               PROVE  m.try <= retries'[m.req] /\ outcome'[m.req] # "unsent"
    BY DEF NoMessageFromTheFuture
  <2>1. CASE m \in sent
    <3>1. m.req \in Req /\ m.try \in Nat
      BY <2>1, SessionAssumption DEF TypeOK, Message
    <3> QED
      BY <1>1, <1>2, <1>5, <2>1, <3>1, SessionAssumption
         DEF TypeOK, NoMessageFromTheFuture
  <2>2. CASE m = [req |-> r, try |-> retries[r] + 1]
    BY <1>1, <1>2, <1>5, <2>2 DEF TypeOK, ListIntact
  <2> QED
    BY <1>4, <2>1, <2>2
<1>13. ClosedIsEmpty'
  BY <1>2 DEF ClosedIsEmpty
<1> QED
  BY <1>9, <1>10, <1>11, <1>12, <1>13

LEMMA ResendPreserves ==
    ASSUME IInv, NEW r \in Queued, NEW o \in Result, Resend(r, o), open,
           due' \subseteq due,
           retries[r] < IF version = 3 THEN Retries + 1 ELSE Retries
    PROVE  IInv'
<1>1. CASE o = "nomemory"
  BY <1>1, ResendNothing
<1>2. CASE o # "nomemory"
  BY <1>2, ResendCounted
<1> QED
  BY <1>1, <1>2

-----------------------------------------------------------------------------
(* Every action preserves the invariant.                                    *)

LEMMA InitIInv == Init => IInv
<1> SUFFICES ASSUME Init PROVE IInv
  OBVIOUS
<1>1. Queued = {}
  BY DEF Init, Queued, Range
<1>2. TypeOK
  BY <1>1, SessionAssumption DEF Init, TypeOK, Outcome
<1>3. ListIntact
  BY <1>1 DEF Init, ListIntact, IsInjective
<1> QED
  BY <1>2, <1>3, SessionAssumption
     DEF Init, IInv, FreedOnce, RepetitionsBounded, NoMessageFromTheFuture, ClosedIsEmpty

LEMMA SendIInv ==
    ASSUME IInv, NEW r \in Req, NEW cb \in BOOLEAN, Send(r, cb)
    PROVE  IInv'
<1> USE DEF IInv
<1>1. r \notin Queued
  BY DEF Send, ListIntact
<1>2. /\ requests' \in Seq(Req)
      /\ requestsEnd' = r
      /\ IsInjective(requests')
      /\ Queued' = Queued \cup {r}
      /\ requests' # <<>>
      /\ Last(requests') = r
  BY <1>1, Appended DEF Send
<1>3. /\ outcome' = [outcome EXCEPT ![r] = "waiting"]
      /\ left' = [left EXCEPT ![r] = Timeout]
      /\ callback' = [callback EXCEPT ![r] = cb]
      /\ sent' = sent \cup {[req |-> r, try |-> 0]}
      /\ UNCHANGED <<version, open, retries, due, freed>>
      /\ open /\ outcome[r] = "unsent"
  BY DEF Send, Transmit
<1>4. TypeOK'
  <2>1. left' \in [Req -> -1 .. Timeout] /\ callback' \in [Req -> BOOLEAN]
    BY <1>3, SessionAssumption DEF TypeOK
  <2>2. outcome' \in [Req -> Outcome]
    BY <1>3 DEF TypeOK, Outcome
  <2>3. sent' \subseteq Message
    BY <1>3, SessionAssumption DEF TypeOK, Message
  <2> QED
    BY <1>2, <1>3, <2>1, <2>2, <2>3 DEF TypeOK
<1>5. ListIntact'
  BY <1>2, <1>3 DEF ListIntact, TypeOK
<1>6. FreedOnce'
  BY <1>3 DEF FreedOnce, TypeOK
<1>7. NoMessageFromTheFuture'
  <2> SUFFICES ASSUME NEW m \in sent'
               PROVE  m.try <= retries'[m.req] /\ outcome'[m.req] # "unsent"
    BY DEF NoMessageFromTheFuture
  <2>1. retries[r] \in 0 .. Retries + 1
    BY DEF TypeOK
  <2>2. CASE m \in sent
    BY <1>3, <2>2 DEF TypeOK, NoMessageFromTheFuture, Message
  <2>3. CASE m = [req |-> r, try |-> 0]
    BY <1>3, <2>1, <2>3 DEF TypeOK
  <2> QED
    BY <1>3, <2>2, <2>3
<1> QED
  BY <1>3, <1>4, <1>5, <1>6, <1>7 DEF RepetitionsBounded, ClosedIsEmpty

\* Refuse and Notify leave the list alone and settle a request at once.
LEMMA TurnAwayIInv ==
    ASSUME IInv, NEW r \in Req, Refuse(r) \/ Notify(r)
    PROVE  IInv'
<1> USE DEF IInv
<1>1. /\ open /\ outcome[r] = "unsent"
      /\ UNCHANGED <<version, open, requests, requestsEnd, callback, retries, left, due>>
  BY DEF Refuse, Notify
<1>2. UNCHANGED Queued
  BY <1>1 DEF Queued
<1>3. sent' = sent \/ sent' = sent \cup {[req |-> r, try |-> 0]}
  BY DEF Refuse, Notify, Transmit
<1>4. \/ /\ outcome' = [outcome EXCEPT ![r] = "refused"]
         /\ freed' = freed
      \/ /\ outcome' = [outcome EXCEPT ![r] = "notified"]
         /\ freed' = [freed EXCEPT ![r] = @ + 1]
  BY DEF Refuse, Notify
<1>5. TypeOK'
  <2>1. sent' \subseteq Message
    BY <1>3, SessionAssumption DEF TypeOK, Message
  <2>2. outcome' \in [Req -> Outcome]
    BY <1>4 DEF TypeOK, Outcome
  <2>3. freed' \in [Req -> Nat]
    BY <1>4 DEF TypeOK
  <2> QED
    BY <1>1, <1>2, <2>1, <2>2, <2>3 DEF TypeOK
<1>6. ListIntact'
  BY <1>1, <1>2, <1>4 DEF ListIntact, TypeOK
<1>7. FreedOnce'
  BY <1>1, <1>4 DEF FreedOnce, TypeOK
<1>8. NoMessageFromTheFuture'
  <2> SUFFICES ASSUME NEW m \in sent'
               PROVE  m.try <= retries'[m.req] /\ outcome'[m.req] # "unsent"
    BY DEF NoMessageFromTheFuture
  <2>1. retries[r] \in 0 .. Retries + 1
    BY DEF TypeOK
  <2>2. CASE m \in sent
    BY <1>1, <1>4, <2>2 DEF TypeOK, NoMessageFromTheFuture, Message
  <2>3. CASE m = [req |-> r, try |-> 0]
    BY <1>1, <1>4, <2>1, <2>3 DEF TypeOK
  <2> QED
    BY <1>3, <2>2, <2>3
<1> QED
  BY <1>1, <1>5, <1>6, <1>7, <1>8 DEF RepetitionsBounded, ClosedIsEmpty

LEMMA ProcessPacketIInv ==
    ASSUME IInv, NEW m \in sent, NEW r \in Req,
           Answer(m, r) \/ TimeWindowReport(m, r) \/ FinalReport(m, r)
    PROVE  IInv'
<1>1. open /\ r \in Queued
  BY DEF Answer, TimeWindowReport, FinalReport, Reading, Matches
<1>2. due = {}
  BY DEF Answer, TimeWindowReport, FinalReport, Reading
<1>3. CASE Answer(m, r)
  <2>1. Finish(r, "answered") /\ "answered" \in Promise!Settled
    BY <1>3 DEF Answer, Promise!Settled
  <2>2. due' \subseteq due \ {r} /\ UNCHANGED <<version, open, callback, retries, sent>>
    BY <1>2, <1>3 DEF Answer
  <2> QED
    BY <1>1, <2>1, <2>2, FinishPreserves
<1>4. CASE FinalReport(m, r)
  <2>1. Finish(r, "reported") /\ "reported" \in Promise!Settled
    BY <1>4 DEF FinalReport, Promise!Settled
  <2>2. due' \subseteq due \ {r} /\ UNCHANGED <<version, open, callback, retries, sent>>
    BY <1>2, <1>4 DEF FinalReport
  <2> QED
    BY <1>1, <2>1, <2>2, FinishPreserves
<1>5. CASE TimeWindowReport(m, r)
  <2>1. PICK o \in Result : Resend(r, o)
    BY <1>5 DEF TimeWindowReport
  <2>2. retries[r] < IF version = 3 THEN Retries + 1 ELSE Retries
    BY <1>5, SessionAssumption DEF TimeWindowReport, IInv, TypeOK
  <2>3. due' \subseteq due
    BY <1>5 DEF TimeWindowReport
  <2> QED
    BY <1>1, <2>1, <2>2, <2>3, ResendPreserves
<1> QED
  BY <1>3, <1>4, <1>5

LEMMA TickIInv == IInv /\ Tick => IInv'
<1> SUFFICES ASSUME IInv, Tick PROVE IInv'
  OBVIOUS
<1> USE DEF IInv
<1>1. UNCHANGED <<version, open, requests, requestsEnd, callback, retries, due,
                  sent, outcome, freed>>
  BY DEF Tick
<1>2. UNCHANGED Queued
  BY <1>1 DEF Queued
<1>3. left' \in [Req -> -1 .. Timeout]
  BY SessionAssumption DEF Tick, TypeOK
<1> QED
  BY <1>1, <1>2, <1>3 DEF TypeOK, ListIntact, FreedOnce, RepetitionsBounded,
                          NoMessageFromTheFuture, ClosedIsEmpty

LEMMA StartTimeoutIInv == IInv /\ StartTimeout => IInv'
<1> SUFFICES ASSUME IInv, StartTimeout PROVE IInv'
  OBVIOUS
<1> USE DEF IInv
<1>1. /\ open
      /\ UNCHANGED <<version, open, requests, requestsEnd, callback, retries, left,
                     sent, outcome, freed>>
  BY DEF StartTimeout
<1>2. UNCHANGED Queued
  BY <1>1 DEF Queued
<1>3. due' \subseteq Queued
  BY DEF StartTimeout, Expired
<1> QED
  BY <1>1, <1>2, <1>3 DEF TypeOK, ListIntact, FreedOnce, RepetitionsBounded,
                          NoMessageFromTheFuture, ClosedIsEmpty

LEMMA TimeoutStepIInv ==
    ASSUME IInv, NEW r \in Req, GiveUp(r) \/ Retry(r)
    PROVE  IInv'
<1>1. r \in due /\ r \in Queued
  BY DEF GiveUp, Retry, Repeat, FirstDue, IInv, TypeOK
<1>2. open
  BY <1>1 DEF IInv, ClosedIsEmpty
<1>3. CASE GiveUp(r)
  <2>1. Finish(r, "timedout") /\ "timedout" \in Promise!Settled
    BY <1>3 DEF GiveUp, Promise!Settled
  <2>2. due' \subseteq due \ {r} /\ UNCHANGED <<version, open, callback, retries, sent>>
    BY <1>3 DEF GiveUp
  <2> QED
    BY <1>1, <1>2, <2>1, <2>2, FinishPreserves
<1>4. CASE Retry(r)
  <2>1. PICK o \in Result : Resend(r, o) /\ due' \subseteq due
    BY <1>4 DEF Retry, Repeat
  <2>2. retries[r] < IF version = 3 THEN Retries + 1 ELSE Retries
    BY <1>4, SessionAssumption DEF Retry, Repeat, IInv, TypeOK
  <2> QED
    BY <1>1, <1>2, <2>1, <2>2, ResendPreserves
<1> QED
  BY <1>3, <1>4

LEMMA CloseIInv == IInv /\ Close => IInv'
<1> SUFFICES ASSUME IInv, Close PROVE IInv'
  OBVIOUS
<1> USE DEF IInv
<1>1. /\ requests' = <<>> /\ requestsEnd' = NoReq /\ open' = FALSE
      /\ due = {} /\ UNCHANGED <<version, callback, retries, due, sent>>
  BY DEF Close
<1>2. Queued' = {}
  BY <1>1 DEF Queued, Range
<1>3. /\ outcome' \in [Req -> Outcome]
      /\ \A r \in Req : outcome'[r] = IF r \notin Queued THEN outcome[r]
                                       ELSE IF callback[r] THEN "timedout" ELSE "dropped"
  BY DEF Close, TypeOK, Outcome
<1>4. /\ freed' \in [Req -> Nat]
      /\ \A r \in Req : freed'[r] = IF r \in Queued THEN freed[r] + 1 ELSE freed[r]
  BY DEF Close, TypeOK
<1>5. left' \in [Req -> -1 .. Timeout]
  BY SessionAssumption DEF Close
<1>6. TypeOK'
  <2>1. requests' \in Seq(Req)
    BY <1>1, EmptySeq
  <2>2. due' \subseteq Queued' /\ sent' \subseteq Message /\ open' \in BOOLEAN
        /\ requestsEnd' \in Req \cup {NoReq}
    BY <1>1, <1>2 DEF TypeOK
  <2>3. version' \in Version /\ callback' \in [Req -> BOOLEAN]
        /\ retries' \in [Req -> 0 .. Retries + 1]
    BY <1>1 DEF TypeOK
  <2> QED
    BY <1>3, <1>4, <1>5, <2>1, <2>2, <2>3 DEF TypeOK
<1>7. ListIntact'
  BY <1>1, <1>2, <1>3 DEF ListIntact, IsInjective
<1>8. FreedOnce'
  BY <1>3, <1>4 DEF FreedOnce, ListIntact
<1>9. NoMessageFromTheFuture'
  BY <1>1, <1>3 DEF NoMessageFromTheFuture, TypeOK, Message
<1>10. ClosedIsEmpty'
  BY <1>1, <1>3 DEF ClosedIsEmpty, ListIntact
<1> QED
  BY <1>1, <1>6, <1>7, <1>8, <1>9, <1>10 DEF RepetitionsBounded

LEMMA NextIInv == IInv /\ [Next]_vars => IInv'
<1> SUFFICES ASSUME IInv, [Next]_vars PROVE IInv'
  OBVIOUS
<1>1. ASSUME NEW r \in Req, NEW cb \in BOOLEAN, Send(r, cb) PROVE IInv'
  BY <1>1, SendIInv
<1>2. ASSUME NEW r \in Req, Refuse(r) \/ Notify(r) PROVE IInv'
  BY <1>2, TurnAwayIInv
<1>3. CASE ProcessPacket
  BY <1>3, ProcessPacketIInv DEF ProcessPacket
<1>4. CASE TimeoutStep
  BY <1>4, TimeoutStepIInv DEF TimeoutStep
<1>5. CASE UNCHANGED vars
  <2>1. UNCHANGED Queued
    BY <1>5 DEF vars, Queued
  <2> QED
    BY <1>5, <2>1 DEF vars, IInv, TypeOK, ListIntact, FreedOnce, RepetitionsBounded,
                      NoMessageFromTheFuture, ClosedIsEmpty
<1> QED
  BY <1>1, <1>2, <1>3, <1>4, <1>5, TickIInv, StartTimeoutIInv, CloseIInv DEF Next

-----------------------------------------------------------------------------
(* The theorems.                                                            *)

\* The inductive invariant holds throughout.
THEOREM Invariance == Spec => []IInv
<1> QED
  BY InitIInv, NextIInv, PTL DEF Spec

\* The types of SnmpSession hold for any number of requests and retries.
THEOREM TypeCorrect == Spec => []TypeOK
<1>1. IInv => TypeOK
  BY DEF IInv
<1> QED
  BY <1>1, Invariance, PTL

\* requestsEnd is always the last request of a list without duplicates that
\* holds exactly the waiting requests.
THEOREM ListAlwaysIntact == Spec => []ListIntact
<1>1. IInv => ListIntact
  BY DEF IInv
<1> QED
  BY <1>1, Invariance, PTL

\* No interleaving of answers, reports, timeouts and close frees a PDU twice,
\* frees one that still waits, or forgets one.
THEOREM PdusFreedOnce == Spec => []FreedOnce
<1>1. IInv => FreedOnce
  BY DEF IInv
<1> QED
  BY <1>1, Invariance, PTL

\* The number of repetitions is bounded whatever reports arrive.
THEOREM RepetitionsAlwaysBounded == Spec => []RepetitionsBounded
<1>1. IInv => RepetitionsBounded
  BY DEF IInv
<1> QED
  BY <1>1, Invariance, PTL

\* No message carries an id its request has not reached.
THEOREM MessagesNeverAhead == Spec => []NoMessageFromTheFuture
<1>1. IInv => NoMessageFromTheFuture
  BY DEF IInv
<1> QED
  BY <1>1, Invariance, PTL

\* Nothing waits on a closed session.
THEOREM ClosedAlwaysEmpty == Spec => []ClosedIsEmpty
<1>1. IInv => ClosedIsEmpty
  BY DEF IInv
<1> QED
  BY <1>1, Invariance, PTL

\* A request that finishes settles in the abstract specification.
LEMMA FinishSettles ==
    ASSUME IInv, NEW r \in Queued, NEW how \in Promise!Settled,
           Finish(r, how), UNCHANGED retries
    PROVE  Promise!Settle
<1>1. r \in Req /\ outcome[r] = "waiting"
  BY QueuedIsReq DEF IInv, ListIntact
<1>2. outcome' = [outcome EXCEPT ![r] = how]
  BY DEF Finish
<1>3. outcome \in [Req -> Outcome]
  BY DEF IInv, TypeOK
<1>4. outcome' \in [Req -> {"unsent", "waiting", "refused", "notified"} \cup Promise!Settled]
  BY <1>2, <1>3 DEF Outcome, Promise!Settled
<1>5. \A q \in Req : outcome'[q] # outcome[q] =>
                        outcome[q] = "waiting" /\ outcome'[q] \in Promise!Settled
  BY <1>1, <1>2, <1>3
<1> QED
  BY <1>4, <1>5 DEF Promise!Settle

\* A request that is repeated is repeated in the abstract specification, which
\* does not notice when there was no memory.
LEMMA ResendRepeats ==
    ASSUME IInv, NEW r \in Queued, NEW o \in Result, Resend(r, o),
           retries[r] <= Retries
    PROVE  r \in Req /\ (Promise!Repeat(r) \/ UNCHANGED <<outcome, retries>>)
<1>1. r \in Req /\ outcome[r] = "waiting"
  BY QueuedIsReq DEF IInv, ListIntact
<1>2. retries[r] < Retries + 1
  BY <1>1, SessionAssumption DEF IInv, TypeOK
<1> QED
  BY <1>1, <1>2 DEF Resend, Promise!Repeat

\* SnmpSession implements RequestPromise: whatever arrives, in any order and
\* any number of times, every request has one final outcome and a bounded
\* number of repetitions.
THEOREM SessionKeepsPromise == Spec => KeepsPromise
<1>1. Init => Promise!Init
  BY DEF Init, Promise!Init
<1>2. IInv /\ [Next]_vars => [Promise!Next]_(Promise!promiseVars)
  <2> SUFFICES ASSUME IInv, [Next]_vars
               PROVE  Promise!Next \/ UNCHANGED <<outcome, retries>>
    BY DEF Promise!promiseVars
  <2>1. ASSUME NEW r \in Req, NEW cb \in BOOLEAN, Send(r, cb)
        PROVE  Promise!Next
    BY <2>1 DEF Send, Promise!Next, Promise!Take
  <2>2. ASSUME NEW r \in Req, Refuse(r) \/ Notify(r)
        PROVE  Promise!Next
    BY <2>2 DEF Refuse, Notify, Promise!Next, Promise!Take
  <2>3. ASSUME NEW m \in sent, NEW r \in Req,
               Answer(m, r) \/ TimeWindowReport(m, r) \/ FinalReport(m, r)
        PROVE  Promise!Next \/ UNCHANGED <<outcome, retries>>
    <3>1. r \in Queued
      BY <2>3 DEF Answer, TimeWindowReport, FinalReport, Reading, Matches
    <3>2. CASE Answer(m, r)
      BY <3>1, <3>2, FinishSettles DEF Answer, Promise!Next, Promise!Settled
    <3>3. CASE FinalReport(m, r)
      BY <3>1, <3>3, FinishSettles DEF FinalReport, Promise!Next, Promise!Settled
    <3>4. CASE TimeWindowReport(m, r)
      BY <3>1, <3>4, ResendRepeats DEF TimeWindowReport, Promise!Next
    <3> QED
      BY <2>3, <3>2, <3>3, <3>4
  <2>4. ASSUME NEW r \in Req, GiveUp(r) \/ Retry(r)
        PROVE  Promise!Next \/ UNCHANGED <<outcome, retries>>
    <3>1. r \in Queued
      BY <2>4 DEF GiveUp, Retry, Repeat, FirstDue, IInv, TypeOK
    <3>2. CASE GiveUp(r)
      BY <3>1, <3>2, FinishSettles DEF GiveUp, Promise!Next, Promise!Settled
    <3>3. CASE Retry(r)
      <4>1. retries[r] <= Retries
        BY <3>3, SessionAssumption DEF Retry, Repeat, IInv, TypeOK
      <4> QED
        BY <3>1, <3>3, <4>1, ResendRepeats DEF Retry, Repeat, Promise!Next
    <3> QED
      BY <2>4, <3>2, <3>3
  <2>5. CASE Tick \/ StartTimeout \/ UNCHANGED vars
    BY <2>5 DEF Tick, StartTimeout, vars
  <2>6. CASE Close
    <3>1. outcome \in [Req -> Outcome]
      BY DEF IInv, TypeOK
    <3>2. outcome' \in [Req -> {"unsent", "waiting", "refused", "notified"}
                                 \cup Promise!Settled]
      BY <2>6, <3>1 DEF Close, Outcome, Promise!Settled
    <3>3. \A q \in Req : outcome'[q] # outcome[q] =>
                            outcome[q] = "waiting" /\ outcome'[q] \in Promise!Settled
      BY <2>6, <3>1 DEF Close, Promise!Settled, IInv, ListIntact
    <3> QED
      BY <2>6, <3>2, <3>3 DEF Close, Promise!Settle, Promise!Next
  <2> QED
    BY <2>1, <2>2, <2>3, <2>4, <2>5, <2>6 DEF Next, ProcessPacket, TimeoutStep
<1> QED
  BY <1>1, <1>2, Invariance, PTL DEF Spec, KeepsPromise, Promise!Spec
=============================================================================
