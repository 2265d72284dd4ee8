------------------------------ MODULE Sessions ------------------------------
(***************************************************************************)
(* All open sessions of snmp/snmp_api.c: the list Sessions, and the three  *)
(* loops over it that a program runs in turn: snmp_sess_select_info2_flags *)
(* collects descriptors and the earliest timer, and closes sessions whose  *)
(* connection has ended; select waits; then either snmp_read2 or           *)
(* snmp_timeout visits the sessions.  From inside the callbacks of these   *)
(* loops sessions are opened and closed and requests sent.                 *)
(*                                                                         *)
(* The requests of a session are those of SnmpSession; here they are one   *)
(* timer, the earliest of theirs.                                          *)
(*                                                                         *)
(* A callback may close any session, also the one that the loop goes on    *)
(* with when the callback returns: the session that called, or, in         *)
(* select_info, the next one, whose address was saved before the callback. *)
(* The loop then reads freed memory.  Auxiliary variable stray says so,    *)
(* and the behaviour ends there.                                           *)
(***************************************************************************)
EXTENDS Integers, SequencesExt

CONSTANTS Session,      \* the memory of struct session_list
          Fd,           \* the descriptors of the operating system
          NoFd,         \* the descriptor -1: marked for deletion
          Null,
          Timeout       \* the longest timer of a request

ASSUME SessionsAssumption == /\ IsFiniteSet(Session)
                             /\ Timeout \in Nat
                             /\ Null \notin Session
                             /\ NoFd \notin Fd

VARIABLES
    head,       \* Sessions
    next,       \* slp->next
    live,       \* the entries that are allocated
    sock,       \* slp->transport->sock
    kind,       \* datagram, stream or listening transport
    left,       \* time until the first request of the session expires, or Never
    round,      \* the loop that runs, "select", or "none"
    slp,        \* the session the loop visits, or next
    calling,    \* is a callback running in the loop, and what follows it
    fdset,      \* the descriptors for select, then those it has reported
    wait,       \* the timeout for select; Never stands for *block = 1
    reported,   \* sessions whose descriptor select has reported, not yet read
    late,       \* auxiliary: sessions on which a callback of select_info has sent
    stray       \* auxiliary: a callback has closed what the loop goes on with

list == <<head, next, live>>
session == <<sock, kind, left>>
loop == <<round, slp, calling, fdset, wait>>
seen == <<reported, late, stray>>
vars == <<list, session, loop, seen>>

Never == Timeout + 1

Init == /\ head = Null
        /\ next = [s \in Session |-> Null]
        /\ live = {}
        /\ sock = [s \in Session |-> NoFd]
        /\ kind = [s \in Session |-> "datagram"]
        /\ left = [s \in Session |-> Never]
        /\ round = "none" /\ slp = Null /\ calling = "no"
        /\ fdset = {} /\ wait = Never
        /\ reported = {} /\ late = {} /\ stray = FALSE

Marked(s) == sock[s] = NoFd

\* The entries from n on, as many as there can be.
Chain(n) == LET go[j \in 0 .. Cardinality(Session)] ==
                  IF j = 0 THEN IF n = Null THEN <<>> ELSE <<n>>
                  ELSE LET w == go[j - 1]
                       IN  IF Len(w) < j \/ next[w[j]] = Null THEN w
                           ELSE Append(w, next[w[j]])
            IN  go[Cardinality(Session)]

Listed == ToSet(Chain(head))

FreeFds == Fd \ {sock[s] : s \in live}

-----------------------------------------------------------------------------
(* The list.                                                                *)

\* Mutant: a new session goes to the end of the list.
Push_tail(n) == IF head = Null THEN head' = n /\ next' = [next EXCEPT ![n] = Null]
                ELSE /\ next' = [next EXCEPT ![n] = Null, ![Last(Chain(head))] = n]
                     /\ UNCHANGED head

\* snmp_open, snmp_add and an accepted connection alike.
Push(n) == head' = n /\ next' = [next EXCEPT ![n] = head]

Create(n, k, fd) == /\ n \notin live
                    /\ live' = live \cup {n}
                    /\ sock' = [sock EXCEPT ![n] = fd]
                    /\ kind' = [kind EXCEPT ![n] = k]
                    /\ left' = [left EXCEPT ![n] = Never]
                    /\ Push(n)

\* Mutant: the entry before the one to remove is not kept up to date.
Unlink_from_first(s) ==
    IF head = s THEN head' = next[s] /\ next' = [next EXCEPT ![s] = Null]
    ELSE next' = [next EXCEPT ![head] = next[s], ![s] = Null] /\ UNCHANGED head

\* snmp_close: the first entry, or the one behind oslp.  What freed memory holds
\* is forgotten.
Unlink(s) ==
    IF head = s THEN head' = next[s] /\ next' = [next EXCEPT ![s] = Null]
    ELSE LET oslp == CHOOSE o \in Listed : next[o] = s
         IN  next' = [next EXCEPT ![oslp] = next[s], ![s] = Null] /\ UNCHANGED head

\* snmp_close and snmp_sess_close.
Free(s) == /\ Unlink(s)
           /\ live' = live \ {s}
           /\ sock' = [sock EXCEPT ![s] = NoFd]
           /\ left' = [left EXCEPT ![s] = Never]
           /\ kind' = [kind EXCEPT ![s] = "datagram"]
           /\ reported' = reported \ {s}
           /\ late' = late \ {s}

-----------------------------------------------------------------------------
(* What the program does between the loops and in callbacks.                *)

Running == ~stray /\ (round = "none" \/ calling # "no")

Open == \E n \in Session, k \in {"datagram", "stream", "listen"}, fd \in FreeFds :
            /\ Running
            /\ Create(n, k, fd)
            /\ UNCHANGED <<loop, seen>>

\* The loops have slp in a variable of theirs while a callback runs: the session
\* that called, or the saved next one.
Close == \E s \in Listed : Running /\ Free(s) /\ stray' = (s = slp) /\ UNCHANGED loop

\* snmp_send; a listening session has no peer.
Send == \E s \in Listed :
            /\ Running
            /\ kind[s] # "listen" /\ ~Marked(s) /\ left[s] = Never
            /\ left' = [left EXCEPT ![s] = Timeout]
            /\ late' = IF round = "info" THEN late \cup {s} ELSE late
            /\ UNCHANGED <<list, sock, kind, loop, reported, stray>>

-----------------------------------------------------------------------------
(* snmp_sess_select_info2_flags for all sessions.                           *)

StartInfo == /\ round = "none"
             /\ round' = "info" /\ slp' = head
             /\ UNCHANGED <<list, session, calling, fdset, wait, seen>>

\* The earlier of the earliest so far and the session's.
Earliest(s) == IF left[s] < wait THEN left[s] ELSE wait

Collect == /\ round = "info" /\ calling = "no" /\ slp # Null
           /\ ~Marked(slp)
           /\ fdset' = fdset \cup {sock[slp]}
           /\ wait' = Earliest(slp)
           /\ slp' = next[slp]
           /\ UNCHANGED <<list, session, round, calling, seen>>

\* next = slp->next is read before anything else.
Successor == next[slp]

\* snmp_close on a marked session calls the callbacks of its requests.
CloseMarked == /\ round = "info" /\ calling = "no" /\ slp # Null
               /\ Marked(slp)
               /\ Free(slp)
               /\ slp' = Successor
               /\ calling' = IF left[slp] = Never THEN "no" ELSE "yes"
               /\ UNCHANGED <<round, fdset, wait, stray>>

EndInfo == /\ round = "info" /\ calling = "no" /\ slp = Null
           /\ round' = "select"
           /\ UNCHANGED <<list, session, slp, calling, fdset, wait, seen>>

\* The same for one session, given by snmp_sess_pointer.  One that is marked would be
\* freed without leaving the list; a program asks about one that is not.
SingleInfo(s) == /\ round = "none" /\ s \in Listed
                 /\ ~Marked(s)
                 /\ fdset' = {sock[s]}
                 /\ wait' = left[s]
                 /\ round' = "single"
                 /\ UNCHANGED <<list, session, slp, calling, seen>>

-----------------------------------------------------------------------------
(* select: descriptors are ready within the timeout, the timeout is over,   *)
(* or it fails, for instance on a descriptor that was closed since.         *)

Owners(fds) == {s \in live : sock[s] \in fds}

Elapse(d) == left' = [s \in Session |-> IF left[s] = Never THEN Never
                                        ELSE IF left[s] < d THEN 0 ELSE left[s] - d]

SelectReady == \E fds \in SUBSET fdset, d \in 0 .. Timeout :
    /\ round = "select"
    /\ d <= wait
    /\ fdset \cap FreeFds = {}
    /\ fds # {}
    /\ Elapse(d)
    /\ fdset' = fds
    /\ reported' = Owners(fds) /\ late' = {}
    /\ round' = "read" /\ slp' = head
    /\ wait' = Never
    /\ UNCHANGED <<list, sock, kind, calling, stray>>

SelectTimesOut == /\ round = "select" /\ wait # Never
                  /\ Elapse(wait)
                  /\ round' = "timeout" /\ slp' = head
                  /\ fdset' = {} /\ wait' = Never /\ late' = {}
                  /\ UNCHANGED <<list, sock, kind, calling, reported, stray>>

SelectFails == /\ round = "select"
               /\ round' = "none"
               /\ fdset' = {} /\ wait' = Never /\ late' = {}
               /\ UNCHANGED <<list, session, slp, calling, reported, stray>>

\* What a program does with a single session does not concern the others.
EndSingle == /\ round = "single"
             /\ round' = "none"
             /\ fdset' = {} /\ wait' = Never
             /\ UNCHANGED <<list, session, slp, calling, seen>>

-----------------------------------------------------------------------------
(* snmp_read2.                                                              *)

Visiting(r) == round = r /\ calling = "no" /\ slp # Null

IsSet(s) == ~Marked(s) /\ sock[s] \in fdset

NotReady == /\ Visiting("read") /\ ~IsSet(slp)
            /\ slp' = next[slp]
            /\ UNCHANGED <<list, session, round, calling, fdset, wait, seen>>

\* A datagram, or what has come over a stream: the callback of a request that
\* is answered, or of the session.
ReadData == /\ Visiting("read") /\ IsSet(slp) /\ kind[slp] # "listen"
            /\ reported' = reported \ {slp}
            /\ calling' = "yes"
            /\ \E t \in {left[slp], Never} : left' = [left EXCEPT ![slp] = t]
            /\ UNCHANGED <<list, sock, kind, round, slp, fdset, wait, late, stray>>

\* The remote end has closed the connection: the callback is told.
ReadEnd == /\ Visiting("read") /\ IsSet(slp) /\ kind[slp] = "stream"
           /\ reported' = reported \ {slp}
           /\ calling' = "ended"
           /\ UNCHANGED <<list, session, round, slp, fdset, wait, late, stray>>

\* A new session for the connection, whose callback is told.
Accept == \E n \in Session, fd \in FreeFds :
            /\ Visiting("read") /\ IsSet(slp) /\ kind[slp] = "listen"
            /\ Create(n, "stream", fd)
            /\ reported' = reported \ {slp}
            /\ calling' = "yes"
            /\ UNCHANGED <<round, slp, fdset, wait, late, stray>>

AcceptFails == /\ Visiting("read") /\ IsSet(slp) /\ kind[slp] = "listen"
               /\ reported' = reported \ {slp}
               /\ slp' = next[slp]
               /\ UNCHANGED <<list, session, round, calling, fdset, wait, late, stray>>

-----------------------------------------------------------------------------
(* snmp_timeout.                                                            *)

NotExpired == /\ Visiting("timeout") /\ left[slp] # 0
              /\ slp' = next[slp]
              /\ UNCHANGED <<list, session, round, calling, fdset, wait, seen>>

\* The request is sent again, with success or without.
Repeat == /\ Visiting("timeout") /\ left[slp] = 0
          /\ \E t \in {0, Timeout} : left' = [left EXCEPT ![slp] = t]
          /\ slp' = next[slp]
          /\ UNCHANGED <<list, sock, kind, round, calling, fdset, wait, seen>>

\* There are no more chances: its callback is told.
GiveUp == /\ Visiting("timeout") /\ left[slp] = 0
          /\ left' = [left EXCEPT ![slp] = Never]
          /\ calling' = "yes"
          /\ UNCHANGED <<list, sock, kind, round, slp, fdset, wait, seen>>

\* A callback returns.  Only then a connection that has ended is closed and
\* its session marked for deletion.  The loops read slp->next now.
Return == /\ calling # "no" /\ ~stray
          /\ calling' = "no"
          /\ sock' = IF calling = "ended" THEN [sock EXCEPT ![slp] = NoFd] ELSE sock
          /\ slp' = IF round = "info" THEN slp ELSE next[slp]
          /\ UNCHANGED <<list, kind, left, round, fdset, wait, seen>>

EndRound == /\ round \in {"read", "timeout"} /\ calling = "no" /\ slp = Null
            /\ round' = "none" /\ fdset' = {}
            /\ UNCHANGED <<list, session, slp, calling, wait, seen>>

Info == StartInfo \/ Collect \/ CloseMarked \/ EndInfo
Select == SelectReady \/ SelectTimesOut \/ SelectFails
Read == NotReady \/ ReadData \/ ReadEnd \/ Accept \/ AcceptFails
Expire == NotExpired \/ Repeat \/ GiveUp

Next == \/ Open \/ Close \/ Send
        \/ \E s \in Session : SingleInfo(s)
        \/ EndSingle
        \/ Info \/ Select \/ Read \/ Expire
        \/ Return \/ EndRound

\* The program keeps looking at all of its sessions, its loops go on, and
\* callbacks return.
Fairness == SF_vars(StartInfo) /\ WF_vars(Info) /\ WF_vars(Select) /\ WF_vars(Read) /\ WF_vars(Expire)
            /\ WF_vars(Return) /\ WF_vars(EndRound) /\ WF_vars(EndSingle)

Spec == Init /\ [][Next]_vars /\ Fairness

-----------------------------------------------------------------------------
(* Properties.                                                              *)

\* The list holds exactly the sessions that are open, and no loop goes on with one
\* that was freed, although callbacks and the loops themselves close sessions:
\* unless it is a callback that closes this very session.
LoopsOnLive == Listed = live /\ (slp # Null /\ ~stray => slp \in live)

\* snmp_read2 reads a session only if select has reported its own descriptor
\* in this round.  A session opened in a callback may be given the number of one
\* that was reported and closed; reading it would block the program.
ReadsOnlyReported == ReadData \/ ReadEnd => slp \in reported

\* Whatever callbacks open and close, a round of snmp_read2 reads every session
\* that was reported and is still open.
ReportedAreRead == round = "read" /\ slp = Null /\ calling = "no" => reported = {}

\* snmp_api.c:5971 says of *timeout: "the maximum time the caller is allowed to
\* wait before invoking the Net-SNMP processing functions".  select is told to
\* wait no longer than until the first request of any session expires, unless it
\* was sent by a callback of the very loop that computes the time.
WakesInTime == round = "select" => \A s \in Listed \ late : wait <= left[s]

\* The loops over the sessions are safe, and none of them misses a session.
LoopsSound == LoopsOnLive /\ ReportedAreRead /\ WakesInTime

\* A session whose connection has ended is closed some time later, unless a loop
\* has lost its way before.
MarkedIsClosed == \A s \in Session :
                      s \in live /\ Marked(s) ~> s \notin live \/ stray

\* Sessions are served when select says so and not before, and not when they are over.
SessionsServed == [][ReadsOnlyReported]_vars /\ MarkedIsClosed
=============================================================================
