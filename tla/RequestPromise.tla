--------------------------- MODULE RequestPromise ---------------------------
(***************************************************************************)
(* What an SNMP session promises to whoever hands it a request PDU,        *)
(* without its lists, timers and packets: a request that is taken settles  *)
(* once, for good, after at most MaxTries repetitions.  SnmpSession is     *)
(* shown to implement this module.                                         *)
(***************************************************************************)
EXTENDS Naturals

CONSTANTS Req,        \* the requests an application may hand over
          MaxTries    \* how often one request may be repeated

VARIABLES outcome,    \* what the application has been told of each request
          tries       \* repetitions of each request so far

promiseVars == <<outcome, tries>>

Settled == {"answered", "reported", "timedout", "dropped"}

Init == /\ outcome = [r \in Req |-> "unsent"]
        /\ tries = [r \in Req |-> 0]

\* The session takes the request, turns it down, or sends it away for good.
Take(r) == /\ outcome[r] = "unsent"
           /\ \E o \in {"waiting", "refused", "notified"} :
                 outcome' = [outcome EXCEPT ![r] = o]
           /\ UNCHANGED tries

Repeat(r) == /\ outcome[r] = "waiting"
             /\ tries[r] < MaxTries
             /\ tries' = [tries EXCEPT ![r] = @ + 1]
             /\ UNCHANGED outcome

\* Only a request that waits can settle; several may at once, on close.
Settle == /\ outcome' \in [Req -> {"unsent", "waiting", "refused", "notified"} \cup Settled]
          /\ \A r \in Req : outcome'[r] # outcome[r] =>
                               outcome[r] = "waiting" /\ outcome'[r] \in Settled
          /\ UNCHANGED tries

Next == Settle \/ \E r \in Req : Take(r) \/ Repeat(r)

Spec == Init /\ [][Next]_promiseVars
=============================================================================
