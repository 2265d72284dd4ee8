----------------------------- MODULE AfdxBoard -----------------------------
(***************************************************************************)
(* The board that takes the place of UDP: l_Init (afdx/afdx_LogInOut.c)    *)
(* logs in, and every message the session transmits is one call of         *)
(* l_TransmitAFDXSetup(1, 0, ...) (afdx/afdx_GenericTX.c), which sets the  *)
(* port up anew, starts it for one cycle, and stops it.                    *)
(*                                                                         *)
(* Nearly every board command can fail.  AIM_ASSERT then leaves the        *)
(* function it stands in, and only that one: l_TransmitAFDXSetup ignores   *)
(* what its parts return.  The board itself sends on its own.              *)
(***************************************************************************)
EXTENDS Integers, FiniteSets

CONSTANTS Msg,         \* the messages the session transmits
          NoMsg,
          Selection,   \* what Sel[0], which is never initialized, may select
          Buffers,     \* the data buffer queues of the extended setup
          LastBuffer,  \* the one set up last
          SubQueues,   \* its sub queues
          MaxCalls     \* a bound for TLC: transmissions looked at

ASSUME BoardAssumption == /\ NoMsg \notin Msg
                          /\ Selection \subseteq {"basic", "fragmented", "extended"}
                          /\ LastBuffer \in Buffers
                          /\ Buffers \cap SubQueues = {}
                          /\ MaxCalls \in Nat

VARIABLES
    at,          \* what l_TransmitAFDXSetup does next
    granted,     \* FdxLogin granted handle 1, the literal that sendto uses
    calls,       \* number of the running, or last, call
    msg,         \* its message
    handed,      \* every message handed over
    selection,   \* the setup it has selected
    handles,     \* non-zero entries of its two arrays of handles
    allocated,   \* what is allocated on the board
    stuck,       \* what the board has refused to release
    queue,       \* the frames on the port's transmit queue
    running,     \* the port transmits
    wire,        \* the frames the board has sent
    suspect      \* a command failed since the queue was last created

boardVars == <<at, granted, calls, msg, handed, selection, handles, allocated, stuck,
               queue, running, wire, suspect>>

\* A handle names the call it was allocated in.
Handle == (1 .. MaxCalls) \X (Buffers \cup SubQueues)

\* of = NoMsg: one of the frames built into the two demonstration setups.
Frame == [of : Msg \cup {NoMsg}, call : 1 .. MaxCalls, uses : SUBSET Handle]

BoardTypeOK == /\ at \in {"login", "exit", "idle", "init", "mode", "buffers", "subqueues",
                          "create", "write", "start", "stop", "cleanup"}
               /\ granted \in BOOLEAN
               /\ calls \in 0 .. MaxCalls
               /\ msg \in Msg \cup {NoMsg}
               /\ handed \subseteq Msg
               /\ selection \in {"basic", "fragmented", "extended"}
               /\ {handles, allocated, stuck} \subseteq SUBSET Handle
               /\ queue \subseteq Frame
               /\ running \in BOOLEAN
               /\ wire \subseteq Frame
               /\ suspect \in BOOLEAN

BoardInit == /\ at = "login"
             /\ granted = FALSE
             /\ calls = 0
             /\ msg = NoMsg
             /\ handed = {}
             /\ selection = "basic"
             /\ handles = {}
             /\ allocated = {}
             /\ stuck = {}
             /\ queue = {}
             /\ running = FALSE
             /\ wire = {}
             /\ suspect = FALSE

-----------------------------------------------------------------------------

\* Only FdxInit decides on what l_Init returns; whether l_LogIn has come by a
\* handle, and by which, is not looked at.
LogIn == /\ at = "login"
         /\ \/ at' = "exit" /\ UNCHANGED granted
            \/ at' = "idle" /\ granted' \in BOOLEAN
         /\ UNCHANGED <<calls, msg, handed, selection, handles, allocated, stuck,
                        queue, running, wire, suspect>>

TransmitSetup(m) == /\ at = "idle"
                    /\ calls < MaxCalls
                    /\ calls' = calls + 1
                    /\ msg' = m
                    /\ handed' = handed \cup {m}
                    /\ selection' \in Selection
                    /\ handles' = {}
                    /\ at' = "init"
                    /\ UNCHANGED <<granted, allocated, stuck, queue, running, wire, suspect>>

\* A command to the board, and where the call goes on when it fails.  One that
\* fails changes nothing on the board.
Command(succeeds, fails) == \/ /\ granted
                               /\ at' = succeeds
                               /\ UNCHANGED suspect
                            \/ /\ at' = fails
                               /\ suspect' = TRUE

PortInit == /\ at = "init"
            /\ Command("mode", "start")
            /\ UNCHANGED <<granted, calls, msg, handed, selection, handles, allocated,
                           stuck, queue, running, wire>>

ModeControl == /\ at = "mode"
               /\ Command(IF selection = "extended" THEN "buffers" ELSE "create", "start")
               /\ UNCHANGED <<granted, calls, msg, handed, selection, handles, allocated,
                              stuck, queue, running, wire>>

\* Whichever of `items` can be allocated are, and their handles stored.
Allocate(items) == LET got == {calls} \X items
                   IN  /\ granted \/ items = {}
                       /\ handles' = handles \cup got
                       /\ allocated' = allocated \cup got

\* l_SetupDataBufferQueues tries every queue, and returns the result of the
\* last one.
SetupBuffers ==
    /\ at = "buffers"
    /\ \E got \in SUBSET Buffers :
          /\ Allocate(got)
          /\ at' = IF LastBuffer \in got THEN "subqueues" ELSE "start"
          /\ suspect' = (suspect \/ got # Buffers)
    /\ UNCHANGED <<granted, calls, msg, handed, selection, stuck, queue, running, wire>>

\* l_SetupTxSubQueues does the same, and returns the result of the last write.
SetupSubQueues ==
    /\ at = "subqueues"
    /\ \E got \in SUBSET SubQueues :
          /\ Allocate(got)
          /\ at' \in {"create", "start"}
          /\ suspect' = (suspect \/ got # SubQueues \/ at' = "start")
    /\ UNCHANGED <<granted, calls, msg, handed, selection, stuck, queue, running, wire>>

\* Mutant: the queue in place is taken over.
QueueCreate_keeps == /\ at = "create"
                     /\ Command("write", "start")
                     /\ UNCHANGED <<granted, calls, msg, handed, selection, handles,
                                    allocated, stuck, queue, running, wire>>

QueueCreate == /\ at = "create"
               /\ \/ /\ granted
                     /\ queue' = {}
                     /\ suspect' = FALSE
                     /\ at' = "write"
                  \/ /\ at' = "start"
                     /\ suspect' = TRUE
                     /\ UNCHANGED queue
               /\ UNCHANGED <<granted, calls, msg, handed, selection, handles,
                              allocated, stuck, running, wire>>

\* The basic setup writes one frame with the message.  The other two write
\* several, none of which has to do with it; a write that fails is the last.
QueueWrite ==
    LET own == [of   |-> IF selection = "basic" THEN msg ELSE NoMsg,
                call |-> calls,
                uses |-> handles]
    IN  /\ at = "write"
        /\ \/ /\ granted
              /\ queue' = queue \cup {own}
              /\ UNCHANGED suspect
           \/ /\ \/ UNCHANGED queue
                 \/ /\ granted
                    /\ selection # "basic"
                    /\ queue' = queue \cup {own}
              /\ suspect' = TRUE
        /\ at' = "start"
        /\ UNCHANGED <<granted, calls, msg, handed, selection, handles, allocated,
                       stuck, running, wire>>

\* Mutant: the port is left to the board once it has started.
Start_only == /\ at = "start"
              /\ Command("cleanup", "cleanup")
              /\ running' \in {TRUE, running}
              /\ UNCHANGED <<granted, calls, msg, handed, selection, handles,
                             allocated, stuck, queue, wire>>

\* l_StartTxGetStatus: reads the status, starts, reads the status, stops.  It
\* is called however the setup has ended, and a failure leaves out the rest.
Start == /\ at = "start"
         /\ Command("stop", "cleanup")
         /\ running' = (running \/ at' = "stop")
         /\ UNCHANGED <<granted, calls, msg, handed, selection, handles, allocated,
                        stuck, queue, wire>>

Stop == /\ at = "stop"
        /\ at' = "cleanup"
        /\ \/ /\ granted
              /\ running' = FALSE
              /\ UNCHANGED suspect
           \/ /\ suspect' = TRUE
              /\ UNCHANGED running
        /\ UNCHANGED <<granted, calls, msg, handed, selection, handles, allocated,
                       stuck, queue, wire>>

\* Mutant: AIM_ASSERT in the loop, so that it ends at the first refusal.
Cleanup_aborts == /\ at = "cleanup"
                  /\ \/ /\ allocated' = allocated \ handles
                        /\ UNCHANGED stuck
                     \/ \E h \in handles : /\ stuck' = stuck \cup {h}
                                           /\ UNCHANGED allocated
                  /\ at' = "idle"
                  /\ UNCHANGED <<granted, calls, msg, handed, selection, handles,
                                 queue, running, wire, suspect>>

\* The loop that frees the buffer queues and deletes the sub queues; then the
\* call returns FDX_ON, whatever has happened.
Cleanup == /\ at = "cleanup"
           /\ \E refused \in SUBSET handles :
                 /\ allocated' = allocated \ (handles \ refused)
                 /\ stuck' = stuck \cup refused
           /\ at' = "idle"
           /\ UNCHANGED <<granted, calls, msg, handed, selection, handles, queue,
                          running, wire, suspect>>

-----------------------------------------------------------------------------
(* The board, while its port runs: for as long as the host lets it, one    *)
(* cycle at most.                                                          *)

BoardSends == /\ running
              /\ \E f \in queue \ wire : wire' = wire \cup {f}
              /\ UNCHANGED <<at, granted, calls, msg, handed, selection, handles,
                             allocated, stuck, queue, running, suspect>>

CycleOver == /\ running
             /\ running' = FALSE
             /\ UNCHANGED <<at, granted, calls, msg, handed, selection, handles,
                            allocated, stuck, queue, wire, suspect>>

BoardNext == \/ LogIn
             \/ \E m \in Msg : TransmitSetup(m)
             \/ PortInit \/ ModeControl \/ SetupBuffers \/ SetupSubQueues
             \/ QueueCreate \/ QueueWrite \/ Start \/ Stop \/ Cleanup
             \/ BoardSends \/ CycleOver

BoardSpec == BoardInit /\ [][BoardNext]_boardVars

-----------------------------------------------------------------------------
(* Properties                                                              *)

\* However a setup was broken off, every buffer queue and sub queue that was
\* allocated is released by the end of the call, except for those the board
\* itself refused to release.
HandlesReleased == at = "idle" => allocated \subseteq stuck

\* A port that transmits uses no queue that has been released: the cleanup
\* comes after the stop.  (After a failed command it may.)
NothingReleasedInUse ==
    running /\ ~suspect => \A f \in queue : f.uses \subseteq allocated

\* Queues are released neither too early nor too late.
ReleasedRightly == HandlesReleased /\ NothingReleasedInUse

\* As long as no command fails, a port that transmits has the frames of the
\* running call on its queue, none of an earlier one.
OwnFramesOnly == running /\ ~suspect => \A f \in queue : f.call = calls

\* As long as no command fails, the port is at rest between two calls.
PortAtRest == at = "idle" /\ ~suspect => ~running

\* README.md: "sending snmp frames in the snmp protocol through the Arinc664
\* board".
SnmpFramesOnly == \A f \in wire : f.of \in handed
=============================================================================
