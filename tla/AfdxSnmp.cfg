\* main: one request and up to two repaired ones.  Board: two calls, so that the
\* second setup meets what the first has left, and two of the three buffer queues.
\* ARP: a subnet of two hosts and the mask of a single host, whose count of 0 wraps.
CONSTANTS Req = {r1, r2, r3}
          NoReq = NoReq
          Retries = 1
          Timeout = 1
          Msg = {m1, m2}
          NoMsg = NoMsg
          Selection = {"basic", "fragmented", "extended"}
          Buffers = {b0, b2}
          LastBuffer = b2
          SubQueues = {s0}
          MaxCalls = 2
          Addresses = {0, 2}
          WordSize = 4
SPECIFICATION ProgramSpec
INVARIANTS ResultOfLatest EndsClean ReleasedRightly OwnFramesOnly PortAtRest CountExact ResultComplete
PROPERTIES EveryTryEnds ReturnsOnceSynchronised
CHECK_DEADLOCK FALSE
