CONSTANTS Msg = {m1, m2}
          NoMsg = NoMsg
          Selection = {"basic", "fragmented", "extended"}
          Buffers = {b0, b2}
          LastBuffer = b2
          SubQueues = {s0}
          MaxCalls = 2
SPECIFICATION BoardSpec
INVARIANTS SnmpFramesOnly
CHECK_DEADLOCK FALSE
