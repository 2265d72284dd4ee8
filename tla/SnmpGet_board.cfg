CONSTANTS Req = {r1, r2}
          NoReq = NoReq
          Retries = 1
          Timeout = 1
SPECIFICATION GetSpec
INVARIANTS SentThroughBoard
CHECK_DEADLOCK FALSE
