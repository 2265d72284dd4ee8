\* Three calls in a row, so that requests abandoned by two of them can disturb the third.
CONSTANTS Req = {r1, r2, r3}
          NoReq = NoReq
          Retries = 1
          Timeout = 1
SPECIFICATION SynchFairSpec
INVARIANT ResultIsOwn
PROPERTIES OlderRequestsSilent CallReturns
CHECK_DEADLOCK FALSE
