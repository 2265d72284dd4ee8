\* Two requests with more retries and a longer timeout; no symmetry, for liveness.
CONSTANTS Req = {r1, r2}
          NoReq = NoReq
          Retries = 2
          Timeout = 2
SPECIFICATION FairSpec
PROPERTIES EventuallySettled
CHECK_DEADLOCK FALSE
