\* Three requests: removal at the head, in the middle and at the tail of the list.
CONSTANTS Req = {r1, r2, r3}
          NoReq = NoReq
          Retries = 1
          Timeout = 1
SPECIFICATION Spec
SYMMETRY RequestSymmetry
INVARIANTS ListIntact FreedOnce
PROPERTIES KeepsPromise
CHECK_DEADLOCK FALSE
