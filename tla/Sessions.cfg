\* Three entries: a loop can stand between an entry before it and one behind it.
CONSTANTS Session = {s1, s2, s3}
          Fd = {f1, f2}
          NoFd = NoFd
          Null = Null
          Timeout = 1
SPECIFICATION Spec
INVARIANT LoopsSound
PROPERTY SessionsServed
CHECK_DEADLOCK FALSE
