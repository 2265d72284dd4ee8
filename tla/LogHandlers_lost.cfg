\* Three handlers of three priorities, so that one goes between two others.
CONSTANTS Handler = {h1, h2, h3}
          Null = Null
          LOG_DEBUG = 2
          Type = {"stderr", "none"}
SPECIFICATION LogSpec
INVARIANT LoggedSomewhere
CHECK_DEADLOCK FALSE
