\* Two alarms; three callback entries and two events; three endpoints; two file
\* descriptors registered three times; three packets; two tokens and two
\* backups; integers of two octets of four bits;
\* messages of every command and version, and seven variables where
\* three are cached.
CONSTANTS Alarm = {a1, a2}
          Intervals = {0, 1, 2}
          MaxLate = 1
          MaxNesting = 2
          Events = {1, 2}
          Entries = {1, 2, 3}
          Function <- MCFunction
          Argument <- MCArgument
          Priority <- MCPriority
          NoArg = "none"
          MaxCalls = 2
          MaxDrift = 1
          MaxEndpoints = 3
          MaxRequests = 2
          Kinds = 2
          Fd = {1, 2}
          NumExternalFds = 2
          MaxRegistrations = 3
          Packets <- MCPackets
          RcvLen = 3
          MaxPackets = 3
          Token = {t1, t2}
          MaxBackups = 1
          MaxVersion = 2
          OctetBits = 4
          LongOctets = 2
          Halves = {0, 1, 7, 8, 15, 16, 127, 128, 129, 240, 247, 248, 255}
          StringSizes = {0, 1, 7, 8, 15, 16, 17, 127}
          MaxSubids = 4
          Subids = {0, 1, 39, 40, 100, 255}
          Pdus <- MCPdus
          SessionHas <- MCSessionHas
          SecurityModels = {3}
          CacheSize = 3
          MinMaxSize = 20
          DefaultEnterprise <- MCEnterprise
SPECIFICATION LibrarySpec
INVARIANTS ArgsFreedOnce RepliesToRequester RoundExact NothingLost RoundTrip MessageSurvives
PROPERTIES NeverEarly LateAlarmRuns EachIsRead StreamServed
CHECK_DEADLOCK FALSE
