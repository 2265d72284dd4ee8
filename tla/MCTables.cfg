\* Subidentifiers 1 and 4 share a bucket, and 4 is not below the number of buckets.
\* Three default keys with two values.  Three views of one name; three access entries
\* of two groups, two contexts, one model besides any, and two levels.  Four modules
\* of MIBs.  Two transport domains.  Three log handlers, so that one may be inserted
\* between two, with two priorities.  Two engines whose clocks run over.
CONSTANTS SubId = {1, 2, 4}
          MaxLen = 2
          children_size = 3
          None = None
          TableKey = {1, 2, 3}
          Value = {v, w}
          NoValue = NoValue
          Domain = {"d1", "d2"}
          Names <- MCNames
          Target = {t}
          Lists <- MCLists
          NoName = NoName
          NoTarget = NoTarget
          NoList = NoList
          NoDomain = NoDomain
          ViewName = {1}
          Subtrees <- MCSubtrees
          Wild <- MCWild
          Queried <- MCQueried
          MaxViews = 3
          NoView = NoView
          Group = {1, 2}
          Context <- MCContext
          Model = {0, 1}
          Level = {1, 2}
          MaxEntries = 3
          NoAccess = NoAccess
          Mod = {"A", "B", "C", "D"}
          Nodes <- MCNodes
          Imports <- MCImports
          NoSubid = NoSubid
          MaxParses = 4
          Handler = {h1, h2, h3}
          Null = Null
          LOG_DEBUG = 1
          Type = {"stderr", "file", "syslog", "none"}
          Engine = {alpha, beta}
          Bucket <- MCBucket
          TimeMax = 2
          BootMax = 2
          Claimed <- MCClaimed
          NoRecord = NoRecord
SYMMETRY HandlerSymmetry
SPECIFICATION TablesSpec
INVARIANTS StashExact SubtreeDecided BestOfContext TreeExact TriedRightly HandlersSound
PROPERTIES ImplementsMap EstimateSound
CHECK_DEADLOCK FALSE
