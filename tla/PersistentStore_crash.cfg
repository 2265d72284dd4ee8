CONSTANTS Token = {t1, t2}
          MaxBackups = 1
          MaxVersion = 3
SPECIFICATION StoreSpec
INVARIANTS OldestFirst
CHECK_DEADLOCK FALSE
