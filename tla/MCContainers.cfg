\* Arrays of up to four entries, lists of up to three, sorting of up to six keys.
CONSTANTS Entry <- MCEntry
          NoEntry = NoEntry
          FirstSize = 2
          Item <- MCItem
          Node = {n1, n2, n3}
          Null = Null
          SortKeys = {1, 2, 3}
          MaxLength = 6
SPECIFICATION ContainersSpec
INVARIANTS HandedOutSound
PROPERTIES ImplementsStore ImplementsList SortCorrect
CHECK_DEADLOCK FALSE
