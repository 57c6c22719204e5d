\* Two loaders at once: a slow one replaces a newer list by an older.
CONSTANTS
  Unset = Unset  NoScan = NoScan  Undecided = Undecided
  Loaders = {l1, l2}
  Years = {2026}
  Dates = {0, 1}
  YearOf <- OneYearOf
  YearLists <- OneYear
  Manual = {}
  LastDay = 1
  YearOfDay <- MCYearOfDay
  Weekend = {}
  Moments <- MCMoments
  Entries = {}
  Configs = {}
SPECIFICATION SessionSpec
INVARIANT FailsSafe
CHECK_DEADLOCK FALSE
