\* One loader at a time, over any number of loads and the turn of a year.
CONSTANTS
  Unset = Unset  NoScan = NoScan  Undecided = Undecided
  Loaders = {l1}
  Years = {2026, 2027, 2028}
  Dates = {0, 1, 2, 9}
  YearOf <- MCYearOf
  YearLists <- MCYearLists
  Manual = {1}
  LastDay = 4
  YearOfDay <- MCYearOfDay
  Weekend = {3}
  Moments <- MCMoments
  Entries <- MCEntries
  Configs <- MCConfigs
SPECIFICATION SessionSpec
INVARIANTS CompleteUnlessWarned FailsSafe CacheKeepsDates DecisionIsRight
CHECK_DEADLOCK FALSE
