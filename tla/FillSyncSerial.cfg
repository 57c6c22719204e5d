\* One run at a time, that may die at any step and is run again; and any two rows
\* of the broker in any order, synchronised again and again.
CONSTANTS
  r1 = r1  r2 = r2  r3 = r3  r4 = r4
  k1 = k1  k2 = k2  k3 = k3
  NoRow = NoRow
  Rows = {r1, r2, r3, r4}
  Keys = {k1, k2, k3}
  DedupeKey <- MCDedupeKey
  Derivable = {r1, r2, r3}
  Syncs = {s1}
  Blank = Blank
  Text = Text
  RowSet <- MCRows
  MaxFills = 2
SPECIFICATION MCSpec
INVARIANTS PassedIsRecorded EvidenceFirst SumIsExact
PROPERTY ImplementsLedger
CHECK_DEADLOCK FALSE
