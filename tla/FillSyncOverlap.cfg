\* Two runs of the sync overlap over the same rows.
CONSTANTS
  r1 = r1  r2 = r2  r3 = r3  r4 = r4
  k1 = k1  k2 = k2  k3 = k3
  NoRow = NoRow
  Rows = {r1, r2, r3, r4}
  Keys = {k1, k2, k3}
  DedupeKey <- MCDedupeKey
  Derivable = {r1, r2, r3}
  Syncs = {s1, s2}
  Blank = Blank
  Text = Text
  RowSet <- MCRows
  MaxFills = 2
SPECIFICATION MCSpec
INVARIANT NoDuplicateEvent
CHECK_DEADLOCK FALSE
