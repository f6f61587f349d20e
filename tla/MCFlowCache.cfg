SPECIFICATION Spec
CONSTANTS
  Pids = {p1,p2}
  MaxBorn = 2
  MaxBytes = 2
  Inactive = 1
  Exited = 2
  Absolute = 4
  MaxStall = 3
SYMMETRY Swaps
INVARIANT SpeedsAddUp
PROPERTIES ReportedBeforeForgotten AliveKept NoOldTotals
