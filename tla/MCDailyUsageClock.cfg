SPECIFICATION FairSpec
CONSTANTS
  MaxDay = 3
  MaxDays = 2
  MaxBytes = 1
  ClockMayGoBack = TRUE
  DiskMayFail = TRUE
  OpenMayFail = TRUE
  FileMayRot = TRUE
PROPERTIES PastDaysSealed EventuallyFlushed
