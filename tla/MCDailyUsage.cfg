SPECIFICATION Spec
CONSTANTS
  MaxDay = 4
  MaxDays = 2
  MaxBytes = 2
  ClockMayGoBack = FALSE
  DiskMayFail = TRUE
  OpenMayFail = FALSE
  FileMayRot = FALSE
INVARIANTS CleanMeansPersisted FileNeverTorn ServedIncludesPersisted
PROPERTIES PersistedBytesSurvive LedgerSpec
