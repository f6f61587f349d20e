SPECIFICATION FairSpec
CONSTANTS
  UIs = {u1,u2}
  Cores = {c1,c2}
  None = None
  SecondUi = TRUE
  MayRestart = TRUE
  MayVanish = TRUE
  CoreMayDie = TRUE
  GapVisible = TRUE
INVARIANTS KillSparesOthers OneCore LeavesNoCore
PROPERTIES StartEnds ListensAgain
