SPECIFICATION Spec
CONSTANTS
  UIs = {u1,u2}
  Cores = {c1,c2}
  None = None
  SecondUi = FALSE
  MayRestart = TRUE
  MayVanish = FALSE
  CoreMayDie = FALSE
  GapVisible = FALSE
INVARIANT NoCoreLeftBehind
