SPECIFICATION Spec
CONSTANTS
  MaxVersion = 2
  MaxTimeouts = 1
  LateParts = FALSE
  ServerMayGo = FALSE
PROPERTY GoodDataKept
