SPECIFICATION FairSpec
CONSTANTS
  MaxVersion = 3
  MaxTimeouts = 2
  LateParts = TRUE
  ServerMayGo = TRUE
INVARIANTS LagIsTimeouts OnlyCurrent
PROPERTIES NeverOlder GoodDataKeptOnTime LastIsShown
