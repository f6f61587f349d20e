SPECIFICATION FairSpec
CONSTANT ChanCap = 2
PROPERTIES CaptureDeathNoticed EverySecondPublished StopCompletes
