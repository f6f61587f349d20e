SPECIFICATION FairSpec
CONSTANTS
  Retention = 4
  Window = 2
  MaxPoints = 2
  p1 = p1
  p2 = p2
  Flows <- MCFlows
  Histories <- MCHistories
  Answers <- MCAnswers
  MaxPolls = 2
  MaxSent = 1
  MaxFetches = 2
INVARIANTS RetentionExact ViewsAgree
PROPERTY CatchesUp
