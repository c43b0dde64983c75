SPECIFICATION FairSpec
CONSTANTS
  Survey <- TwoSections
  MaxSection = 2
  MaxNode = 4
  MaxRetry = 1
  Env = {"hangup", "crash", "no_data"}
INVARIANT TypeOK
INVARIANT AnswersSaved
INVARIANT AggregateMatches
PROPERTY CallEnds
CHECK_DEADLOCK FALSE
