SPECIFICATION FairSpec
CONSTANTS
  MaxCloses = 3
INVARIANTS
  SuccessMeansCommitted
  NoErrorIsLost
  ReportsAreTrue
  CancelledIsNotCommitted
PROPERTIES
  ErrorNeverCommits
  ConnectionIsReleased
