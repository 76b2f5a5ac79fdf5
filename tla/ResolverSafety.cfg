\* The constants of the code: two retries, 5 s each, 5 s to connect; a loop that
\* may be busy for a second between two timer callbacks.
CONSTANTS
  MaxRetries = 2
  Timeout = 5
  ConnectTimeout = 5
  Lag = 2
SPECIFICATION FairSpec
INVARIANTS
  TypeOK
  CalledOnce
  RetriesBounded
  TimeoutIsEarned
  SilentOnlyAtFree
  QueryIsPushed
PROPERTIES
  ResolutionEnds
