\* Three positions for two workers, the circuit breaker at two failures, two
\* interrupts and a fault; bulk targets of four positions and two games.
CONSTANTS
  Work = 3
  Slots = {t1, t2}
  MaxAttempts = 2
  MaxFailures = 2
  MaxFaults = 1
  Ids = {1, 2, 3, 4}
  Games = {g1, g2}
  Variants <- MCVariants
  Routes <- MCRoutes
  Technical <- MCTechnical
  Start = 1
  MaxPly = 1
  PageSize = 1
  CommonCount = 3
  Limits = {2, NoLimit}
  NoLimit = NoLimit
  MaxImports = 2
SPECIFICATION MCSpec
INVARIANTS
  BatchIsTruthful
  TargetsAreRight
PROPERTIES
  StopsAreHeeded
  BothEnd
