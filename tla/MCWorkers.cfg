\* Two workers, or a worker and a bulk launch: on two positions with one fault
\* or KeyboardInterrupt, on one position with one fault and two of these.
CONSTANTS
  w1 = w1
  w2 = w2
  Positions = {1, 2}
  Tokens = {t1, t2, t3}
  NoToken = NoToken
  StaleAfter = 2
  Horizon = 0
  Workers = {w1, w2}
  Bulks = {b1}
  NoProcess = NoProcess
  PollTicks = 2
  MaxFaults = 1
  MaxInterrupts = 2
SPECIFICATION MCSpec
SYMMETRY Symmetry
INVARIANTS
  WorkIsAccountedFor
  EngineUnderMutex
  RecoveryReachesBoundary
PROPERTIES
  CleanLaunchDrains
