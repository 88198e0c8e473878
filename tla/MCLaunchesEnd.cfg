\* One worker launched again and again on two positions, or two workers on one.
CONSTANTS
  w1 = w1
  w2 = w2
  Positions = {1, 2}
  Tokens = {t1, t2, t3}
  NoToken = NoToken
  StaleAfter = 2
  Horizon = 0
  Workers = {w1, w2}
  Bulks = {}
  NoProcess = NoProcess
  PollTicks = 1
  MaxFaults = 1
  MaxInterrupts = 1
SPECIFICATION MCServedSpec
PROPERTIES
  LaunchTerminates
  ServedRequestsSettle
