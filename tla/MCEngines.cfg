\* Two threads with two calls each; two processes and three requests, or one
\* whose reader may be late; two runs of the benchmark.
CONSTANTS
  Callers = {c1, c2}
  Nobody = Nobody
  Unkillable = TRUE
  MaxCalls = 2
  Requests = {"wide", "narrow", "mate"}
  Moves <- SmallMoves
  LineCounts <- SmallLines
  NoRequest = NoRequest
  MaxProcesses = 2
  MaxOrders = 2
  MaxInfos = 2
  StrayingRequests = {"narrow"}
  StrayingLines = 1
  StrayingKills = FALSE
  Specs <- SmallSpecs
  Retries = 1
  Missing = Missing
  Torn = Torn
  StopPoints = {"prepare", "load", "block", "start", "measure", "note", "fail", "noteFailure", "close", "finish"}
  MaxRuns = 2
SPECIFICATION FairEnginesSpec
CHECK_DEADLOCK FALSE
INVARIANTS
  ClosedEnginesAreGone
  ResultsAreOwn
  BenchmarkResumes
PROPERTIES
  EverythingReturns
