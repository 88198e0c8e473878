\* Three days, windows of two; two games and one amendment beside the two runs;
\* three requests and one stop of the server.
\* Everybody may have done what there is to do.
CONSTANTS
  e4 = e4
  d4 = d4
  pos1 = pos1
  pos2 = pos2
  r1 = r1
  r2 = r2
  put1 = put1
  put2 = put2
  get1 = get1
  Requests = {put1, put2, get1}
  Bodies <- MCBodies
  MaxStops = 1
  Moves = {e4, d4}
  UciOrder <- MCOrder
  NoPreference = NoPreference
  Unconfigured = Unconfigured
  Positions = {pos1, pos2}
  Side <- MCSide
  LastPly = 1
  LastDay = 2
  Window = 2
  MinimumMatches = 1
  MaxPlayed = 8
  Runs = {r1, r2}
  GamesOffered <- MCGames
  Amendments <- MCAmendments
  MaxGames = 2
  MaxAmendments = 1
SPECIFICATION MCSpec
CHECK_DEADLOCK FALSE
INVARIANTS
  SchedulesAreTrue
PROPERTIES
  ImplementsCalendar
  ImplementsAmendments
  SetupIsOneStep
  InferenceIsRight
  EverybodyIsAnswered
