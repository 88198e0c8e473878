\* Two readers of one position that one worker completes again and again; three
\* games and three writes; three games, three queries and two writes; four games
\* and every filter; five sources of routes and four games, whose readers do not
\* meet, so one is enough.
CONSTANTS
  Positions = {1}
  Callers = {c1}
  Tokens = {t1, t2}
  NoToken = NoToken
  StaleAfter = 1
  Horizon = 0
  Readers = {r1, r2}
  None = None
  Outages = TRUE
  Plays <- MCPlays
  Endings <- MCEndings
  Studied = {1, 2, 3}
  Preferences = {"unconfigured", "move"}
  MaxCommits = 3
  Versions <- MCVersions
  RouteTables <- MCRoutes
  Places = {0, 1, 2, 3}
  Legal <- MCLegal
  Queries <- MCQueries
  Begins <- MCBegins
  MaxWrites = 2
  Labels = {1, 2, 3, 4}
  EcoOf <- MCEcoOf
  NameOf <- MCNameOf
  Texts <- MCTexts
  Unnamed = {4}
  Beginning = {}
  Leads <- MCLeads
  NoPosition = NoPosition
  Sources <- MCSources
  Scores <- MCScores
  PageSizes = {1, 2, 3}
  Visitors = {visitor}
SPECIFICATION MCSpec
SYMMETRY Symmetry
CHECK_DEADLOCK FALSE
INVARIANTS
  ObservationsAreTrue
  InsightIsHonest
  SearchIsHonest
  CatalogueIsRight
