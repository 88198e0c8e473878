\* Two clicks in the one panel, three in the other; nobody need click.
CONSTANTS
  e4 = e4
  d4 = d4
  Fens <- MCFens
  MaxPolls = 1
  MaxEvents = 2
  Views <- MCViews
  Moves = {e4, d4}
  NoMove = NoMove
  MaxChanges = 3
SPECIFICATION FairBuilderSpec
CHECK_DEADLOCK FALSE
INVARIANTS
  PanelsAreTrue
PROPERTIES
  PanelsKeepTheirWord
  PanelsSettle
