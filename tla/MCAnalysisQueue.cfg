\* Two positions and two callers: the order of the queue, and the tokens of
\* two rows and two tickets.
CONSTANTS
  Positions = {1, 2}
  Callers = {c1, c2}
  Tokens = {t1, t2, t3, t4}
  NoToken = NoToken
  StaleAfter = 2
  Horizon = 1
SPECIFICATION Spec
SYMMETRY Symmetry
INVARIANTS
  RowsAreOwned
PROPERTIES
  TicketsAreGuarded
  RequestsAreKept
  ImplementsService
