\* One reader: header and lines may come from two publications.
CONSTANTS
  Positions = {1}
  Callers = {c1}
  Tokens = {t1, t2}
  NoToken = NoToken
  StaleAfter = 1
  Horizon = 0
  Readers = {r1}
SPECIFICATION Spec
INVARIANT ShowsOneResult
