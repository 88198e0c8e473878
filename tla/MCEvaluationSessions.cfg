\* Two sessions that exclude each other, with two slots each for two positions,
\* one of them finished; one client, the batch analysis, and two faults.
CONSTANTS
  Keys = {k1, k2}
  Terminal = {k2}
  Sessions = {s1, s2}
  Slots = {t1, t2}
  Clients = {c1}
  Corpus = Corpus
  NoOwner = NoOwner
  NoKey = NoKey
  MaxFaults = 2
SPECIFICATION FairSpec
INVARIANTS
  ItemsAreAccountedFor
PROPERTIES
  EveryItemHasItsTurn
