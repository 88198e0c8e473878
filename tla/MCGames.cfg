\* Three months in two versions, two faults; two importers of two games, one of
\* them corrected, and a fault.
CONSTANTS
  LastMonth = 3
  MaxVersion = 2
  MaxFaults = 1
  NoFile = NoFile
  NoDatabase = NoDatabase
  NotAsked = NotAsked
  Blank = Blank
  g1 = g1
  g2 = g2
  v1 = v1
  v2 = v2
  w1 = w1
  a = a
  b = b
  c = c
  Games = {g1, g2}
  Versions = {v1, v2, w1}
  Positions = {a, b, c}
  Occurrences <- MCOccurrences
  Importers = {i1, i2}
  Batches <- MCBatches
  NoVersion = NoVersion
  Nobody = Nobody
  MaxMishaps = 2
SPECIFICATION FairLibrarySpec
INVARIANTS
  LedgerIsSound
  ImportIsFaithful
PROPERTIES
  NothingIsLost
  TailCatchesUp
