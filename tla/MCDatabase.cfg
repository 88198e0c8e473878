\* Four processes at the mutex; an updater, three files, three commits and three
\* faults.
CONSTANTS
  Processes = {p1, p2, p3, p4}
  NoProcess = NoProcess
  updater = updater
  FileCount = 3
  LastCommit = 3
  Content <- MCContent
  Rejected <- MCRejected
  NoContent = NoContent
  NoCatalogue = NoCatalogue
  MaxFailures = 3
SPECIFICATION FairDatabaseSpec
INVARIANTS
  FilesAreRecovered
PROPERTIES
  MutexIsKept
  RerunRepairs
