CONSTANTS
  Clients = {c1}
  Seeders = {"server", "worker", "ingest"}
  Forced = TRUE
  SeedDir <- MCSeedDir
  Uploads <- MCUploads
  Score <- MCScore
  TopK = 2
  MinScore <- MCMinScore
  MaxUploads = 1
  MaxStarts <- MCMaxStarts
  MaxMishaps = 1
  MaxOutages = 1
  MaxDocuments = 4
  MaxDeletions = 1
SPECIFICATION Spec
INVARIANTS
  TypeOK
  LeftoversAccounted
  CopiesBounded
  SeededAtRest
  SearchFinds
PROPERTIES
  ImplementsIndex
CHECK_DEADLOCK FALSE
