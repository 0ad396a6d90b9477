SPECIFICATION FairStartupSpec
CONSTANTS
  server = server
  alter = alter
  seed = seed
  Processes = {server, alter, seed}
  Kind <- KindOf
  Schema <- TwoTables
  IndexesOf <- Indexed
  Seeded <- OneSeeded
  MaxFaults = 2
INVARIANTS
  SuccessMeansReady
PROPERTIES
  AloneComesThrough
CHECK_DEADLOCK FALSE
