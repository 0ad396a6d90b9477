SPECIFICATION SyncSpec
CONSTANTS
  Locals <- TwoRows
  Rows <- Contents
  Items <- SomeItems
  MaxItems = 3
  Bodies <- SomeBodies
  Rounds = 2
INVARIANTS
  SyncTypeOK
  LoopsAreOneStep
  ReportAddsUp
  SecondSyncIsQuiet
CHECK_DEADLOCK FALSE
