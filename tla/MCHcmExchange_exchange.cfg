SPECIFICATION FairExchangeSpec
CONSTANTS
  lahore = lahore
  nowhere = nowhere
  r1 = r1
  Calls = {c1, c2}
  Requests = {r1}
  Balances = {lahore, nowhere}
  HcmRows = {lahore}
  HcmTotals = {1}
  Days = {1}
  MaxRetries = 1
  Known = {lahore}
  Arguments <- MixedArguments
INVARIANTS
  ResultsAreTrue
  ErrorsAreEarned
PROPERTIES
  EveryMethodEnds
  ImplementsHcmClient
CHECK_DEADLOCK FALSE
