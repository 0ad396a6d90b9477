SPECIFICATION FairSpec
CONSTANTS
  lahore = lahore
  newyork = newyork
  k1 = k1
  NoKey = NoKey
  NoRequest = NoRequest
  EmployeeLeave <- OnePerson
  Calls = {c1, c2, c3}
  Requests = {r1}
  Balances = {lahore}
  HcmRows = {lahore}
  HcmTotals = {2}
  InitialDays = {2}
  Days = {1}
  MaxAttempts = 2
  Keys = {k1}
  Commands <- Single
INVARIANTS
  AnswersAreTrue
PROPERTIES
  EveryCallAnswered
  DriftIsExplained
CHECK_DEADLOCK FALSE
