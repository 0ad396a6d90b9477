SPECIFICATION Spec
CONSTANTS
  lahore = lahore
  newyork = newyork
  k1 = k1
  NoKey = NoKey
  NoRequest = NoRequest
  EmployeeLeave <- OnePerson
  Calls = {c1, c2}
  Requests = {r1, r2}
  Balances = {lahore}
  HcmRows = {lahore}
  HcmTotals = {2}
  InitialDays = {2}
  Days = {1}
  MaxAttempts = 1
  Keys = {k1}
  Commands <- Keyed
SYMMETRY Symmetric
INVARIANTS
  DuplicatesGetCachedReply
CHECK_DEADLOCK FALSE
