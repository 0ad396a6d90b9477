SPECIFICATION Spec
CONSTANTS
  lahore = lahore
  newyork = newyork
  k1 = k1
  NoKey = NoKey
  NoRequest = NoRequest
  EmployeeLeave <- OnePerson
  Calls = {c1, c2, c3, c4}
  Requests = {r1, r2}
  Balances = {lahore, newyork}
  HcmRows = {lahore}
  HcmTotals = {1}
  InitialDays = {1}
  Days = {1}
  MaxAttempts = 1
  Keys = {k1}
  Commands <- TwoLocations
SYMMETRY Symmetric
INVARIANTS
  NoDoubleBooking
PROPERTIES
  DaysAreConserved
CHECK_DEADLOCK FALSE
