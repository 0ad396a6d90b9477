SPECIFICATION Spec
CONSTANTS
  lahore = lahore
  newyork = newyork
  k1 = k1
  NoKey = NoKey
  NoRequest = NoRequest
  EmployeeLeave <- OnePerson
  Calls = {c1, c2, c3, c4}
  Requests = {r1, r2}
  Balances = {lahore}
  HcmRows = {lahore}
  HcmTotals = {2}
  InitialDays = {2, 3}
  Days = {1, 2}
  MaxAttempts = 1
  Keys = {k1}
  Commands <- Rivals
SYMMETRY Symmetric
INVARIANTS
  TypeOK
  LedgerMatchesLog
  StatusMatchesLog
  NoContradictingEvents
  DecidedOnce
  ApprovedInHcm
  AuditMatchesOutbox
  KeysNameTheirRequest
PROPERTIES
  ImplementsLeaveBook
CHECK_DEADLOCK FALSE
