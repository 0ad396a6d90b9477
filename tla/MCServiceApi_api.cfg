SPECIFICATION ApiSpec
CONSTANTS
  lahore = lahore
  k1 = k1
  NoKey = NoKey
  NoRequest = NoRequest
  NoUser = NoUser
  Owner <- Owners
  Tokens <- AllTokens
  AuditPage = 2
  ReportPage = 1
  EmployeeLeave <- OnePerson
  Calls = {c1, c2, c3}
  Requests = {r1}
  Balances = {lahore}
  HcmRows = {lahore}
  HcmTotals = {1}
  InitialDays = {1}
  Days = {1}
  MaxAttempts = 1
  Keys = {k1}
  Commands <- Keyed
SYMMETRY Symmetric
INVARIANTS
  ApiTypeOK
  AnswersRespectEarlierOnes
  ReportExplainsFailures
PROPERTIES
  ChangesAreAuthorised
CHECK_DEADLOCK FALSE
