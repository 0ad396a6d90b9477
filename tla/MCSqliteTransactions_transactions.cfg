SPECIFICATION FairSpec
CONSTANTS
  Transactions = {t1, t2, t3}
  Rows = {x, y}
INVARIANTS
  TypeOK
  ReadsStayTrue
  OneWriter
PROPERTIES
  EveryTransactionEnds
  TransactionsAreAtomic
CHECK_DEADLOCK FALSE
