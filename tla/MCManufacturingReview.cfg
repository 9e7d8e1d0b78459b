SPECIFICATION MCSpec
CONSTANTS
  p1 = p1
  p2 = p2
  Requests = {1, 2, 3}
  Readers = {d1}
  Processes = {p1, p2}
  Asks <- MCAsks
  None = None
  Mortal = {p1}
  Hindered = {p2}
\* Requests are finitely many: the system stops when all are answered.
CHECK_DEADLOCK FALSE
INVARIANTS HistoryIntact AnswerMatchesHistory ReadersNeverConflict
PROPERTIES
  ImplementsLedger
  BusyOnlyAfterCrash
  EveryRequestAnswered
  RecoverySucceeds
