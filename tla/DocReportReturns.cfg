SPECIFICATION Spec
CONSTANTS
  t1 = t1
  t2 = t2
  Tasks = {t1, t2}
  Plans <- MCPlans
  MaxMoves = 3
  MaxInputs = 1
  MaxInbox = 1
CHECK_DEADLOCK FALSE
PROPERTY ReportReturns
