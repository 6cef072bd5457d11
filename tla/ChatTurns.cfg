SPECIFICATION Spec
CONSTANTS
  t1 = t1
  t2 = t2
  Tasks = {t1, t2}
  Plans <- MCPlans
  MaxMoves = 5
  MaxInputs = 2
  MaxInbox = 1
SYMMETRY Anyone
CHECK_DEADLOCK FALSE
INVARIANT HeldTools
INVARIANT InOrder
INVARIANT AssemblyHasRunner
