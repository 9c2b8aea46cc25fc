SPECIFICATION DSpec
\* A job that has ended stays ended.
CHECK_DEADLOCK FALSE
CONSTANTS
  Deadline = 5
  Record = 2
  Spare = 4
  Lead = 0
  Overrun = 1
  Tries = 2
INVARIANTS
  GraphUnlessHurt
