SPECIFICATION OperatorSpec
CHECK_DEADLOCK FALSE
CONSTANTS
  None = None
  MaxTs = 7
  Operators <- MCOperators
  Keys <- MCKeys
  Times <- MCTimes
  Marks <- MCMarks
  TimerTimes <- MCTimerTimes
  MaxInput <- MCMaxInput
INVARIANTS
  WindowsExact
  KeyKept
  IntervalJoinExact
  JoinStateBounded
  TimersExact
  TrackerExact
