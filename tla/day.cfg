SPECIFICATION Spec
CONSTANTS
  Horizon <- MCHorizon
  MaxWindows <- MCMaxWindows
  MaxSpans <- MCMaxSpans
  DayLength <- MCDayLength
INVARIANTS
  GapsAreTheRest
  HoursAddUp
  FillingOpensNoGap
  CutsPartition
CHECK_DEADLOCK FALSE
