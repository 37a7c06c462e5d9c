SPECIFICATION Spec
CONSTANTS
  halfMilliTimerRange = 8
  statsUpdateTimeInterval = 4
  CounterRange = 8
  MaxGap = 9
  MaxEvents = 1
  MaxOverdue = 40
INVARIANTS
  NeverEarly
  RatesTrue
CHECK_DEADLOCK FALSE
