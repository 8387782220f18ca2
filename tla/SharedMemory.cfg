SPECIFICATION Spec
CONSTANTS
  N = 2
  MaxItems = 5
  MaxWakes = 2
  Threads = {t1, t2}
  MaxCalls = 3
INVARIANTS SlotsConserved SleepHasCause PathsOnce
PROPERTIES ImplementsBuffer AllUsed
CHECK_DEADLOCK FALSE
