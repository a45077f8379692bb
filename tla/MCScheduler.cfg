\* One created thread, which is reaped and created again, beside bootstrap and
\* idle; sleeps up to half the range of the counter.
CONSTANTS
  a = a
  Thread = {a}
  Boot = Boot
  Idle = Idle
  None = None
  TickMod = 4
  SleepDurations = {1, 2}
  TicksPerSlice = 2
SPECIFICATION FairSpec
INVARIANTS TypeOK ListsMatchStates CurrentIsRunning ReaperHoldsDeadStack
PROPERTIES ExitIsFinal SleepsRequestedTicks NoOvertaking ReadyThreadRuns SleeperRuns
