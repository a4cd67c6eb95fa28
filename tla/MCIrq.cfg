SPECIFICATION MCSpec
CONSTANTS
  Half = 2
  MaxTime = 4
  MaxArms = 2
  MaxWork = 2
INVARIANT TimeIsWhole
PROPERTY TimerReachesLinux WorkRuns
CHECK_DEADLOCK FALSE
