SPECIFICATION FairSleepSpec
CONSTANTS
  Readers <- ThreeThreads
  Main = "main"
  NextResponse = "next"
  Requests = 2
  Signals = TRUE
  SignalEarly = FALSE
INVARIANTS
  LoadedWhenUsed
  NobodyLeftWaiting
PROPERTIES
  AwakeServes
  TerminateEnds
CHECK_DEADLOCK FALSE
