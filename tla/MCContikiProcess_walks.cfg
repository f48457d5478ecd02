SPECIFICATION FairSpec
CONSTANTS
  p1 = p1
  p2 = p2
  p3 = p3
  Process <- Three
  NULL = NULL
  HEAD = HEAD
  Started <- Boot
  NUMEVENTS = 2
  Posted <- Events
  Polled <- OnePolled
  MaxCalls = 2
INVARIANTS TypeOK ListedAreRunning ThreadRunsAlone WalksMissNobody
PROPERTIES EventsTakenInOrder PolledIsCalled LoopRunsAgain
CHECK_DEADLOCK FALSE
