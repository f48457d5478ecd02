SPECIFICATION SepFairSpec
CONSTANTS
  t1 = t1
  e1 = e1
  p1 = p1
  sep = sep
  Ctimer = {t1, sep}
  AutoReset = {t1}
  Etimer = {e1}
  Owner <- OwnerOf
  Intervals = {2, 3}
  CLOCK = 32
  NUMEVENTS = 2
  MaxLag = 1
  MaxCalls = 2
  c1 = c1
  c2 = c2
  Client = {c1, c2}
  Time = 2
  MaxTransactions = 1
INVARIANTS TypeOK NoTimerLost Punctual RequestsAccountedFor
PROPERTIES NotEarly StoppedStaysQuiet EveryCtimerIsCalled AcceptedIsAnswered
CHECK_DEADLOCK FALSE
