SPECIFICATION GcSpec
CONSTANTS
  p1 = p1
  p2 = p2
  p3 = p3
  s1 = s1
  s2 = s2
  sigint = sigint
  sigterm = sigterm
  Ptrs = {p1, p2, p3}
  Fds = {s1, s2}
  Nothing = Nothing
  Signals = {sigint, sigterm}
  Interruptible <- SafePoints
INVARIANTS GcTypeOK ListIsHeap ReleasedOnce NothingLeftBehind
PROPERTIES KeepsPromise CleanupEnds
CHECK_DEADLOCK FALSE
