\* csession.cpp:24: the session still exists when a lambda of it runs.
SPECIFICATION Spec
SYMMETRY Symmetry
CONSTANTS
  Session = {s1, s2}
  BufLen = 2
  MaxBytes = 3
  UninitLen = {0, 1, 3}
CHECK_DEADLOCK FALSE
INVARIANT HandlerOwnsLiveSession
