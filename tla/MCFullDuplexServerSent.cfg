\* csession.cpp:51: the head of the queue has been sent when its callback runs.
SPECIFICATION Spec
SYMMETRY Symmetry
CONSTANTS
  Session = {s1, s2}
  BufLen = 2
  MaxBytes = 3
  UninitLen = {0, 1, 3}
CHECK_DEADLOCK FALSE
INVARIANT HeadIsSent
