CONSTANTS
  Fds = {f1, f2, f3, f4, f5, f6}
  NoFd = NoFd
  Capacity = 7
  MaxTime = 1
  f1 = f1
  f2 = f2
  f3 = f3
  f4 = f4
  f5 = f5
  f6 = f6
SYMMETRY Symmetry
SPECIFICATION Spec
INVARIANT PeekIsOldest
