CONSTANTS
  Fds = {f1, f2, f3, f4, f5}
  NoFd = NoFd
  Capacity = 6
  MaxTime = 3
  f1 = f1
  f2 = f2
  f3 = f3
  f4 = f4
  f5 = f5
SYMMETRY Symmetry
SPECIFICATION Spec
INVARIANTS
  TypeOK
  IndexCoherent
  BuffersBalanced
  PeekIsOldest
  NeverFull
PROPERTY ImplementsTable
