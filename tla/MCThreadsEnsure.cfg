SPECIFICATION Spec
CONSTANTS
  Thread = {main, t1}
  Main = main
  NoThread = NoThread
  Fd = {}
  NoFd = NoFd
  MaxTime = 0
  Uses = {"kill"}
PROPERTY EnsureNotCut
