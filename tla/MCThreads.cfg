SPECIFICATION Spec
CONSTANTS
  Thread = {main, t1, t2}
  Main = main
  NoThread = NoThread
  Fd = {}
  NoFd = NoFd
  MaxTime = 0
  Uses = {"kill", "stop", "exit", "sleep", "wait_fd", "critical", "raise", "sigint"}
SYMMETRY Symm
VIEW View
INVARIANTS TypeOK RingInv  ContextSaved DeadlockSound
