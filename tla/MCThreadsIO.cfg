SPECIFICATION LiveSpec
CONSTANTS
  Thread = {main, t1}
  Main = main
  NoThread = NoThread
  Fd = {f1}
  NoFd = NoFd
  MaxTime = 1
  Uses = {"kill", "stop", "exit", "sleep", "wait_fd", "raise", "sigint"}
VIEW View
PROPERTY WaitEnds
