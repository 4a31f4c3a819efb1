SPECIFICATION LiveSpec
CONSTANTS
  Thread = {main, t1, t2}
  Main = main
  NoThread = NoThread
  Fd = {}
  NoFd = NoFd
  MaxTime = 0
  Uses = {"kill", "stop"}
VIEW View
PROPERTY RunnableRuns
