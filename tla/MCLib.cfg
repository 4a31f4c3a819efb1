SPECIFICATION LibSpec
CONSTANTS
  Thread = {t1, t2, t3}
  NoThread = NoThread
  MaxWaiting = 3
  Item = {i1, i2}
  Nil = Nil
  MaxPush = 2
  MaxNest = 2
  Loaders = {t1, t2}
  Main = t1
  MaxCalls = 5
INVARIANTS
   Fifo OneLoader
PROPERTIES IsLock WaitersWoken PopReturns IsRWLock
CHECK_DEADLOCK FALSE
