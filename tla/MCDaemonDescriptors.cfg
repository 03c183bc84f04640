CONSTANTS
  None = None
  Execute <- MCExecute
  Files <- MCFiles
  Compiles <- MCCompiles
  Configs <- GoodOnly
  Passwd <- MCPasswd
  FdLimit = 2
  MaxConnections = 1
  MaxWaiting = 1
  MaxFaults = 0
SPECIFICATION Spec
INVARIANT StaysUp
