CONSTANTS
  None = None
  Execute <- MCExecute
  Files <- MCFiles
  Compiles <- MCCompiles
  Configs <- DirectoryOnly
  Passwd <- MCPasswd
  FdLimit = 2
  MaxConnections = 1
  MaxWaiting = 1
  MaxFaults = 2
SPECIFICATION Spec
PROPERTY StartAlwaysEnds
