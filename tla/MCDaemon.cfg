CONSTANTS
  None = None
  Execute <- MCExecute
  Files <- MCFiles
  Compiles <- MCCompiles
  Configs <- MCConfigs
  Passwd <- MCPasswd
  FdLimit = 4
  MaxConnections = 2
  MaxWaiting = 2
  MaxFaults = 2
SPECIFICATION Spec
INVARIANTS TypeOK NoHalfStart ListsMeanWhatTheySay
PROPERTIES StartEnds ComesBack NoHalfDaemon
