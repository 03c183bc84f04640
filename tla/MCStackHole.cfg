CONSTANTS
  None = None
  p1 = p1
  p2 = p2
  Nscd = Nscd
  Lookups = {1}
  Processes = {p1, p2}
  Creds <- MCCreds
  Names <- OneName
  Engine <- MCEngine
  Configs <- HoleConfigs
  SocketGroup = {2, 9}
  Retries = 1
  Execute <- MCExecute
INIT Init
NEXT Next
INVARIANT
  RelayedWasJudged
