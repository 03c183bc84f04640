CONSTANTS
  None = None
  p1 = p1
  p2 = p2
  Nscd = Nscd
  Lookups = {1}
  Processes = {p1, p2}
  Creds <- MCCreds
  Names <- MCNames
  Engine <- MCEngine
  Configs <- AllConfigs
  SocketGroup = {2, 9}
  Retries = 1
  Execute <- MCExecute
SPECIFICATION Spec
INVARIANTS
  TypeOK
  JudgedOnce
  NeverJudgedAsNscd
  RelaysAreSafe
  ResolverIsGuarded
PROPERTY
  EveryLookupEnds
