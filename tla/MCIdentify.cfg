CONSTANTS
  None = None
  Hosts = {"lo", "eth"}
  Sockets <- MCSockets
  Processes = {1, 2}
  Egid <- MCEgid
  Self = 1
  CanInspect = TRUE
  ByProcess = TRUE
  Listener <- On4
INIT Init
NEXT Next
INVARIANTS
  TypeOK
  NoStranger
  
  
