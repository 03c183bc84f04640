CONSTANTS
  None = None
  Hosts = {"lo"}
  Sockets <- OneSocket
  Processes = {1, 2}
  Egid <- MCEgid
  Self = 1
  CanInspect = FALSE
  ByProcess = FALSE
  Listener <- On4
INIT Init
NEXT Next
INVARIANT
  UidKnown
