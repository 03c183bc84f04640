CONSTANTS
  None = None
  Closed = Closed
  c1 = c1
  c2 = c2
  c3 = c3
  Clients = {c1, c2}
  Peer <- MCPeer
  Messages <- FewMessages
  Engine <- MCEngine
  UpstreamReplies <- FewReplies
  MaxConnections = 2
  SocketBuffer = 212992
  Execute <- MCExecute
  NameLen <- MCNameLen
INIT Init
NEXT Next
INVARIANTS
  DeniedNeverForwarded
  DenialIsFinal
PROPERTIES
  OneAnswer
  ImplementsGate
