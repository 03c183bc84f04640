CONSTANTS
  None = None
  Closed = Closed
  c1 = c1
  c2 = c2
  c3 = c3
  Clients = {c1, c3}
  Peer <- MCPeer
  Messages <- AllMessages
  Engine <- MCEngine
  UpstreamReplies <- MCReplies
  MaxConnections = 1
  SocketBuffer = 212992
  Execute <- MCExecute
  NameLen <- MCNameLen
SPECIFICATION Spec
INVARIANTS
  TypeOK
  NeverToldNoNscd
  SlotsConserved
PROPERTIES
  HandlersEnd
  EveryoneIsAccepted
