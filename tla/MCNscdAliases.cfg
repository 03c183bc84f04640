CONSTANTS
  None = None
  Closed = Closed
  c1 = c1
  c2 = c2
  c3 = c3
  Clients = {c1}
  Peer <- MCPeer
  Messages <- FewMessages
  Engine <- MCEngine
  UpstreamReplies <- AliasReplies
  MaxConnections = 1
  SocketBuffer = 212992
  Execute <- MCExecute
  NameLen <- MCNameLen
INIT Init
NEXT Next
INVARIANT
  CompleteReplies
