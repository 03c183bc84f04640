CONSTANTS
  None = None
  Refused = Refused
  u1 = u1
  u2 = u2
  t1 = t1
  Clients = {u1, u2, t1}
  Transport <- MCTransport
  Identities <- MCIdentities
  Sends <- MCSends
  Engine <- MCEngine
  Execute <- MCExecute
  Relays = {9}
  Ports = {p1}
  MaxConnections = 1
SPECIFICATION Spec
INVARIANTS TypeOK SlotsConserved AnswersOwnQuestion OwnRepliesAreWhole
PROPERTIES ImplementsGate ConnectionsMoveOn UdpIsServed
