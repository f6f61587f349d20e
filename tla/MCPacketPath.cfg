SPECIFICATION PathSpec
CONSTANTS
  ChanCap = 1
  MaxPackets = 2
  MaxMoves = 1
  p1 = p1
  p2 = p2
  Pids = {p1, p2}
  NoPid = NoPid
  Sockets <- MCSockets
  Start <- MCStart
  MayFail <- MCMayFail
  Wire <- MCWire
INVARIANTS PacketConservation NothingLeftBehind ParserStaysInside LastHistoryComplete
PROPERTIES CreditedAsSeen CreditedToOwner
