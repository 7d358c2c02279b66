SPECIFICATION FairSpec

CONSTANTS
  p1 = p1
  p2 = p2
  p3 = p3
  r1 = r1
  r2 = r2
  r3 = r3
  Presses = {p1, p2, p3}
  RequestIds = {r1, r2, r3}
  requestOf <- OwnRequests
  NoRequest = NoRequest

INVARIANTS
  TypeOK
  SentWasAccepted
  OneSendInFlight

PROPERTIES
  SendingEnds

CHECK_DEADLOCK FALSE
