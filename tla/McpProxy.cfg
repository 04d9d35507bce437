SPECIFICATION FairSpec
CONSTANTS
  Inits = {i1, i2}
  Requests = {r1}
  Notes = {n1}
  NoMsg = NoMsg
  MaxEnded = 2
INVARIANTS OneReply HandshakeKept
PROPERTIES ImplementsAtMostOnce RequestsAnswered
CHECK_DEADLOCK FALSE
