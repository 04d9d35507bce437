SPECIFICATION FairSpec
CONSTANTS
  Calls = {c1, c2, c3}
  NoCall = NoCall
  MaxEnded = 2
INVARIANTS NoOrphan
PROPERTIES ImplementsAtMostOnce CallsEnd
CHECK_DEADLOCK FALSE
