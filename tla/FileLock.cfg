SPECIFICATION FairSpec
CONSTANTS
  Client = {c1, c2, c3}
  MaxTicket = 3
  MaxMisjudged = 2
  Free = Free
  Abandoned = Abandoned
INVARIANTS NoStrayMarker
PROPERTIES WaitersEnd ImplementsMutex MarkerKept
