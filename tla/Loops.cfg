SPECIFICATION MCSpec
CONSTANTS
  Rows = {r1, r2, r3}
  Target = r1
  PageSize = 1
  MaxPages = 3
  Lifetime = 20
  Interval = 3
  RetryAfters = {1, 6, 60}
  MaxLatency = 1
INVARIANTS WalkComplete PollsSpaced InviteKept
PROPERTIES WalkEnds PollEnds
CHECK_DEADLOCK FALSE
