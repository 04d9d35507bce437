SPECIFICATION MCSpec
CONSTANTS
  Uploads = {"archive", "upload"}
  MaxTries = 2
  Sections = {s1, s2, s3}
  Concurrency = 2
  Archive = "archive"
  Rows = 5
  BatchSize = 2
SYMMETRY MCSymmetry
INVARIANTS OneTerminalEvent FlagsAreTrue SectionsAccounted ArchiveAccounted ImportCounts
CHECK_DEADLOCK FALSE
