SPECIFICATION Spec
CONSTANTS
  p1 = p1  p2 = p2  t1 = t1  t2 = t2  t3 = t3  k1 = k1  k2 = k2  A = A  B = B
  Profile = {A, B}
  Default = A
  Proc = {p1}
  Task = {}
  Cli = {k1, k2}
  TaskProc <- NoTasks
  ProcProfile <- OneOnB
  Commands = {"login", "logout_all", "use", "scope"}
  Faults = {"unsaved"}
  MaxGen = 3
  NoOne = NoOne  Free = Free  Abandoned = Abandoned
SYMMETRY Commuting
CHECK_DEADLOCK FALSE
INVARIANTS DefaultExists
PROPERTIES WritesKeepNewer ConsentNotStale
