SPECIFICATION FairSpec
CONSTANTS
  p1 = p1  p2 = p2  t1 = t1  t2 = t2  t3 = t3  k1 = k1  k2 = k2  A = A  B = B
  Profile = {A}
  Default = A
  Proc = {p1}
  Task = {t1, t2}
  Cli = {k1}
  TaskProc <- PairOfTasks
  ProcProfile <- OneOnA
  Commands = {"logout", "logout_all"}
  Faults = {"crash", "offline", "unsaved"}
  MaxGen = 2
  NoOne = NoOne  Free = Free  Abandoned = Abandoned
CHECK_DEADLOCK FALSE
INVARIANTS LoggedOutStaysOut
PROPERTIES Settles
