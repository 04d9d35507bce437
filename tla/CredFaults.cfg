SPECIFICATION Spec
CONSTANTS
  p1 = p1  p2 = p2  t1 = t1  t2 = t2  t3 = t3  k1 = k1  k2 = k2  A = A  B = B
  Profile = {A}
  Default = A
  Proc = {p1, p2}
  Task = {t1, t3}
  Cli = {}
  TaskProc <- TwoTasks
  ProcProfile <- BothOnA
  Commands = {}
  Faults = {"lost", "unsaved", "crash", "void"}
  MaxGen = 3
  NoOne = NoOne  Free = Free  Abandoned = Abandoned
INVARIANTS NoReuse FileRefreshable RightToken
