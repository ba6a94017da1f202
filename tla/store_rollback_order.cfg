SPECIFICATION Spec
CONSTANTS
  p1 = p1
  p2 = p2
  memory = memory
  skill = skill
  a = a
  b = b
  Absent = Absent
  NoProc = NoProc
  Proposals = {p1, p2}
  Targets = {memory, skill}
  Seeded = {memory}
  Changes <- MCChanges
  Procs = {a}
  Desk <- OneDesk
  Ops = {"accept", "rollback"}
  MaxEdits = 0
  MaxOps = 4
  MaxCrashes = 0
  MaxFaults = 0
CHECK_DEADLOCK FALSE
INVARIANT RolledBackGone
