SPECIFICATION Spec
CONSTANTS
  p1 = p1
  p2 = p2
  memory = memory
  skill = skill
  a = a
  b = b
  Absent = Absent
  NoProc = NoProc
  Proposals = {p1, p2}
  Targets = {memory, skill}
  Seeded = {memory}
  Changes <- MCChanges
  Procs = {a, b}
  Desk <- OneDesk
  Ops = {"accept", "start"}
  MaxEdits = 0
  MaxOps = 2
  MaxCrashes = 0
  MaxFaults = 0
CHECK_DEADLOCK FALSE
INVARIANT OnlyApproved
