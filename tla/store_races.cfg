SPECIFICATION FairSpec
CONSTANTS
  p1 = p1
  p2 = p2
  memory = memory
  skill = skill
  a = a
  b = b
  Absent = Absent
  NoProc = NoProc
  Proposals = {p1}
  Targets = {memory, skill}
  Seeded = {memory}
  Changes <- MCOneChange
  Procs = {a, b}
  Desk <- OneDesk
  Ops = {"accept", "reject", "rollback", "start"}
  MaxEdits = 0
  MaxOps = 3
  MaxCrashes = 1
  MaxFaults = 1
CHECK_DEADLOCK FALSE
INVARIANT ApplyExclusive
INVARIANT RollbackPath
PROPERTY ApplyEnds
