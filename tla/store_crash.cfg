SPECIFICATION Spec
CONSTANTS
  p1 = p1
  p2 = p2
  memory = memory
  skill = skill
  a = a
  b = b
  Absent = Absent
  NoProc = NoProc
  Proposals = {p1, p2}
  Targets = {memory, skill}
  Seeded = {memory}
  Changes <- MCChanges
  Procs = {a}
  Desk <- OneDesk
  Ops = {"accept", "reject", "rollback", "edit", "feedback"}
  MaxEdits = 1
  MaxOps = 4
  MaxCrashes = 2
  MaxFaults = 1
CHECK_DEADLOCK FALSE
INVARIANT TypeOK
INVARIANT OnlyApproved
INVARIANT SettledNotOffered
PROPERTY AtomicLedger
