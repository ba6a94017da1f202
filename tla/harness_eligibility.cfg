SPECIFICATION Spec
CONSTANTS
  p1 = p1
  p2 = p2
  p3 = p3
  prompt = prompt
  rule = rule
  desk = desk
  lab = lab
  Absent = Absent
  Proposals = {p1}
  Assets = {prompt}
  Asset <- MCAsset
  Eligible = {}
  Procs = {desk}
  Duty <- OneDuty
  MaxEdits = 0
  MaxOps = 3
  MaxFailures = 0
CHECK_DEADLOCK FALSE
INVARIANT ActivationRecorded
