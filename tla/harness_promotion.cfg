SPECIFICATION Spec
CONSTANTS
  p1 = p1
  p2 = p2
  p3 = p3
  prompt = prompt
  rule = rule
  desk = desk
  lab = lab
  Absent = Absent
  Proposals = {p1, p2, p3}
  Assets = {prompt, rule}
  Asset <- MCAsset
  Eligible = {p1, p2}
  Procs = {desk, lab}
  Duty <- TwoDuties
  MaxEdits = 1
  MaxOps = 6
  MaxFailures = 1
CHECK_DEADLOCK FALSE
INVARIANTS TypeOK PromotedAsValidated
SYMMETRY Candidates
