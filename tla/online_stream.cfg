SPECIFICATION Spec
CONSTANTS
  s1 = s1
  s2 = s2
  s3 = s3
  c1 = c1
  c2 = c2
  cand1 = cand1
  cand2 = cand2
  Nobody = Nobody
  NoCandidate = NoCandidate
  NoTask = NoTask
  Owners = {s1, s2, s3, c1, c2}
  Claimed = {c1, c2}
  Recoverable = {c1}
  Together <- MCTogether
  Tasks = 3
  Candidates = {cand1, cand2}
  Learned <- MCLearned
  MaxEvents = 5
CHECK_DEADLOCK FALSE
INVARIANTS TypeOK Traceable RunningHasContainer CleanedIsGone ReuseIsVerified CompletedIsClean
PROPERTIES Promise
