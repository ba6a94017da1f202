SPECIFICATION FairSpec
CONSTANTS
  executor = executor
  judge = judge
  c1 = c1
  c2 = c2
  c3 = c3
  Nobody = Nobody
  Brokers = {executor, judge}
  Callers = {c1, c2, c3}
  Home <- MCHome
  Roles = {executor, judge}
  Role <- MCRole
  Requests <- MCRequests
  Quota <- MCQuota
  Allowance <- MCAllowance
  MaxCrashes = 1
CHECK_DEADLOCK FALSE
INVARIANTS TypeOK CommitPrecedesAdmission QuotaConserved InflightTruthful
PROPERTIES NoneAfterRevoke FlightReleased
