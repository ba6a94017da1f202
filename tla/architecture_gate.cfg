SPECIFICATION GatewaySpec
CONSTANTS
  job1 = job1
  cli = cli
  gateway = gateway
  terminal = terminal
  Nobody = Nobody
  None = None
  Runners = {job1, cli}
  Stoppable = {job1}
  Processes = {gateway, terminal}
  Gateway = gateway
  Home <- MCHome
  Dry = {}
  Bound = {}
  Gated = {job1}
  MaxSteps = 2
  EverySteps = 2
  FailFast = 2
  Routes = 1
  Commands = 1
  Enabled = TRUE
  ShadowMode = FALSE
  MaxKills = 1
CHECK_DEADLOCK FALSE
INVARIANT GateHolds
