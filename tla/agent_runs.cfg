SPECIFICATION GatewayFair
CONSTANTS
  job1 = job1
  cli = cli
  gateway = gateway
  terminal = terminal
  Nobody = Nobody
  None = None
  Runners = {job1, cli}
  Stoppable = {job1}
  Processes = {gateway, terminal}
  Gateway = gateway
  Home <- MCHome
  Dry = {}
  Bound = {job1}
  Gated = {cli}
  MaxSteps = 2
  EverySteps = 2
  FailFast = 2
  Routes = 2
  Commands = 1
  Enabled = TRUE
  ShadowMode = TRUE
  MaxKills = 1
CHECK_DEADLOCK FALSE
INVARIANTS TypeOK NothingForgotten EffectsAccounted StopHeeded StatusTruthful
PROPERTIES TerminalIsFinal JobEnds LockReleased
