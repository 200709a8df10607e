\* The same with one failing call, restart or deletion at any point.
CONSTANTS
  Pods = {p1}
  Deployments = {d1}
  DeploymentOf <- OneOwner
  NamespaceOf <- OneNamespace
  ErrorStates = {OOMKilled}
  ImmediateStates = {OOMKilled}
  NoError = NoError
  Logs = {log}
  PRs = {1, 2}
  NoPR = NoPR
  Patches = {fix, nopatch}
  NoPatch = nopatch
  Forbidden = {}
  Actionable = {fix}
  Cures = {fix}
  DampenCount = 1
  DampenWindow = 0
  MaxBurst = 1
  CacheTTL = 1
  Kubectl = TRUE
  Window = 0
  MaxSeen = 1
  MaxFaults = 1
  MaxRestarts = 1
  MaxMishaps = 1
SPECIFICATION AgentSpec
INVARIANTS
  ExecutorsApart
