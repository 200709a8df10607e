\* One failing pod, from its events to verdicts on up to two PatchRequests.
CONSTANTS
  Pods = {p1}
  Deployments = {d1}
  DeploymentOf <- OneOwner
  NamespaceOf <- OneNamespace
  ErrorStates = {OOMKilled}
  ImmediateStates = {OOMKilled}
  NoError = NoError
  Logs = {log}
  PRs = {1, 2}
  NoPR = NoPR
  Patches = {fix, nopatch}
  NoPatch = nopatch
  Forbidden = {}
  Actionable = {fix}
  Cures = {fix}
  DampenCount = 1
  DampenWindow = 0
  MaxBurst = 1
  CacheTTL = 2
  Kubectl = TRUE
  Window = 1
  MaxSeen = 1
  MaxFaults = 0
  MaxRestarts = 0
  MaxMishaps = 0
SPECIFICATION AgentLiveSpec
PROPERTIES
  PipelineInPlace
  NeverSilenced
