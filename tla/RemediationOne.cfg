\* One PatchRequest through failing calls and a restart.
CONSTANTS
  Pods = {}
  Deployments = {d1}
  DeploymentOf <- NoOwner
  NamespaceOf <- OneNamespace
  ErrorStates = {OOMKilled}
  PRs = {n1}
  NoPR = NoPR
  Patches = {fix, nopatch, job}
  NoPatch = nopatch
  Forbidden = {job}
  Actionable = {fix}
  Kubectl = TRUE
  Window = 2
  MaxSeen = 2
  MaxFaults = 2
  MaxRestarts = 1
SPECIFICATION LiveSpec
INVARIANTS
  TypeOK
  AppliedWasDeployed
  MemoryMatchesVerdict
  GivenUpByFaultOnly
  VerdictInForce
  ClosedAfterWindow
PROPERTIES
  KeepsPromise
  ApprovedCarriedOut
  AppliedJudged
