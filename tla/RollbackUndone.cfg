\* Two PatchRequests for one deployment, each rolled back.
CONSTANTS
  Pods = {}
  Deployments = {d1}
  DeploymentOf <- NoOwner
  NamespaceOf <- OneNamespace
  ErrorStates = {OOMKilled}
  PRs = {n1, n2}
  NoPR = NoPR
  Patches = {fix, nopatch}
  NoPatch = nopatch
  Forbidden = {}
  Actionable = {fix}
  Kubectl = TRUE
  Window = 1
  MaxSeen = 1
  MaxFaults = 0
  MaxRestarts = 0
SYMMETRY PRSymmetry
SPECIFICATION Spec
INVARIANTS
  FailedPatchIsOff
