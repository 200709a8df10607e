\* Two single-pod deployments in two namespaces share a fingerprint.
CONSTANTS
  p1 = p1  p2 = p2  d1 = d1  d2 = d2  ns1 = ns1  ns2 = ns2
  Pods = {p1, p2}
  Deployments = {d1, d2}
  DeploymentOf <- MCOwnPods
  NamespaceOf <- MCTwoNamespaces
  ErrorStates = {OOMKilled}
  ImmediateStates = {OOMKilled}
  NoError = NoError
  Logs = {log}
  Patches = {patch}
  PRs = {n1, n2}
  NoPR = NoPR
  DampenCount = 1
  DampenWindow = 0
  MaxBurst = 1
  CacheTTL = 1
  MaxFaults = 1
  MaxRestarts = 1
  MaxSeen = 1
SYMMETRY PRSymmetry
SPECIFICATION Spec
INVARIANTS
  TypeOK
  CachedIncidentStored
  OneOpenPR
