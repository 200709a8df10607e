\* Two pods of one deployment race through the three layers.
CONSTANTS
  p1 = p1  p2 = p2  d1 = d1  d2 = d2  ns1 = ns1  ns2 = ns2
  Pods = {p1, p2}
  Deployments = {d1}
  DeploymentOf <- MCSamePods
  NamespaceOf <- MCOneNamespace
  ErrorStates = {CrashLoopBackOff}
  ImmediateStates = {}
  NoError = NoError
  Logs = {log}
  Patches = {patch}
  PRs = {n1, n2, n3}
  NoPR = NoPR
  DampenCount = 2
  DampenWindow = 0
  MaxBurst = 2
  CacheTTL = 1
  MaxFaults = 0
  MaxRestarts = 0
  MaxSeen = 2
SYMMETRY PRAndPodSymmetry
SPECIFICATION Spec
INVARIANTS
  DuplicatesBounded
  SeenNeverInvented
