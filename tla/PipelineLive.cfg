\* A pod goes on failing; nothing else is fair but time and the calls.
CONSTANTS
  p1 = p1  p2 = p2  d1 = d1  d2 = d2  ns1 = ns1  ns2 = ns2
  Pods = {p1}
  Deployments = {d1}
  DeploymentOf <- MCSamePods
  NamespaceOf <- MCOneNamespace
  ErrorStates = {OOMKilled}
  ImmediateStates = {OOMKilled}
  NoError = NoError
  Logs = {log}
  Patches = {patch}
  PRs = {n1, n2}
  NoPR = NoPR
  DampenCount = 1
  DampenWindow = 0
  MaxBurst = 1
  CacheTTL = 2
  MaxFaults = 1
  MaxRestarts = 1
  MaxSeen = 2
SPECIFICATION RecurringSpec
PROPERTIES
  RecurrenceDiagnosed
