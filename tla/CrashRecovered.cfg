\* A container that was restarted and is ready.
CONSTANTS
  Pods = {p1}
  Deployments = {"d1"}
  DeploymentOf <- OneDeployment
  NamespaceOf = NamespaceOf
  ErrorStates = {"CrashLoopBackOff", "OOMKilled", "ImagePullBackOff", "InitCrashLoopBackOff"}
  ImmediateStates = {"OOMKilled", "ImagePullBackOff", "InitCrashLoopBackOff"}
  NoError = "healthy"
  DampenCount = 3
  DampenWindow = 1
  MaxBurst = 3
  Exits = {"Error"}
  Stuck = {}
  MaxCrashes = 1
SPECIFICATION Spec
INVARIANTS
  RecoveryClears
