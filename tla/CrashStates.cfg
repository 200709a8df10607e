\* Every way a container can end, statuses that outrun the handlers.
CONSTANTS
  Pods = {p1}
  Deployments = {"d1"}
  DeploymentOf <- OneDeployment
  NamespaceOf = NamespaceOf
  ErrorStates = {"CrashLoopBackOff", "OOMKilled", "ImagePullBackOff", "InitCrashLoopBackOff"}
  ImmediateStates = {"OOMKilled", "ImagePullBackOff", "InitCrashLoopBackOff"}
  NoError = "healthy"
  DampenCount = 3
  DampenWindow = 1
  MaxBurst = 3
  Exits = {"Error", "OOMKilled", "Completed"}
  Stuck = {"ImagePullBackOff"}
  MaxCrashes = 1
SPECIFICATION Spec
INVARIANTS
  TypeOK
  OnlyFailuresTrigger
PROPERTIES
  CountsAccumulate
