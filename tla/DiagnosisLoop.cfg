\* Logs of up to five lines, two patches, three attempts, any answers.
CONSTANTS
  a = a
  b = b
  NoPatch = NoPatch
  Patches <- TwoPatches
  Lists = TRUE
  Claims = FALSE
  MaxAttempts = 3
  error = error
  probe = probe
  main = main
  t1 = t1
  Words = {error, probe, main}
  Signals = {error}
  Noises = {probe}
  Stamps = {t1, t2}
  NoStamp = NoStamp
  Newline = Newline
  Truncated = Truncated
  NoLogs = NoLogs
  ErrorState = CrashLoopBackOff
  Lines <- WrittenLines
  MaxLines = 2
  MaxChars = 4
  TailLines = 4
  MaxLog = 5
SPECIFICATION TriageSpec
INVARIANTS
  TypeOK
  ProposedWasAccepted
  SamePatternSameFingerprint
  SignalsQuoted
PROPERTY
  Concludes
CHECK_DEADLOCK FALSE
