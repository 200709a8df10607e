\* Every sequence of calls, with reopening.
CONSTANTS
  Patches = {patch1, patch2, nopatch}
  NoPatch = nopatch
  Approvers = {rahul, nobody}
  Nobody = nobody
  Summaries = {short, long}
  LongEnough = {long}
  NoSummary = nosummary
  MaxCalls = 10
SPECIFICATION Spec
INVARIANTS
  TypeOK
  ClosedIsJustified
PROPERTIES
  KeepsLifecycle
