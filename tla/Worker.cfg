\* Two jobs and no job: enough to see the fields of one job used for another.
SPECIFICATION FairSpec
CONSTANTS
  Job = {j1, j2}
  NoHook = NoHook
INVARIANTS
  NothingInUse
  ExactlyOnce
  FailureRemembered
PROPERTIES
  RefinesFairContract
  CallReturns
