SPECIFICATION FairSpec
CONSTANTS
  Children = {s3, native, third}
  GoRun = {native}
INVARIANTS NoneLeftBehind FailureIsReported LauncherInv
PROPERTIES SignalStopsAll FailureStopsAll
CHECK_DEADLOCK FALSE
