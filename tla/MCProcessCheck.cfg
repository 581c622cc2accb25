CONSTANTS
  p1 = p1
  Services <- MCServices
  ActionRates <- MCRates
  MaxStarts = 2
  MaxPid = 3
  Ppids = {1, 7}
  DoProcess = TRUE
  SampleCanFail = TRUE
  ResourceList <- MCResources
  UptimeList <- MCUptimes
  Samples <- MCSamples
SPECIFICATION Spec
INVARIANT TypeOK
INVARIANT PidChangesReported
INVARIANT RunningClearsStartErrors
INVARIANT ResourceFailureMeasured
