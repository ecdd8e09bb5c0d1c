SPECIFICATION PipelineSpec
CONSTANTS
  c1 = c1
  c2 = c2
  fpA = fpA
  fpB = fpB
  None = None
  Call <- Calls
  Fingerprint <- Fingerprints
  Manifest <- EveryKind
  MaxFailures = 2
  MaxConfig = 2
  MaxDismiss = 1
  MaxRestart = 1
CHECK_DEADLOCK FALSE
INVARIANTS TypeOK SingleFlight CancelHonoured BreakerOvershoot
PROPERTIES DismissReleases IsSafeUpdate
