SPECIFICATION FairSpec
CONSTANTS
  c1 = c1
  c2 = c2
  fpA = fpA
  fpB = fpB
  None = None
  Call <- Calls
  Fingerprint <- Fingerprints
  Manifest <- OneManifest
  MaxFailures = 3
  MaxConfig = 2
  MaxDismiss = 0
  MaxRestart = 0
CHECK_DEADLOCK FALSE
PROPERTIES PendingCaught
