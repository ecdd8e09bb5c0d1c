SPECIFICATION Spec
CONSTANTS
  c1 = c1
  c2 = c2
  fpA = fpA
  fpB = fpB
  None = None
  Call <- Calls
  Fingerprint <- Fingerprints
  Manifest <- OneManifest
  MaxFailures = 3
  MaxConfig = 1
  MaxDismiss = 1
  MaxRestart = 0
CHECK_DEADLOCK FALSE
PROPERTIES RetrySurvivesDismiss
