SPECIFICATION Spec
CONSTANTS
  WakeAttempts = 1
  Margin = 1
  MaxGen = 7
  MaxVersion = 1
  MaxCrashes = 0
  MaxStoreErrors = 0
  MaxNow = 0
INVARIANT OrdinaryWakeKeepsNewerVolume
