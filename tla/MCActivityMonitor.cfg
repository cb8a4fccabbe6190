SPECIFICATION Spec
CONSTANTS
  Hooks = {h1}
  Cooldown = 2
  Thresholds = {1, 2}
  Retention = 2
  Failures = FALSE
  MaxTime = 2
INVARIANT DreamKeepsSamples
