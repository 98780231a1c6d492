CONSTANTS
  Circs = {c1, c2}
  CloseMs = 1
  Slack = 1
  MaxTime = 4
  JumpSizes <- MCJumpSizes
  MaxJumps = 1
  MaxLaunch = 2
  LaunchLens = {2, 3}
  CbtDisabled = FALSE

SPECIFICATION Spec
INVARIANT NoSampleAcrossJump
CHECK_DEADLOCK FALSE
