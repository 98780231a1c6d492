CONSTANTS
  Circs = {c1, c2}
  Guards = {g1}
  Seed <- MCSeed
  MaxLaunch = 3
  MaxHops = 3
  NumAcceptable = 2
  ProbeSendFaults = TRUE
  MinCircs <- MCMinCircs
  NoticePct <- MCNoticePct
  WarnPct <- MCWarnPct
  ExtremePct <- MCExtremePct
  ScaleCircs <- MCScaleCircs
  MinUse <- MCMinUse
  NoticeUsePct <- MCNoticeUsePct
  ExtremeUsePct <- MCExtremeUsePct
  ScaleUse <- MCScaleUse
  MultFactor <- MCMultFactor
  ScaleFactor <- MCScaleFactor
  DropGuards <- MCDropGuards
  Unit = 4
SPECIFICATION Spec
INVARIANT BuildBalance
CHECK_DEADLOCK FALSE
