CONSTANTS
  Npub = {a, b}
  Hash = {h}
  NULL = NULL
  GraceDays = 1
  WriteBlockedDays = 0
  ReadBlockedDays = 0
  Period = 1
  Allowance = {1}
  MaxTime = 2
  Pass = {p1, p2}
  Channel = {"nostr"}
  PageSize = 1
  WarningDays = {}
  QuotaPercent = {}
  PurgeEnabled = TRUE
  MaxFaults = 1
SPECIFICATION NotifierSpec
INVARIANT SentOnce
PROPERTY StagesNoticed
CHECK_DEADLOCK FALSE
