CONSTANTS
  Npub = {a}
  Hash = {h}
  NULL = NULL
  GraceDays = 1
  WriteBlockedDays = 0
  ReadBlockedDays = 0
  Period = 1
  Allowance = {1}
  MaxTime = 2
  Pass = {p1}
  Channel = {"nostr", "email"}
  PageSize = 1
  WarningDays = {1}
  QuotaPercent = {80, 100}
  PurgeEnabled = TRUE
  MaxFaults = 0
SPECIFICATION NotifierSpec
PROPERTY PurgedAfterRetention
CHECK_DEADLOCK FALSE
