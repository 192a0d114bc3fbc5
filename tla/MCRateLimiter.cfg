SPECIFICATION Spec
CONSTANTS
  vt = vt
  abuse = abuse
  stub = stub
  Providers = {vt, abuse, stub}
  Callers = {c1, c2}
  MinuteLen = 2
  DayLen = 4
  Quotas <- MCQuotas
  MaxLag = 1
  MaxTime = 4
INVARIANTS TypeOK QuotaRespected OvershootBounded RetryAtReset
PROPERTY GrantsTokens
CHECK_DEADLOCK FALSE
