\* The comment of the quotas in config.py, with one user.
SPECIFICATION MailSpec
CONSTANTS
  Users = {a1}
  NoUser = NoUser
  Sends = {s1, s2, s3, s4}
  HourlyQuota = 2
  DailyQuota = 3
CHECK_DEADLOCK FALSE
INVARIANT SendsStayWithinQuotas
