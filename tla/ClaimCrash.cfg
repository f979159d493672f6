SPECIFICATION FairSpec
CONSTANTS
  Cases = {c1}
  Slots = {s1}
  Passwords = {p1}
  NoPassword = NoPassword
  Unreadable = Unreadable
  MaxPasswordAttempts = 3
  NotifyMaxRetries = 1
  ResubmitMaxRetries = 2
  Polls = 1
  Faults = {}
  MaxFaults = 0
  MaxCrashes = 1
  MaxPushes = 0
  MaxRequests = 0
PROPERTY SubmissionsEnd
CHECK_DEADLOCK FALSE
