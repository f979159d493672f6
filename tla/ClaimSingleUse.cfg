SPECIFICATION Spec
CONSTANTS
  Cases = {c1}
  Slots = {s1, s2}
  Passwords = {p1}
  NoPassword = NoPassword
  Unreadable = Unreadable
  MaxPasswordAttempts = 3
  NotifyMaxRetries = 1
  ResubmitMaxRetries = 1
  Polls = 1
  Faults = {}
  MaxFaults = 0
  MaxCrashes = 0
  MaxPushes = 0
  MaxRequests = 1
PROPERTY LinkIsSingleUse
CHECK_DEADLOCK FALSE
