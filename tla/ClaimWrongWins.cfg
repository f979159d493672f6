SPECIFICATION Spec
CONSTANTS
  Cases = {c1}
  Slots = {s1, s2, s3}
  Passwords = {p1}
  NoPassword = NoPassword
  Unreadable = Unreadable
  MaxPasswordAttempts = 3
  NotifyMaxRetries = 1
  ResubmitMaxRetries = 1
  Polls = 1
  Faults = {}
  MaxFaults = 0
  MaxCrashes = 0
  MaxPushes = 2
  MaxRequests = 0
PROPERTY WrongPasswordWins
CHECK_DEADLOCK FALSE
