SPECIFICATION SystemSpec
CONSTANTS
  Cases = {c1, c2}
  Slots = {s1}
  Passwords = {good, bad}
  RightPasswords = {good}
  Harmful = {c2}
  Siblings = TRUE
  NoPassword = NoPassword
  Unreadable = Unreadable
  MaxPasswordAttempts = 2
  NotifyMaxRetries = 1
  ResubmitMaxRetries = 2
  Polls = 1
  Faults = {"rescan", "list"}
  MaxFaults = 1
  MaxCrashes = 0
  MaxPushes = 1
  MaxRequests = 0
PROPERTY QuarantinedWhenDetected
CHECK_DEADLOCK FALSE
