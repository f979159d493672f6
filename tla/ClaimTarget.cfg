SPECIFICATION SystemSpec
CONSTANTS
  Cases = {c1, c2}
  Slots = {s1}
  Passwords = {good}
  RightPasswords = {good}
  Harmful = {}
  Siblings = TRUE
  NoPassword = NoPassword
  Unreadable = Unreadable
  MaxPasswordAttempts = 2
  NotifyMaxRetries = 1
  ResubmitMaxRetries = 2
  Polls = 1
  Faults = {"rescan"}
  MaxFaults = 1
  MaxCrashes = 0
  MaxPushes = 0
  MaxRequests = 0
PROPERTY RescansOwnEmail
CHECK_DEADLOCK FALSE
