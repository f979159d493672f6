SPECIFICATION SystemSpec
CONSTANTS
  Cases = {c1}
  Slots = {s1, s2}
  Passwords = {good, bad}
  RightPasswords = {good}
  Harmful = {}
  Siblings = FALSE
  NoPassword = NoPassword
  Unreadable = Unreadable
  MaxPasswordAttempts = 3
  NotifyMaxRetries = 1
  ResubmitMaxRetries = 1
  Polls = 1
  Faults = {}
  MaxFaults = 0
  MaxCrashes = 0
  MaxPushes = 1
  MaxRequests = 0
INVARIANT QuarantinedIsStillHeld
CHECK_DEADLOCK FALSE
