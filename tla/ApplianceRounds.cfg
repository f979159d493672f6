SPECIFICATION SystemSpec
CONSTANTS
  Cases = {c1}
  Slots = {s1, s2}
  Passwords = {good, bad}
  RightPasswords = {good}
  Harmful = {}
  Siblings = FALSE
  NoPassword = NoPassword
  Unreadable = Unreadable
  MaxPasswordAttempts = 2
  NotifyMaxRetries = 1
  ResubmitMaxRetries = 1
  Polls = 2
  Faults = {"rescan"}
  MaxFaults = 1
  MaxCrashes = 1
  MaxPushes = 2
  MaxRequests = 0
SYMMETRY SlotSymmetry
INVARIANT SystemTypeOK
PROPERTY PassedWhenReleased
CHECK_DEADLOCK FALSE
