SPECIFICATION Spec
CONSTANTS
  Cases = {c1}
  Slots = {s1}
  Passwords = {p1}
  NoPassword = NoPassword
  Unreadable = Unreadable
  MaxPasswordAttempts = 3
  NotifyMaxRetries = 1
  ResubmitMaxRetries = 1
  Polls = 1
  Faults = {"bounce"}
  MaxFaults = 1
  MaxCrashes = 0
  MaxPushes = 0
  MaxRequests = 0
INVARIANT TerminalHoldsNoPassword
CHECK_DEADLOCK FALSE
