SPECIFICATION FairSpec
CONSTANTS
  Cases = {c1}
  Slots = {s1, s2}
  Passwords = {p1}
  NoPassword = NoPassword
  Unreadable = Unreadable
  MaxPasswordAttempts = 2
  NotifyMaxRetries = 2
  ResubmitMaxRetries = 2
  Polls = 2
  Faults = {"smtp", "rescan", "bounce", "rekey"}
  MaxFaults = 1
  MaxCrashes = 1
  MaxPushes = 2
  MaxRequests = 1
INVARIANT BackstopArmed
PROPERTY RecheckConcludes
CHECK_DEADLOCK FALSE
