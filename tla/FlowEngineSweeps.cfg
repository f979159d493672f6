SPECIFICATION FairSpec
CONSTANTS
  Cases = {c1, c2}
  Slots = {s1}
  Passwords = {p1}
  NoPassword = NoPassword
  Unreadable = Unreadable
  MaxPasswordAttempts = 2
  NotifyMaxRetries = 2
  ResubmitMaxRetries = 1
  Polls = 1
  Faults = {"smtp", "rescan", "list"}
  MaxFaults = 2
  MaxCrashes = 1
  MaxPushes = 1
  MaxRequests = 1
PROPERTIES SubmissionSettles NotificationRetried SettledStands
CHECK_DEADLOCK FALSE
